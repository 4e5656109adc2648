---------------------------- MODULE UdpListener ----------------------------
(***************************************************************************)
(* The UDP listener (core/net/udp_listener.cpp): batches of datagrams, the *)
(* responders handed out with them, which may outlive the listener, and    *)
(* the descriptor, whose number the process reuses once it is closed.      *)
(*                                                                         *)
(* A datagram is where it came from and went to, what it parses as, and    *)
(* the size its OPT record offers.  The owner of the listener destroys it  *)
(* and makes another between callbacks; everything runs on the loop's      *)
(* thread, and events is what is left of the batch of ready descriptors    *)
(* it dispatches: the listener's, and one that stands for all others.      *)
(***************************************************************************)
EXTENDS Naturals, FiniteSets

CONSTANTS
  Datagrams,   \* what may arrive: [peer, local, kind, edns, ...]
  Sockets,     \* Socket objects (bound: those that exist or are still referred to)
  FdNumbers,   \* descriptor numbers
  kMaxPacketsPerWakeup,
  kClassicUdpSize, max_response_size,
  NoEdns, None

ASSUME UdpConstants ==
  /\ \A d \in Datagrams : d.kind \in {"query", "response", "malformed"}
                          /\ d.edns \in Nat \cup {NoEdns}
  /\ kMaxPacketsPerWakeup \in Nat \ {0}
  /\ kClassicUdpSize \in Nat /\ max_response_size \in Nat
  /\ NoEdns \notin Nat
  /\ None \notin Sockets /\ None \notin FdNumbers /\ None \notin Datagrams /\ None \notin Nat

VARIABLES
  socket_,     \* the listener's Socket; None: no listener
  fd,          \* [Sockets -> FdNumbers or None]: Socket::fd, None once the Socket is gone
  taken,       \* descriptors open elsewhere in the process
  inbox,       \* datagrams in the socket's receive buffer
  received_on, \* history: [Datagrams -> the Socket it was last read from]
  left,        \* on_readable(): datagrams this wake-up may still ask for; None outside
  responders,  \* responders the handler still holds
  sent,        \* what sendmsg() was given in the last step, or None
  events,      \* descriptors still to be dispatched: "udp", "other"
  other        \* another descriptor of the loop is ready

world == <<taken, other>>
socket == <<socket_, fd>>
reading == <<left, received_on>>
udpVars == <<world, socket, inbox, reading, responders, sent, events>>

UdpInit ==
  /\ socket_ = None
  /\ fd = [s \in Sockets |-> None]
  /\ taken = {}
  /\ inbox = {}
  /\ received_on = [d \in Datagrams |-> None]
  /\ left = None
  /\ responders = {}
  /\ sent = None
  /\ events = {} /\ other = FALSE

Listening == socket_ # None
InHandler == left # None
FreeFds == FdNumbers \ (taken \cup {fd[s] : s \in Sockets})

----------------------------------------------------------------------------
(* The listener's life *)

\* create(): what fails before add_fd() leaves nothing behind, and so does add_fd(),
\* since the listener it was for is destroyed.
create(s, f) ==
  /\ ~Listening /\ ~InHandler
  /\ fd[s] = None /\ \A r \in responders : r.socket # s
  /\ f \in FreeFds
  /\ socket_' = s
  /\ fd' = [fd EXCEPT ![s] = f]
  /\ sent' = None
  /\ UNCHANGED <<world, reading, inbox, responders, events>>

\* ~UdpListener(): the loop forgets the descriptor, and the Socket, of which
\* responders hold weak references only, goes with it and closes it.
destroy ==
  /\ Listening /\ ~InHandler
  /\ fd' = [fd EXCEPT ![socket_] = None]
  /\ socket_' = None
  /\ inbox' = {}
  /\ events' = events \ {"udp"}
  /\ sent' = None
  /\ UNCHANGED <<world, reading, responders>>

----------------------------------------------------------------------------
(* Responders *)

Largest(a, b) == IF a > b THEN a ELSE b
Smallest(a, b) == IF a < b THEN a ELSE b

\* std::clamp of what the client offers; 512 without EDNS.
max_udp_response_size(edns) ==
  IF edns = NoEdns THEN kClassicUdpSize
  ELSE Smallest(Largest(edns, kClassicUdpSize), Largest(max_response_size, kClassicUdpSize))

\* What the responder's lambda captures for the datagram in buffer_.
NewResponder(d) ==
  [socket |-> socket_, fd |-> fd[socket_], query |-> d, max_size |-> max_udp_response_size(d.edns)]

RawFd(r) == r.fd   \* wrong: the number is kept instead of a weak reference

\* socket.lock(): where the response goes out, if the Socket still exists.
SendsOn(r) == fd[r.socket]

\* Socket::send(): to the peer that asked, from the address it asked; a full send
\* buffer loses it.
send(r) ==
  \/ SendsOn(r) = None /\ sent' = None
  \/ /\ SendsOn(r) # None
     /\ sent' \in {None, [via |-> SendsOn(r), to |-> r.query.peer, from |-> r.query.local,
                          answers |-> r.query, max_size |-> r.max_size]}

\* The handler's responder is called when an answer comes, from another callback ...
Respond(r) ==
  /\ ~InHandler /\ r \in responders
  /\ responders' = responders \ {r}
  /\ send(r)
  /\ UNCHANGED <<world, socket, reading, inbox, events>>

\* ... or never.
DropResponders(dropped) ==
  /\ ~InHandler
  /\ responders' = responders \ dropped
  /\ sent' = None
  /\ UNCHANGED <<world, socket, reading, inbox, events>>

----------------------------------------------------------------------------
(* on_readable() *)

OnReadable ==
  /\ ~InHandler /\ Listening /\ "udp" \in events
  /\ events' = events \ {"udp"}
  /\ left' = kMaxPacketsPerWakeup
  /\ sent' = None
  /\ UNCHANGED <<world, socket, inbox, received_on, responders>>

UntilDrained == left   \* wrong: no limit to a wake-up

OneFewer == left - 1

\* One turn of its loop over the next datagram: what is no query is dropped; a query
\* goes to the handler, which answers at once, keeps the responder, or drops it.
Receive(d) ==
  /\ InHandler /\ left > 0 /\ d \in inbox
  /\ left' = OneFewer
  /\ inbox' = inbox \ {d}
  /\ received_on' = [received_on EXCEPT ![d] = socket_]
  /\ UNCHANGED <<world, socket, events>>

Dropped(d) ==
  /\ Receive(d) /\ d.kind # "query"
  /\ sent' = None /\ UNCHANGED responders

AnsweredAtOnce(d) ==
  /\ Receive(d) /\ d.kind = "query"
  /\ send(NewResponder(d)) /\ UNCHANGED responders

KeptForLater(d) ==
  /\ Receive(d) /\ d.kind = "query"
  /\ responders' = responders \cup {NewResponder(d)} /\ sent' = None

Ignored(d) ==
  /\ Receive(d) /\ d.kind = "query"
  /\ sent' = None /\ UNCHANGED responders

\* recvmsg() fails with something else than EAGAIN: an interrupt, or an earlier
\* response's ICMP error.
ReceiveError ==
  /\ InHandler /\ left > 0
  /\ left' = OneFewer
  /\ sent' = None
  /\ UNCHANGED <<world, socket, inbox, received_on, responders, events>>

\* EAGAIN, or the batch is full.
Return ==
  /\ InHandler /\ (inbox = {} \/ left = 0)
  /\ left' = None
  /\ sent' = None
  /\ UNCHANGED <<world, socket, inbox, received_on, responders, events>>

----------------------------------------------------------------------------
(* The loop and the world *)

\* epoll_wait: every ready descriptor is dispatched before the next one.
Poll ==
  /\ ~InHandler /\ events = {}
  /\ events' = {e \in {"udp", "other"} : \/ e = "udp" /\ Listening /\ inbox # {}
                                         \/ e = "other" /\ other}
  /\ sent' = None
  /\ UNCHANGED <<world, socket, reading, inbox, responders>>

OtherTurn ==
  /\ ~InHandler /\ "other" \in events
  /\ events' = events \ {"other"} /\ other' = FALSE
  /\ sent' = None
  /\ UNCHANGED <<socket, reading, taken, inbox, responders>>

OtherReady ==
  /\ ~other /\ other' = TRUE
  /\ sent' = None
  /\ UNCHANGED <<socket, reading, taken, inbox, responders, events>>

\* A datagram comes in; one that cannot be told from an earlier one only after that
\* was dealt with.
Arrive(d) ==
  /\ Listening /\ d \notin inbox /\ \A r \in responders : r.query # d
  /\ inbox' = inbox \cup {d}
  /\ sent' = None
  /\ UNCHANGED <<world, socket, reading, responders, events>>

\* The receive buffer overflows, or another loop that shares the port drains it.
Lose(d) ==
  /\ d \in inbox /\ inbox' = inbox \ {d}
  /\ sent' = None
  /\ UNCHANGED <<world, socket, reading, responders, events>>

\* Another part of the process opens or closes a descriptor.
OtherOpens(f) ==
  /\ ~InHandler /\ f \in FreeFds /\ taken' = taken \cup {f}
  /\ sent' = None
  /\ UNCHANGED <<socket, reading, inbox, responders, events, other>>

OtherCloses(f) ==
  /\ ~InHandler /\ f \in taken /\ taken' = taken \ {f}
  /\ sent' = None
  /\ UNCHANGED <<socket, reading, inbox, responders, events, other>>

\* What the loop's thread does.
ListenerStep ==
  \/ Poll \/ OnReadable \/ OtherTurn \/ Return \/ ReceiveError
  \/ \E d \in Datagrams : Dropped(d) \/ AnsweredAtOnce(d) \/ KeptForLater(d) \/ Ignored(d)

UdpNext ==
  \/ \E s \in Sockets, f \in FdNumbers : create(s, f)
  \/ destroy
  \/ \E r \in responders : Respond(r)
  \/ \E dropped \in SUBSET responders : DropResponders(dropped)
  \/ ListenerStep
  \/ OtherReady
  \/ \E d \in Datagrams : Arrive(d) \/ Lose(d)
  \/ \E f \in FdNumbers : OtherOpens(f) \/ OtherCloses(f)

UdpSpec == UdpInit /\ [][UdpNext]_udpVars

----------------------------------------------------------------------------
\* What a client may take: 512 bytes unless it offered more, and no more than ours.
Acceptable(size, edns) ==
  /\ size <= Largest(max_response_size, kClassicUdpSize)
  /\ size <= IF edns = NoEdns THEN kClassicUdpSize ELSE Largest(edns, kClassicUdpSize)

\* "Calling it after the transport has shut down is a harmless no-op", "from the local
\* address the query arrived on", "never answer garbage": whatever is sent answers a
\* query, within its client's size, through the very Socket it came in by, which is
\* still the listener's.  A late responder sends nothing through another socket, nor
\* through whatever the process opened since under the same descriptor number.
RepliesExact ==
  sent # None =>
    /\ Listening /\ sent.via = fd[socket_] /\ sent.via \notin taken
    /\ sent.answers.kind = "query" /\ received_on[sent.answers] = socket_
    /\ sent.to = sent.answers.peer /\ sent.from = sent.answers.local
    /\ Acceptable(sent.max_size, sent.answers.edns)

----------------------------------------------------------------------------
(* Why RepliesExact holds *)

UdpTypeOK ==
  /\ socket_ \in Sockets \cup {None} /\ fd \in [Sockets -> FdNumbers \cup {None}]
  /\ taken \subseteq FdNumbers /\ inbox \subseteq Datagrams
  /\ received_on \in [Datagrams -> Sockets \cup {None}]
  /\ left \in 0..kMaxPacketsPerWakeup \cup {None}
  /\ events \subseteq {"udp", "other"} /\ other \in BOOLEAN

\* Only the listener's own Socket has a descriptor, and nothing else has that one.
SocketExact ==
  /\ InHandler => Listening
  /\ Listening => fd[socket_] \in FdNumbers \ taken
  /\ \A s \in Sockets : fd[s] # None => s = socket_

\* A responder refers to the Socket its query was read from, and that query is not
\* read again while the responder is held.
RespondersExact ==
  \A r \in responders :
    /\ r.socket \in Sockets /\ r.query \in Datagrams \ inbox
    /\ r.query.kind = "query" /\ received_on[r.query] = r.socket
    /\ Acceptable(r.max_size, r.query.edns)

UdpInv == UdpTypeOK /\ SocketExact /\ RespondersExact /\ RepliesExact
============================================================================
