---------------------------- MODULE ServerProofs ----------------------------
(***************************************************************************)
(* Responses leave through the socket their query came in by, for any      *)
(* number of datagrams, sockets and descriptor numbers, and any sizes.     *)
(*                                                                         *)
(* The process composed of its parts, for any clients, questions, sockets  *)
(* and sizes: what main() and QueryProcessor make the listener and the     *)
(* resolver do are steps of these, so what is proved of the listener alone *)
(* holds of the process, and every response is the one its client is owed. *)
(*                                                                         *)
(* The lists a worker thread loads are whole, and behind the files only    *)
(* where a file changed since its stamp, or the last attempt failed, for   *)
(* any number of files and versions.                                       *)
(***************************************************************************)
EXTENDS Server, Blocklists, TLAPS

USE SMTT(60), SMTT(90)   \* a second try, should the machine be busy

----------------------------------------------------------------------------
(* The UDP listener *)

\* max_udp_response_size() never exceeds what the client offers, nor our own limit.
LEMMA SizeAcceptable ==
  ASSUME NEW d \in Datagrams
  PROVE  Acceptable(max_udp_response_size(d.edns), d.edns)
  BY UdpConstants DEF Acceptable, max_udp_response_size, Largest, Smallest

\* UdpInit establishes the invariant.
LEMMA UdpInitInv == UdpInit => UdpInv
<1> SUFFICES ASSUME UdpInit PROVE UdpInv
  OBVIOUS
<1>1. other \in BOOLEAN
  BY Zenon DEF UdpInit
<1> QED
  BY <1>1, UdpConstants
  DEF UdpInit, UdpInv, UdpTypeOK, SocketExact, RespondersExact, RepliesExact, Listening, InHandler

\* A responder that refers to the Socket its query was read from sends, if anything,
\* through the listener's socket.
LEMMA SendExact ==
  ASSUME UdpInv, NEW r,
         r.socket \in Sockets, r.query.kind = "query",
         Acceptable(r.max_size, r.query.edns),
         received_on'[r.query] = r.socket,
         send(r), UNCHANGED <<socket, taken>>
  PROVE  RepliesExact'
  BY UdpConstants
  DEF UdpInv, UdpTypeOK, SocketExact, RepliesExact, send, SendsOn, Listening, socket

\* create() uses a Socket no responder refers to.
LEMMA CreateKeeps ==
  ASSUME UdpInv, NEW s \in Sockets, NEW f \in FdNumbers, create(s, f)
  PROVE  UdpInv'
  BY UdpConstants
  DEF UdpInv, UdpTypeOK, SocketExact, RespondersExact, RepliesExact, create, FreeFds, Listening,
      InHandler, world, reading

\* ~UdpListener() leaves no Socket with a descriptor.
LEMMA DestroyKeeps ==
  ASSUME UdpInv, destroy
  PROVE  UdpInv'
  BY UdpConstants
  DEF UdpInv, UdpTypeOK, SocketExact, RespondersExact, RepliesExact, destroy, Listening, InHandler,
      world, reading

\* on_readable() takes a datagram no responder is held for.
LEMMA ReceiveKeeps ==
  ASSUME UdpInv, NEW d \in Datagrams, Receive(d)
  PROVE  /\ UdpTypeOK' /\ SocketExact'
         /\ \A r \in responders :
              /\ r.socket \in Sockets /\ r.query \in Datagrams \ inbox'
              /\ r.query.kind = "query" /\ received_on'[r.query] = r.socket
              /\ Acceptable(r.max_size, r.query.edns)
         /\ d \notin inbox' /\ socket_ \in Sockets /\ received_on'[d] = socket_
  BY UdpConstants
  DEF UdpInv, UdpTypeOK, SocketExact, RespondersExact, Receive, OneFewer, Listening, InHandler,
      world, socket

\* The handler answers at once, keeps the responder, or lets it go.
LEMMA HandlerKeeps ==
  ASSUME UdpInv, NEW d \in Datagrams,
         Dropped(d) \/ AnsweredAtOnce(d) \/ KeptForLater(d) \/ Ignored(d)
  PROVE  UdpInv'
<1> DEFINE new == NewResponder(d)
<1>1. Receive(d)
  BY DEF Dropped, AnsweredAtOnce, KeptForLater, Ignored
<1>2. UdpTypeOK' /\ SocketExact' /\ received_on'[d] = socket_ /\ socket_ \in Sockets
  BY <1>1, ReceiveKeeps
<1>3. /\ new.socket = socket_ /\ new.query = d
      /\ Acceptable(new.max_size, new.query.edns)
  BY SizeAcceptable DEF NewResponder
<1>4. CASE Dropped(d) \/ Ignored(d)
  BY <1>1, <1>4, ReceiveKeeps DEF UdpInv, RespondersExact, RepliesExact, Dropped, Ignored
<1>5. CASE AnsweredAtOnce(d)
  <2>1. RespondersExact'
    BY <1>1, <1>5, ReceiveKeeps DEF RespondersExact, AnsweredAtOnce
  <2>2. send(new) /\ d.kind = "query" /\ UNCHANGED <<socket, taken>>
    BY <1>5 DEF AnsweredAtOnce, Receive, world
  <2>3. RepliesExact'
    BY <1>2, <1>3, <2>2, SendExact
  <2> QED  BY <1>2, <2>1, <2>3 DEF UdpInv
<1>6. CASE KeptForLater(d)
  <2>1. responders' = responders \cup {new} /\ d.kind = "query" /\ sent' = None
    BY <1>6 DEF KeptForLater
  <2>2. d \notin inbox'
    BY <1>1, ReceiveKeeps
  <2>3. RespondersExact'
    BY <1>1, <1>2, <1>3, <2>1, <2>2, ReceiveKeeps DEF RespondersExact
  <2> QED  BY <1>2, <2>1, <2>3 DEF UdpInv, RepliesExact
<1> QED  BY <1>4, <1>5, <1>6

\* A responder called later sends through its own Socket or not at all.
LEMMA RespondKeeps ==
  ASSUME UdpInv,
         \/ \E r \in responders : Respond(r)
         \/ \E dropped \in SUBSET responders : DropResponders(dropped)
  PROVE  UdpInv'
<1>1. UNCHANGED <<world, socket, reading, inbox, events>> /\ responders' \subseteq responders
  BY DEF Respond, DropResponders
<1>2. UdpTypeOK' /\ SocketExact' /\ RespondersExact'
  BY <1>1
  DEF UdpInv, UdpTypeOK, SocketExact, RespondersExact, Listening, InHandler, world, socket, reading
<1>3. RepliesExact'
  <2>1. CASE \E r \in responders : Respond(r)
    BY <1>1, <2>1, SendExact DEF UdpInv, RespondersExact, Respond, world, reading
  <2>2. CASE \E dropped \in SUBSET responders : DropResponders(dropped)
    BY <2>2 DEF DropResponders, RepliesExact
  <2> QED  BY <2>1, <2>2
<1> QED  BY <1>2, <1>3 DEF UdpInv

\* What the loop and the rest of the process do in between sends nothing.
LEMMA OthersKeep ==
  ASSUME UdpInv,
         \/ Poll \/ OnReadable \/ OtherTurn \/ Return \/ ReceiveError \/ OtherReady
         \/ \E d \in Datagrams : Arrive(d) \/ Lose(d)
         \/ \E f \in FdNumbers : OtherOpens(f) \/ OtherCloses(f)
  PROVE  UdpInv'
<1>1. CASE Poll \/ OnReadable \/ OtherTurn \/ Return \/ ReceiveError \/ OtherReady
  <2>1. other' \in BOOLEAN
    BY <1>1, Zenon
    DEF UdpInv, UdpTypeOK, Poll, OnReadable, OtherTurn, Return, ReceiveError, OtherReady, world
  <2>2. events' \subseteq {"udp", "other"}
    BY <1>1, Zenon
    DEF UdpInv, UdpTypeOK, Poll, OnReadable, OtherTurn, Return, ReceiveError, OtherReady
  <2>3. left' \in 0..kMaxPacketsPerWakeup \cup {None}
    BY <1>1, UdpConstants
    DEF UdpInv, UdpTypeOK, Poll, OnReadable, OtherTurn, Return, ReceiveError, OtherReady, OneFewer,
        InHandler, reading
  <2>4. /\ UNCHANGED <<taken, socket, inbox, received_on, responders>> /\ sent' = None
        /\ InHandler' => Listening'
    BY <1>1, UdpConstants
    DEF UdpInv, UdpTypeOK, SocketExact, Poll, OnReadable, OtherTurn, Return, ReceiveError,
        OtherReady, OneFewer, Listening, InHandler, world, socket, reading
  <2> QED
    BY <2>1, <2>2, <2>3, <2>4
    DEF UdpInv, UdpTypeOK, SocketExact, RespondersExact, RepliesExact, Listening, socket
<1>2. ASSUME NEW d \in Datagrams, Arrive(d) \/ Lose(d) PROVE UdpInv'
  <2>1. /\ sent' = None /\ UNCHANGED <<world, socket, reading, responders, events>>
        /\ inbox' = inbox \ {d} \/ (inbox' = inbox \cup {d} /\ \A r \in responders : r.query # d)
    BY <1>2, Zenon DEF Arrive, Lose
  <2>2. UdpTypeOK' /\ SocketExact' /\ RepliesExact'
    BY <2>1
    DEF UdpInv, UdpTypeOK, SocketExact, RepliesExact, Listening, InHandler, world, socket, reading
  <2>3. RespondersExact'
    BY <2>1 DEF UdpInv, RespondersExact, reading
  <2> QED  BY <2>2, <2>3 DEF UdpInv
<1>3. ASSUME NEW f \in FdNumbers, OtherOpens(f) \/ OtherCloses(f) PROVE UdpInv'
  <2>1. /\ sent' = None /\ UNCHANGED <<socket, reading, inbox, responders, events, other>>
        /\ taken' = taken \ {f} \/ (taken' = taken \cup {f} /\ f \in FreeFds)
    BY <1>3, Zenon DEF OtherOpens, OtherCloses
  <2>2. UdpTypeOK' /\ RepliesExact' /\ RespondersExact'
    BY <2>1
    DEF UdpInv, UdpTypeOK, RespondersExact, RepliesExact, Listening, InHandler, socket, reading
  <2>3. SocketExact'
    BY <2>1 DEF UdpInv, UdpTypeOK, SocketExact, FreeFds, Listening, InHandler, socket, reading
  <2> QED  BY <2>2, <2>3 DEF UdpInv
<1> QED  BY <1>1, <1>2, <1>3

\* Every step of the listener, its owner and its surroundings keeps the invariant.
LEMMA UdpNextInv == UdpInv /\ [UdpNext]_udpVars => UdpInv'
<1> SUFFICES ASSUME UdpInv, [UdpNext]_udpVars PROVE UdpInv'
  OBVIOUS
<1>1. CASE UNCHANGED udpVars
  BY <1>1
  DEF UdpInv, UdpTypeOK, SocketExact, RespondersExact, RepliesExact, Listening, InHandler, udpVars,
      world, socket, reading
<1>2. CASE \E s \in Sockets, f \in FdNumbers : create(s, f)
  BY <1>2, CreateKeeps
<1>3. CASE \E d \in Datagrams : Dropped(d) \/ AnsweredAtOnce(d) \/ KeptForLater(d) \/ Ignored(d)
  BY <1>3, HandlerKeeps
<1>4. CASE \/ \E r \in responders : Respond(r)
           \/ \E dropped \in SUBSET responders : DropResponders(dropped)
  BY <1>4, RespondKeeps
<1> QED  BY <1>1, <1>2, <1>3, <1>4, DestroyKeeps, OthersKeep DEF UdpNext, ListenerStep

\* "Calling it after the transport has shut down is a harmless no-op", and every
\* response leaves through the very Socket its query came in by, within the size its
\* client takes: for any datagrams, sockets, descriptors and limits.
THEOREM RepliesAreExact == UdpSpec => []RepliesExact
<1>1. UdpInv => RepliesExact
  BY DEF UdpInv
<1> QED  BY <1>1, UdpInitInv, UdpNextInv, PTL DEF UdpSpec

----------------------------------------------------------------------------
(* The process *)

\* Steps of the listener and its surroundings that neither read a datagram nor call
\* a responder.
Quiet ==
  \/ \E s \in Sockets, f \in FdNumbers : create(s, f)
  \/ destroy \/ OnReadable \/ OtherTurn \/ Return \/ ReceiveError \/ Poll \/ OtherReady
  \/ \E d \in Datagrams : Arrive(d) \/ Lose(d)

\* ~RecursiveResolver(): the callbacks go, and their responders with them.
Abandons == Resolver!Abandon /\ DropResponders(responders) /\ owed' = {} /\ UNCHANGED reply

\* What a step of the process is to the listener, the resolver and the clients.
LEMMA StepKinds ==
  ASSUME Next
  PROVE  \/ UNCHANGED <<udpVars, service, owed, reply>>
         \/ Quiet /\ UNCHANGED <<service, owed, reply>>
         \/ Abandons
         \/ \E r \in responders : OnResolved(r)
         \/ \E d \in Datagrams : EndsHere(d) \/ resolve(d)
         \/ \E q \in Questions : Resolves(q)
<1>1. CASE Construct
  BY <1>1 DEF Construct, Quiet
<1>2. CASE Fail \/ Statement \/ RunReturns \/ Terminate
  BY <1>2 DEF Fail, Statement, RunReturns, Terminate
<1>3. CASE Destruct
  BY <1>3 DEF Destruct, Quiet, Abandons
<1>4. CASE RunStep
  BY <1>4 DEF RunStep, Quiet
<1>5. CASE Hangup \/ World
  BY <1>5 DEF Hangup, World, Quiet
<1> QED  BY <1>1, <1>2, <1>3, <1>4, <1>5 DEF Next, MainStep

\* Every step of the process is one of the listener's, or leaves it alone.
LEMMA UdpSteps == [Next]_vars => [UdpNext]_udpVars
<1> SUFFICES ASSUME [Next]_vars PROVE [UdpNext]_udpVars
  OBVIOUS
<1>1. CASE UNCHANGED vars
  BY <1>1 DEF vars
<1>2. CASE Quiet
  BY <1>2 DEF Quiet, UdpNext, ListenerStep
<1>3. CASE Abandons
  BY <1>3 DEF Abandons, UdpNext
<1>4. ASSUME NEW r \in responders, OnResolved(r) PROVE UdpNext
  <2>1. {r} \in SUBSET responders
    OBVIOUS
  <2> QED  BY <1>4, <2>1 DEF OnResolved, UdpNext
<1>5. ASSUME NEW d \in Datagrams, EndsHere(d) \/ resolve(d) PROVE UdpNext
  BY <1>5, Zenon DEF EndsHere, resolve, UdpNext, ListenerStep
<1>6. ASSUME NEW q \in Questions, Resolves(q) PROVE UdpNext
  BY <1>6 DEF Resolves, UdpNext, ListenerStep
<1>7. CASE Next
  BY <1>2, <1>3, <1>4, <1>5, <1>6, <1>7, StepKinds
<1> QED  BY <1>1, <1>7

\* main() and the query processor use the UDP listener as module UdpListener allows.
THEOREM ServesUdp == Spec => UdpSpec
<1>1. Init => UdpInit
  BY DEF Init
<1> QED  BY <1>1, UdpSteps, PTL DEF Spec, UdpSpec

\* So what is proved of the listener alone holds of the process: no response leaves
\* through any but the Socket its query came in by, also while main() winds down.
THEOREM ServerRepliesExact == Spec => []RepliesExact
  BY ServesUdp, RepliesAreExact, PTL

----------------------------------------------------------------------------
\* Init establishes the invariant.
LEMMA ServerInitInv == Init => ServerInv
<1> SUFFICES ASSUME Init PROVE ServerInv
  OBVIOUS
<1>1. UdpInv
  BY UdpInitInv DEF Init
<1>2. responders = {} /\ owed = {}
  BY DEF Init, UdpInit
<1> QED  BY <1>1, <1>2 DEF Init, Resolver!Init, ServerInv

\* The callback answers the one responder of its query.
LEMMA OnResolvedKeeps ==
  ASSUME ServerInv, UdpInv', NEW r \in responders, OnResolved(r)
  PROVE  ServerInv'
<1>1. responders' = responders \ {r} /\ owed' = owed \ {r.query}
  BY DEF OnResolved, DropResponders, Respond
<1>2. owed' = {s.query : s \in responders'}
  BY <1>1 DEF ServerInv
<1>3. /\ waiting' = [waiting EXCEPT ![r.query] = None] /\ due' = due \ {r.query}
  BY DEF OnResolved, Resolver!CallBack
<1> QED  BY <1>1, <1>2, <1>3, Zenon DEF ServerInv

\* handle() asks for the query's own question, and holds its only responder.
LEMMA ResolveKeeps ==
  ASSUME ServerInv, UdpInv', NEW d \in Datagrams, resolve(d)
  PROVE  ServerInv'
<1> DEFINE new == NewResponder(d)
<1>1. /\ responders' = responders \cup {new} /\ new.query = d /\ d \in inbox
      /\ owed' = owed \cup {d}
  BY DEF resolve, KeptForLater, Receive, NewResponder
<1>2. \A r \in responders : r.query # d
  BY <1>1 DEF ServerInv, UdpInv, RespondersExact
<1> HIDE DEF new
<1>3. owed' = {s.query : s \in responders'}
  BY <1>1 DEF ServerInv
<1>4. waiting' = [waiting EXCEPT ![d] = d.question] /\ due' = due /\ waiting[d] = None
  BY DEF resolve, Resolver!Ask
<1>5. d.question \in Questions /\ None \notin Questions
  BY ServerConstants
<1>6. d \notin due
  BY <1>4, <1>5 DEF ServerInv
<1> QED  BY <1>1, <1>2, <1>3, <1>4, <1>5, <1>6 DEF ServerInv

\* Every step of the process keeps the invariant.
LEMMA ServerNextInv == ServerInv /\ [Next]_vars => ServerInv'
<1> SUFFICES ASSUME ServerInv, [Next]_vars PROVE ServerInv'
  OBVIOUS
<1>1. UdpInv'
  BY UdpSteps, UdpNextInv DEF ServerInv
<1>2. ASSUME UNCHANGED <<responders, service, owed>> PROVE ServerInv'
  BY <1>1, <1>2 DEF ServerInv, service
<1>3. CASE UNCHANGED vars \/ UNCHANGED <<udpVars, service, owed, reply>>
  BY <1>2, <1>3 DEF vars, udpVars
<1>4. CASE Quiet /\ UNCHANGED <<service, owed, reply>>
  BY <1>2, <1>4
  DEF Quiet, create, destroy, OnReadable, OtherTurn, Return, ReceiveError, Poll, OtherReady, Arrive,
      Lose
<1>5. CASE Abandons
  <2>1. responders' = {} /\ owed' = {} /\ due' = due
    BY <1>5 DEF Abandons, DropResponders, Resolver!Abandon
  <2>2. waiting' = [c \in Datagrams |-> IF c \in due THEN waiting[c] ELSE None]
    BY <1>5 DEF Abandons, Resolver!Abandon
  <2> QED  BY <1>1, <2>1, <2>2 DEF ServerInv
<1>6. ASSUME NEW d \in Datagrams, EndsHere(d) PROVE ServerInv'
  BY <1>2, <1>6, Zenon DEF EndsHere, Dropped, Ignored, AnsweredAtOnce
<1>7. ASSUME NEW q \in Questions, Resolves(q) PROVE ServerInv'
  <2>1. UNCHANGED <<responders, waiting, owed>> /\ due' = {c \in Datagrams : waiting[c] = q}
    BY <1>7 DEF Resolves, OtherTurn, Resolver!Answer
  <2>2. q # None
    BY ServerConstants
  <2> QED  BY <1>1, <2>1, <2>2 DEF ServerInv
<1> QED
  BY <1>1, <1>3, <1>4, <1>5, <1>6, <1>7, StepKinds, OnResolvedKeeps, ResolveKeeps

----------------------------------------------------------------------------
\* Every step is one the resolver's contract allows, or leaves the resolver alone.
LEMMA ServiceSteps == ServerInv /\ [Next]_vars => [Resolver!Next]_<<waiting, due>>
<1> SUFFICES ASSUME ServerInv, [Next]_vars PROVE [Resolver!Next]_<<waiting, due>>
  OBVIOUS
<1>1. CASE \/ UNCHANGED vars \/ UNCHANGED <<udpVars, service, owed, reply>>
           \/ UNCHANGED <<service, owed, reply>>
  BY <1>1 DEF vars, service
<1>2. CASE Abandons
  BY <1>2 DEF Abandons, Resolver!Next
<1>3. ASSUME NEW r \in responders, OnResolved(r) PROVE Resolver!Next
  BY <1>3 DEF OnResolved, Resolver!Next, ServerInv
<1>4. ASSUME NEW d \in Datagrams, EndsHere(d) PROVE UNCHANGED <<waiting, due>>
  BY <1>4, Zenon DEF EndsHere, service
<1>5. ASSUME NEW d \in Datagrams, resolve(d) PROVE Resolver!Next
  BY <1>5, ServerConstants DEF resolve, Resolver!Next
<1>6. ASSUME NEW q \in Questions, Resolves(q) PROVE Resolver!Next
  BY <1>6 DEF Resolves, Resolver!Next
<1> QED  BY <1>1, <1>2, <1>3, <1>4, <1>5, <1>6, StepKinds

\* main() and the query processor use the resolver as its contract allows: a client is
\* never asked for twice at once, and none is called back that did not ask.
THEOREM UsesResolver == Spec => Resolver!Spec
<1>1. Init => Resolver!Init
  BY DEF Init
<1> QED
  BY <1>1, ServerInitInv, ServerNextInv, ServiceSteps, PTL DEF Spec, Resolver!Spec

----------------------------------------------------------------------------
\* A response goes to a query just read or one whose callback is due.
LEMMA AnswersExact == ServerInv /\ [Next]_vars => [AnswerExact]_vars
<1> SUFFICES ASSUME ServerInv, Next PROVE AnswerExact
  BY DEF vars
<1>1. CASE UNCHANGED <<udpVars, service, owed, reply>>
  BY <1>1, Zenon DEF AnswerExact, udpVars
<1>2. CASE Quiet
  BY <1>2, Zenon
  DEF AnswerExact, Quiet, create, destroy, OnReadable, OtherTurn, Return, ReceiveError, Poll,
      OtherReady, Arrive, Lose
<1>3. CASE Abandons
  BY <1>3, Zenon DEF AnswerExact, Abandons, DropResponders
<1>4. ASSUME NEW r \in responders, OnResolved(r) PROVE AnswerExact
  <2>1. CASE DropResponders({r})
    BY <2>1, Zenon DEF AnswerExact, DropResponders
  <2>2. CASE /\ Respond(r)
             /\ \E outcome \in {waiting[r.query], "SERVFAIL"} : reply' = Response(r.query, outcome)
    <3>1. sent' # None => sent'.answers = r.query
      BY <2>2 DEF Respond, send
    <3>2. /\ r.query \in owed /\ r.query \notin inbox /\ inbox' = inbox
          /\ owed' = owed \ {r.query} /\ waiting[r.query] = r.query.question
      BY <1>4, <2>2 DEF OnResolved, Respond, ServerInv, UdpInv, RespondersExact
    <3>3. PICK outcome \in {waiting[r.query], "SERVFAIL"} : reply' = Response(r.query, outcome)
      BY <2>2, Zenon
    <3> QED  BY <3>1, <3>2, <3>3, Zenon DEF AnswerExact, Response
  <2> QED  BY <1>4, <2>1, <2>2, Zenon DEF OnResolved
<1>5. ASSUME NEW d \in Datagrams, EndsHere(d) PROVE AnswerExact
  <2>1. CASE Dropped(d) \/ Ignored(d)
    BY <2>1, Zenon DEF AnswerExact, Dropped, Ignored
  <2>2. CASE AnsweredAtOnce(d) /\ reply' = Response(d, "decided here")
    <3>1. sent' # None => sent'.answers = d
      <4>1. NewResponder(d).query = d
        BY DEF NewResponder
      <4>2. send(NewResponder(d))
        BY <2>2, Zenon DEF AnsweredAtOnce
      <4> QED  BY <4>1, <4>2 DEF send
    <3>2. d \in inbox /\ inbox' = inbox \ {d} /\ owed' = owed
      BY <1>5, <2>2, Zenon DEF AnsweredAtOnce, Receive, EndsHere
    <3>3. d \notin owed
      BY <3>2 DEF ServerInv, UdpInv, RespondersExact
    <3> QED  BY <2>2, <3>1, <3>2, <3>3, Zenon DEF AnswerExact, Response
  <2> QED  BY <1>5, <2>1, <2>2, Zenon DEF EndsHere
<1>6. ASSUME NEW d \in Datagrams, resolve(d) PROVE AnswerExact
  BY <1>6, Zenon DEF AnswerExact, resolve, KeptForLater
<1>7. ASSUME NEW q \in Questions, Resolves(q) PROVE AnswerExact
  BY <1>7, Zenon DEF AnswerExact, Resolves, OtherTurn
<1> QED  BY <1>1, <1>2, <1>3, <1>4, <1>5, <1>6, <1>7, StepKinds

\* Every response is the one its client is owed: the only one to its query, with that
\* client's id and spelling, and the outcome for its question.
THEOREM AnswersAsAsked == Spec => AnsweredAsAsked
  BY ServerInitInv, ServerNextInv, AnswersExact, PTL DEF Spec, AnsweredAsAsked

----------------------------------------------------------------------------
(* The lifetimes of the objects of main() *)

Words ==
  {"loop", "resolver", "processor", "udp", "tcp", "reload_fd", "watch", "SIGTERM", "SIGHUP",
   "run", "default", "ignore", "unwatch", "close"}

\* A function over 1..n is a sequence of length n.
LEMMA FunIsSeq ==
  ASSUME NEW S, NEW n \in Nat, NEW f \in [1..n -> S] PROVE f \in Seq(S) /\ Len(f) = n
  OBVIOUS

\* What a concatenation is made of.
LEMMA ConcatParts ==
  ASSUME NEW S, NEW s \in Seq(S), NEW t \in Seq(S)
  PROVE  /\ s \o t \in Seq(S) /\ Len(s \o t) = Len(s) + Len(t)
         /\ \A i \in 1..Len(s) : (s \o t)[i] = s[i]
         /\ \A i \in 1..Len(t) : (s \o t)[Len(s) + i] = t[i]
  OBVIOUS

\* The elements of a sequence.
LEMMA SeqElements ==
  ASSUME NEW S, NEW s \in Seq(S) PROVE \A i \in 1..Len(s) : s[i] \in S
  OBVIOUS

\* Sequences with the same elements are equal.
LEMMA SeqEqual ==
  ASSUME NEW S, NEW s \in Seq(S), NEW t \in Seq(S), Len(s) = Len(t),
         \A i \in 1..Len(s) : s[i] = t[i]
  PROVE  s = t
  <1>1. s \in [1..Len(s) -> S] /\ t \in [1..Len(s) -> S]
    OBVIOUS
  <1> QED BY <1>1

\* What is left without the first element.
LEMMA TailIs ==
  ASSUME NEW S, NEW s \in Seq(S), NEW t \in Seq(S), Len(s) = Len(t) + 1,
         \A i \in 1..Len(t) : s[i + 1] = t[i]
  PROVE  Tail(s) = t
  <1>0. s # <<>>
    OBVIOUS
  <1>1. Tail(s) \in Seq(S) /\ Len(Tail(s)) = Len(s) - 1
    BY <1>0
  <1>2. \A i \in 1..(Len(s) - 1) : Tail(s)[i] = s[i + 1]
    BY <1>0
  <1>3. PICK u \in Seq(S) : u = Tail(s)
    BY <1>1
  <1>4. Len(u) = Len(t) /\ \A i \in 1..Len(u) : u[i] = t[i]
    BY <1>1, <1>2, <1>3
  <1> QED BY <1>3, <1>4, SeqEqual

\* What is there with one more in front.
LEMMA PushIs ==
  ASSUME NEW S, NEW x \in S, NEW s \in Seq(S), NEW t \in Seq(S), Len(t) = Len(s) + 1,
         t[1] = x, \A i \in 1..Len(s) : t[i + 1] = s[i]
  PROVE  <<x>> \o s = t
  <1>0. <<x>> \in Seq(S) /\ Len(<<x>>) = 1 /\ <<x>>[1] = x
    OBVIOUS
  <1>1. <<x>> \o s \in Seq(S) /\ Len(<<x>> \o s) = Len(s) + 1
    BY <1>0
  <1>2. \A i \in 1..Len(t) : (<<x>> \o s)[i] = t[i]
    BY <1>0
  <1>3. PICK u \in Seq(S) : u = <<x>> \o s
    BY <1>1
  <1>4. Len(u) = Len(t) /\ \A i \in 1..Len(u) : u[i] = t[i]
    BY <1>1, <1>2, <1>3
  <1> QED BY <1>3, <1>4, SeqEqual

\* Destroying the newest object leaves the older ones, and making it adds it in front.
LEMMA OldestIs ==
  /\ Oldest(0) = <<>>
  /\ \A n \in 1..6 : /\ Oldest(n) # <<>> /\ Tail(Oldest(n)) = Oldest(n - 1)
                     /\ <<Oldest(n)[1]>> \o Oldest(n - 1) = Oldest(n)
  <1>1. \A n \in 0..6 : Oldest(n) \in Seq(Words) /\ Len(Oldest(n)) = n
    BY DEF Oldest, Words
  <1>2. \A n \in 1..6 : \A i \in 1..(n - 1) : Oldest(n)[i + 1] = Oldest(n - 1)[i]
    BY DEF Oldest
  <1>3. ASSUME NEW n \in 1..6 PROVE Oldest(n) # <<>>
    <2>1. n \in 0..6 /\ n # 0 /\ Len(<<>>) = 0
      OBVIOUS
    <2> QED BY <1>1, <2>1, Zenon
  <1>4. /\ Oldest(1)[1] = "loop" /\ Oldest(2)[1] = "resolver" /\ Oldest(3)[1] = "processor"
        /\ Oldest(4)[1] = "udp" /\ Oldest(5)[1] = "tcp" /\ Oldest(6)[1] = "reload_fd"
    BY DEF Oldest
  <1>5. ASSUME NEW n \in 1..6 
        PROVE  Tail(Oldest(n)) = Oldest(n - 1) /\ <<Oldest(n)[1]>> \o Oldest(n - 1) = Oldest(n)
    <2> DEFINE s == Oldest(n) t == Oldest(n - 1)
    <2>1. s \in Seq(Words) /\ Len(s) = n
      <3>1. n \in 0..6
        OBVIOUS
      <3> QED BY <3>1, <1>1, Zenon
    <2>2. t \in Seq(Words) /\ Len(t) = n - 1
      <3>1. n - 1 \in 0..6
        OBVIOUS
      <3> QED BY <3>1, <1>1, Zenon
    <2>3. \A i \in 1..(n - 1) : s[i + 1] = t[i]
      BY <1>2
    <2>4. s[1] \in Words
      BY <1>4 DEF Words
    <2> HIDE DEF s, t
    <2>5. Tail(s) = t
      BY <2>1, <2>2, <2>3, TailIs
    <2>6. <<s[1]>> \o t = s
      BY <2>1, <2>2, <2>3, <2>4, PushIs
    <2> QED BY <2>5, <2>6 DEF s, t
  <1>6. Oldest(0) = <<>>
    BY DEF Oldest
  <1> QED BY <1>3, <1>5, <1>6, Zenon

\* The steps of main(), by number.
LEMMA ProgramIs ==
  /\ Program \in Seq(Words) /\ Len(Program) = 14
  /\ Program[1] = "loop" /\ Program[2] = "resolver" /\ Program[3] = "processor"
  /\ Program[4] = "udp" /\ Program[5] = "tcp" /\ Program[6] = "reload_fd"
  /\ Program[7] = "watch" /\ Program[8] = "SIGTERM" /\ Program[9] = "SIGHUP"
  /\ Program[10] = "run" /\ Program[11] = "default" /\ Program[12] = "ignore"
  /\ Program[13] = "unwatch" /\ Program[14] = "close"
  <1>1. Starting \in Seq(Words) /\ Len(Starting) = 10
    BY DEF Starting, Words
  <1>2. Stopping \in Seq(Words) /\ Len(Stopping) = 4
    BY DEF Stopping, Words
  <1>3. /\ Starting \o Stopping \in Seq(Words) /\ Len(Starting \o Stopping) = 14
        /\ \A i \in 1..10 : (Starting \o Stopping)[i] = Starting[i]
        /\ \A i \in 1..4 : (Starting \o Stopping)[10 + i] = Stopping[i]
    <2>1. PICK s \in Seq(Words), t \in Seq(Words) :
             s = Starting /\ t = Stopping /\ Len(s) = 10 /\ Len(t) = 4
      BY <1>1, <1>2, Zenon
    <2>2. /\ s \o t \in Seq(Words) /\ Len(s \o t) = 14
          /\ \A i \in 1..10 : (s \o t)[i] = s[i]
          /\ \A i \in 1..4 : (s \o t)[10 + i] = t[i]
      <3>1. /\ s \o t \in Seq(Words) /\ Len(s \o t) = Len(s) + Len(t)
            /\ \A i \in 1..Len(s) : (s \o t)[i] = s[i]
            /\ \A i \in 1..Len(t) : (s \o t)[Len(s) + i] = t[i]
        BY ConcatParts
      <3>2. 10 + 4 = 14
        OBVIOUS
      <3> QED BY <2>1, <3>1, <3>2, ZenonT(60)
    <2> QED BY <2>1, <2>2, Zenon
  <1>4. /\ Program \in Seq(Words) /\ Len(Program) = 14
        /\ \A i \in 1..10 : Program[i] = Starting[i]
        /\ \A i \in 1..4 : Program[10 + i] = Stopping[i]
    BY <1>3, Zenon DEF Program
  <1>5. /\ Program[1] = "loop" /\ Program[2] = "resolver" /\ Program[3] = "processor"
        /\ Program[4] = "udp" /\ Program[5] = "tcp" /\ Program[6] = "reload_fd"
        /\ Program[7] = "watch" /\ Program[8] = "SIGTERM" /\ Program[9] = "SIGHUP"
        /\ Program[10] = "run"
    BY <1>4 DEF Starting
  <1>6. /\ Program[11] = "default" /\ Program[12] = "ignore"
     /\ Program[13] = "unwatch" /\ Program[14] = "close"
    <2>1. /\ Program[10 + 1] = Stopping[1] /\ Program[10 + 2] = Stopping[2]
          /\ Program[10 + 3] = Stopping[3] /\ Program[10 + 4] = Stopping[4]
      BY <1>4
    <2> QED BY <2>1 DEF Stopping
  <1> QED BY <1>4, <1>5, <1>6, Zenon

\* The first six steps make an object each.
LEMMA NewestIs == \A n \in 1..6 : Oldest(n)[1] = Program[n]
  <1>1. /\ Oldest(1)[1] = "loop" /\ Oldest(2)[1] = "resolver" /\ Oldest(3)[1] = "processor"
        /\ Oldest(4)[1] = "udp" /\ Oldest(5)[1] = "tcp" /\ Oldest(6)[1] = "reload_fd"
    BY DEF Oldest
  <1>2. \A n \in 1..6 : n = 1 \/ n = 2 \/ n = 3 \/ n = 4 \/ n = 5 \/ n = 6
    OBVIOUS
  <1> QED BY <1>1, <1>2, ProgramIs, ZenonT(60)

\* What is left of main() is its next step, and what follows.
LEMMA RestIs ==
  ASSUME NEW k \in 1..14
  PROVE  Rest(k) # <<>> /\ Head(Rest(k)) = Program[k] /\ Tail(Rest(k)) = Rest(k + 1)
  <1>1. ASSUME NEW j \in 1..15 PROVE Rest(j) \in Seq(Words) /\ Len(Rest(j)) = 15 - j
    <2>1. \A i \in 1..14 : Program[i] \in Words
      <3>1. PICK s \in Seq(Words) : s = Program /\ Len(s) = 14
        BY ProgramIs, Zenon
      <3>2. \A i \in 1..14 : s[i] \in Words
        <4>1. \A i \in 1..Len(s) : s[i] \in Words
          BY SeqElements, Zenon
        <4> QED BY <3>1, <4>1, Zenon
      <3> QED BY <3>1, <3>2, Zenon
    <2>2. Rest(j) \in [1..(15 - j) -> Words] /\ 15 - j \in Nat
      BY <2>1 DEF Rest
    <2> QED BY <2>2, FunIsSeq
  <1>2. Rest(k) \in Seq(Words) /\ Len(Rest(k)) = 15 - k
    <2>1. k \in 1..15
      OBVIOUS
    <2> QED BY <1>1, <2>1, Zenon
  <1>3. Rest(k + 1) \in Seq(Words) /\ Len(Rest(k + 1)) = 14 - k
    <2>1. k + 1 \in 1..15 /\ 15 - (k + 1) = 14 - k
      OBVIOUS
    <2> QED BY <1>1, <2>1, Zenon
  <1>4. Rest(k)[1] = Program[k]
    BY DEF Rest
  <1>5. \A i \in 1..(14 - k) : Rest(k)[i + 1] = Rest(k + 1)[i]
    BY DEF Rest
  <1>6. PICK s \in Seq(Words), t \in Seq(Words) : s = Rest(k) /\ t = Rest(k + 1)
    BY <1>2, <1>3
  <1>7. s # <<>> /\ Head(s) = s[1]
    BY <1>6, <1>2
  <1>8. Tail(s) = t
    BY <1>2, <1>3, <1>5, <1>6, TailIs
  <1> QED BY <1>4, <1>6, <1>7, <1>8
Has(os, x) == \E i \in DOMAIN os : os[i] = x

\* Which objects the n oldest are.
LEMMA OldestHas ==
  ASSUME NEW n \in 0..6
  PROVE  /\ Has(Oldest(n), "loop") <=> n >= 1
         /\ Has(Oldest(n), "resolver") <=> n >= 2
         /\ Has(Oldest(n), "processor") <=> n >= 3
         /\ Has(Oldest(n), "udp") <=> n >= 4
         /\ Has(Oldest(n), "tcp") <=> n >= 5
         /\ Has(Oldest(n), "reload_fd") <=> n >= 6
  <1> DEFINE all == <<"reload_fd", "tcp", "udp", "processor", "resolver", "loop">>
  <1>1. \A x : Has(Oldest(n), x) <=> \E i \in 1..n : all[6 - n + i] = x
    BY DEF Has, Oldest
  <1>2. \A x : (\E i \in 1..n : all[6 - n + i] = x) <=> \E j \in (7 - n)..6 : all[j] = x
    <2> HIDE DEF all
    <2>1. ASSUME NEW x, NEW i \in 1..n, all[6 - n + i] = x PROVE \E j \in (7 - n)..6 : all[j] = x
      <3>1. 6 - n + i \in (7 - n)..6
        OBVIOUS
      <3> QED BY <2>1, <3>1, Zenon
    <2>2. ASSUME NEW x, NEW j \in (7 - n)..6, all[j] = x PROVE \E i \in 1..n : all[6 - n + i] = x
      <3>1. j - 6 + n \in 1..n /\ 6 - n + (j - 6 + n) = j
        OBVIOUS
      <3> QED BY <2>2, <3>1, Zenon
    <2> QED BY <2>1, <2>2, Zenon
  <1>3. /\ all[1] = "reload_fd" /\ all[2] = "tcp" /\ all[3] = "udp" /\ all[4] = "processor"
        /\ all[5] = "resolver" /\ all[6] = "loop"
    OBVIOUS
  <1> HIDE DEF all
  <1>4. /\ (\E j \in (7 - n)..6 : all[j] = "loop") <=> n >= 1
        /\ (\E j \in (7 - n)..6 : all[j] = "resolver") <=> n >= 2
        /\ (\E j \in (7 - n)..6 : all[j] = "processor") <=> n >= 3
    BY <1>3
  <1>5. /\ (\E j \in (7 - n)..6 : all[j] = "udp") <=> n >= 4
        /\ (\E j \in (7 - n)..6 : all[j] = "tcp") <=> n >= 5
        /\ (\E j \in (7 - n)..6 : all[j] = "reload_fd") <=> n >= 6
    BY <1>3
  <1> QED BY <1>1, <1>2, <1>4, <1>5, ZenonT(60)

\* Alive, now and after a step.
LEMMA AliveIs == \A x : (Alive(x) <=> Has(objects, x)) /\ (Alive(x)' <=> Has(objects', x))
  BY DEF Alive, Has

\* What main() does at its k-th step.
LEMMA DoingIs ==
  ASSUME NEW k \in 1..14, todo = Rest(k)
  PROVE  /\ \A S : Doing(S) => Program[k] \in S
         /\ \A S : Program[k] \in S => Doing(S)
  BY RestIs, Zenon DEF Doing

\* main() runs the loop only at its tenth step.
LEMMA RunIs ==
  ASSUME MainInv, Doing({"run"}) PROVE todo = Rest(10) /\ AtStep(10)
  <1>1. PICK k \in 1..14 : AtStep(k)
    BY Zenon DEF MainInv, Doing
  <1>2. Program[k] = "run"
    <2>1. todo = Rest(k)
      BY <1>1, Zenon DEF AtStep
    <2>2. Program[k] \in {"run"}
      BY <2>1, DoingIs, Zenon
    <2> QED BY <2>2
  <1>3. k = 10
    BY <1>2, ProgramIs
  <1> QED BY <1>1, <1>3, Zenon DEF AtStep

\* A step that leaves main() where it is.
LEMMA MainStays ==
  ASSUME MainInv, UNCHANGED <<todo, objects, signals>>, Listening' => Listening,
         due' # {} => Killed \/ Doing({"run"}), owed' # {} => Alive("resolver")
  PROVE  MainInv'
  <1>1. todo' = todo /\ objects' = objects /\ on_term' = on_term /\ on_hup' = on_hup
    BY DEF signals
  <1>2. /\ \A k : AtStep(k) => AtStep(k)'
        /\ \A x : Alive(x) => Alive(x)'
        /\ (Killed => Killed') /\ (Killed' => Killed) /\ (Doing({"run"}) => Doing({"run"})')
    BY <1>1, Zenon DEF AtStep, Alive, Killed, Doing
  <1> QED BY <1>1, <1>2, Zenon DEF MainInv

\* In run() main() stays where it is, and all its objects are there.
LEMMA RunStepMain == ASSUME MainInv, RunStep PROVE MainInv'
  <1>1. Doing({"run"}) /\ UNCHANGED <<todo, objects, signals>>
    BY Zenon DEF RunStep, InLoop
  <1>2. objects = Oldest(6)
    <2>1. AtStep(10)
      BY <1>1, RunIs
    <2> QED BY <2>1 DEF AtStep
  <1>3. Alive("resolver")
    BY <1>2, OldestHas, AliveIs
  <1>4. socket_' = socket_
    <2>1. ASSUME NEW r, OnResolved(r) PROVE socket_' = socket_
      BY <2>1, Zenon DEF OnResolved, DropResponders, Respond, socket
    <2>2. ASSUME NEW d, EndsHere(d) \/ resolve(d) PROVE socket_' = socket_
      BY <2>2, Zenon
      DEF EndsHere, resolve, Dropped, Ignored, AnsweredAtOnce, KeptForLater, Receive, socket
    <2>3. ASSUME NEW q, Resolves(q) PROVE socket_' = socket_
      BY <2>3, Zenon DEF Resolves, OtherTurn, socket
    <2>4. ASSUME OnReadable \/ OtherTurn \/ Return \/ ReceiveError \/ Poll PROVE socket_' = socket_
      BY <2>4, Zenon DEF OnReadable, OtherTurn, Return, ReceiveError, Poll, socket
    <2> QED BY <2>1, <2>2, <2>3, <2>4, ZenonT(30) DEF RunStep
  <1>5. Listening' => Listening
    BY <1>4, Zenon DEF Listening
  <1> QED BY <1>1, <1>3, <1>5, MainStays, Zenon

\* Signals and datagrams come in at any moment.
LEMMA WorldMain == ASSUME MainInv, World \/ Hangup PROVE MainInv'
  <1>1. UNCHANGED <<todo, objects, signals>> /\ UNCHANGED <<service, owed>>
    BY Zenon DEF World, Hangup
  <1>2. socket_' = socket_
    BY Zenon DEF World, Hangup, OtherReady, Arrive, Lose, socket
  <1>3. (Listening' => Listening) /\ due' = due /\ owed' = owed
    BY <1>1, <1>2, Zenon DEF Listening, service
  <1>4. (due # {} => Killed \/ Doing({"run"})) /\ (owed # {} => Alive("resolver"))
    BY Zenon DEF MainInv
  <1> QED BY <1>1, <1>3, <1>4, MainStays, Zenon

\* Leaving main(): nothing of what it made changes.
LEMMA MainReturns ==
  ASSUME MainInv, todo' = <<>>, objects' = objects, socket_' = socket_, UNCHANGED <<service, owed>>,
         ~Killed' => on_term' = "default" /\ on_hup' # "write" /\ due = {}
  PROVE  MainInv'
  <1>1. \E n \in 0..6 : objects' = Oldest(n)
    <2>1. CASE \E k \in 1..14 : AtStep(k)
      <3>1. PICK k \in 1..14 : AtStep(k)
        BY <2>1
      <3>2. objects = Oldest(IF k <= 6 THEN k - 1 ELSE 6)
        BY <3>1 DEF AtStep
      <3>3. (IF k <= 6 THEN k - 1 ELSE 6) \in 0..6
        OBVIOUS
      <3> QED BY <3>2, <3>3, Zenon
    <2> QED BY <2>1, Zenon DEF MainInv
  <1>2. /\ due' = due /\ owed' = owed /\ (Listening' => Listening)
        /\ \A x : Alive(x) => Alive(x)'
    BY Zenon DEF service, Listening, Alive
  <1> QED BY <1>1, <1>2, Zenon DEF MainInv

\* After the last step nothing is left.
LEMMA RestEmpty == Rest(14 + 1) = <<>>
  BY DEF Rest

\* The next step of main().
LEMMA StepAhead ==
  ASSUME NEW k \in 1..13, AtStep(k), todo' = Tail(todo),
         objects' = Oldest(IF k + 1 <= 6 THEN k ELSE 6),
         on_term' = IF k + 1 \in 9..11 THEN "stop" ELSE "default",
         on_hup' = IF k + 1 <= 9 THEN "default" ELSE IF k + 1 <= 12 THEN "write" ELSE "ignore"
  PROVE  \E j \in 1..14 : AtStep(j)'
  <1>1. k + 1 \in 1..14 /\ k \in 1..14 /\ k + 1 - 1 = k
    OBVIOUS
  <1>2. todo' = Rest(k + 1)
    <2>1. todo = Rest(k)
      BY Zenon DEF AtStep
    <2> QED BY <1>1, <2>1, RestIs, Zenon
  <1>3. AtStep(k + 1)'
    BY <1>1, <1>2 DEF AtStep
  <1> QED BY <1>1, <1>3

\* Where main() is, by what it does.
LEMMA StepOf ==
  ASSUME MainInv, NEW S, Doing(S)
  PROVE  \E k \in 1..14 : AtStep(k) /\ Program[k] \in S
  <1>1. PICK k \in 1..14 : AtStep(k)
    BY Zenon DEF MainInv, Doing
  <1>2. todo = Rest(k)
    BY <1>1, Zenon DEF AtStep
  <1>3. Program[k] \in S
    BY <1>2, DoingIs, Zenon
  <1> QED BY <1>1, <1>3, Zenon

\* Constructing an object, the listener among them.
LEMMA ConstructMain == ASSUME MainInv, Construct PROVE MainInv'
  <1>1. PICK k \in 1..14 :
           AtStep(k) /\ Program[k] \in {"loop", "resolver", "processor", "udp", "tcp", "reload_fd"}
    <2>1. Doing({"loop", "resolver", "processor", "udp", "tcp", "reload_fd"})
      BY Zenon DEF Construct
    <2> QED BY <2>1, StepOf
  <1>2. k \in 1..6
    BY <1>1, ProgramIs
  <1>3. todo = Rest(k) /\ Head(todo) = Program[k]
    BY <1>1, RestIs, Zenon DEF AtStep
  <1>4. objects = Oldest(k - 1) /\ on_term = "default" /\ on_hup = "default"
    BY <1>1, <1>2 DEF AtStep
  <1>5. /\ objects' = <<Head(todo)>> \o objects /\ todo' = Tail(todo)
        /\ on_term' = on_term /\ on_hup' = on_hup /\ due' = due /\ owed' = owed
    BY Zenon DEF Construct, signals, service
  <1>6. objects' = Oldest(k)
    <2>1. objects' = <<Program[k]>> \o Oldest(k - 1)
      BY <1>3, <1>4, <1>5, Zenon
    <2>2. <<Program[k]>> \o Oldest(k - 1) = Oldest(k)
      BY <1>2, OldestIs, NewestIs, Zenon
    <2> QED BY <2>1, <2>2, Zenon
  <1>7. \E j \in 1..14 : AtStep(j)'
    <2>1. k \in 1..13 /\ (IF k + 1 <= 6 THEN k ELSE 6) = k /\ k + 1 \notin 9..11 /\ k + 1 <= 9
      BY <1>2
    <2>2. objects' = Oldest(IF k + 1 <= 6 THEN k ELSE 6)
      BY <1>6, <2>1, Zenon
    <2>3. on_term' = IF k + 1 \in 9..11 THEN "stop" ELSE "default"
      BY <1>4, <1>5, <2>1
    <2>4. on_hup' = IF k + 1 <= 9 THEN "default" ELSE IF k + 1 <= 12 THEN "write" ELSE "ignore"
      BY <1>4, <1>5, <2>1
    <2> QED BY <1>1, <1>5, <2>1, <2>2, <2>3, <2>4, StepAhead, Zenon
  <1>8. /\ Alive("udp") => Alive("udp")'
        /\ Alive("resolver") => Alive("resolver")'
    BY <1>2, <1>4, <1>6, OldestHas, AliveIs
  <1>9. Listening' => Alive("udp")'
    <2>1. CASE Program[k] = "udp"
      <3>1. k = 4
        BY <1>2, <2>1, ProgramIs
      <3> QED BY <3>1, <1>6, OldestHas, AliveIs
    <2>2. CASE Program[k] # "udp"
      <3>1. UNCHANGED udpVars
        BY <1>3, <2>2 DEF Construct, Doing
      <3>2. Listening' => Listening
        BY <3>1, Zenon DEF udpVars, socket, Listening
      <3> QED BY <3>2, <1>8, Zenon DEF MainInv
    <2> QED BY <2>1, <2>2
  <1>10. due = {}
    <2>1. ~Killed
      BY <1>4 DEF Killed
    <2>2. Program[k] \notin {"run"}
      BY <1>2, ProgramIs
    <2>3. ~Doing({"run"})
      BY <1>3, <2>2, DoingIs, Zenon
    <2> QED BY <2>1, <2>3, Zenon DEF MainInv
  <1> QED BY <1>5, <1>7, <1>8, <1>9, <1>10, Zenon DEF MainInv

\* An early return: no signal handler is set yet.
LEMMA FailMain == ASSUME MainInv, Fail PROVE MainInv'
  <1>1. PICK k \in 1..14 :
           AtStep(k) /\ Program[k] \in {"loop", "udp", "tcp", "reload_fd", "watch"}
    <2>1. Doing({"loop", "udp", "tcp", "reload_fd", "watch"})
      BY Zenon DEF Fail
    <2> QED BY <2>1, StepOf
  <1>2. k <= 7 /\ Program[k] # "run"
    BY <1>1, ProgramIs
  <1>3. on_term = "default" /\ on_hup = "default"
    BY <1>1, <1>2 DEF AtStep
  <1>4. due = {}
    <2>1. ~Killed
      BY <1>3 DEF Killed
    <2>2. todo = Rest(k)
      BY <1>1, Zenon DEF AtStep
    <2>3. Program[k] \notin {"run"}
      BY <1>2
    <2>4. ~Doing({"run"})
      BY <2>2, <2>3, DoingIs, Zenon
    <2> QED BY <2>1, <2>4, Zenon DEF MainInv
  <1>5. /\ todo' = <<>> /\ objects' = objects /\ socket_' = socket_ /\ UNCHANGED <<service, owed>>
        /\ on_term' = on_term /\ on_hup' = on_hup
    BY Zenon DEF Fail, signals, udpVars, socket
  <1>6. on_term' = "default" /\ on_hup' # "write" /\ due = {}
    BY <1>3, <1>4, <1>5
  <1> QED BY <1>5, <1>6, MainReturns, Zenon

\* add_fd(), sigaction(), remove_fd(): main() goes on; close() is its last step.
LEMMA StatementMain == ASSUME MainInv, Statement PROVE MainInv'
  <1>1. PICK k \in 1..14 :
           /\ AtStep(k)
           /\ Program[k] \in {"watch", "SIGTERM", "SIGHUP", "default", "ignore", "unwatch", "close"}
    <2>1. Doing({"watch", "SIGTERM", "SIGHUP", "default", "ignore", "unwatch", "close"})
      BY Zenon DEF Statement
    <2> QED BY <2>1, StepOf
  <1>2. k \in 7..14 /\ k # 10
    BY <1>1, ProgramIs
  <1>3. todo = Rest(k) /\ Tail(todo) = Rest(k + 1)
    BY <1>1, RestIs, Zenon DEF AtStep
  <1>4. /\ objects = Oldest(6)
        /\ on_term = IF k \in 9..11 THEN "stop" ELSE "default"
        /\ on_hup = IF k <= 9 THEN "default" ELSE IF k <= 12 THEN "write" ELSE "ignore"
    BY <1>1, <1>2 DEF AtStep
  <1>5. /\ Doing({"SIGTERM"}) <=> k = 8
        /\ Doing({"default"}) <=> k = 11
        /\ Doing({"SIGHUP"}) <=> k = 9
        /\ Doing({"ignore"}) <=> k = 12
        /\ Doing({"close"}) <=> k = 14
        /\ ~Doing({"run"})
    <2>1. \A S : (Doing(S) => Program[k] \in S) /\ (Program[k] \in S => Doing(S))
      BY <1>3, DoingIs, Zenon
    <2>2. \A x : (Doing({x}) => Program[k] = x) /\ (Program[k] = x => Doing({x}))
      BY <2>1, Zenon
    <2>3. /\ Program[k] = "SIGTERM" <=> k = 8
          /\ Program[k] = "default" <=> k = 11
          /\ Program[k] = "SIGHUP" <=> k = 9
          /\ Program[k] = "ignore" <=> k = 12
          /\ Program[k] = "close" <=> k = 14
          /\ Program[k] # "run"
      BY <1>2, ProgramIs
    <2> QED BY <2>2, <2>3, Zenon
  <1>6. /\ todo' = Tail(todo) /\ socket_' = socket_ /\ due' = due /\ owed' = owed
        /\ objects' = IF Doing({"close"}) THEN Tail(objects) ELSE objects
    BY Zenon DEF Statement, udpVars, socket, service
  <1>7. /\ k = 8 => on_term' = "stop"
        /\ k = 11 => on_term' = "default"
        /\ k \notin {8, 11} => on_term' = on_term
    BY <1>5 DEF Statement
  <1>8. /\ k = 9 => on_hup' = "write"
        /\ k = 12 => on_hup' = "ignore"
        /\ k \notin {9, 12} => on_hup' = on_hup
    BY <1>5 DEF Statement
  <1>9. due = {}
    <2>1. ~Killed
      BY <1>4 DEF Killed
    <2> QED BY <1>5, <2>1, Zenon DEF MainInv
  <1>10. (Listening' => Listening) /\ (Listening => Alive("udp")) /\ (owed # {} => Alive("resolver"))
    BY <1>6, Zenon DEF Listening, MainInv
  <1>11. CASE k = 14
    <2>1. objects' = Oldest(5)
      <3>1. 6 \in 1..6 /\ 6 - 1 = 5
        OBVIOUS
      <3>2. Tail(Oldest(6)) = Oldest(5)
        BY <3>1, OldestIs, Zenon
      <3> QED BY <1>4, <1>5, <1>6, <1>11, <3>2, Zenon
    <2>2. todo' = <<>>
      BY <1>3, <1>6, <1>11, RestEmpty
    <2>3. on_term' = "default" /\ on_hup' # "write"
      BY <1>4, <1>7, <1>8, <1>11
    <2>4. Alive("udp")' /\ Alive("resolver")'
      BY <2>1, OldestHas, AliveIs
    <2>5. \E n \in 0..6 : objects' = Oldest(n)
      BY <2>1
    <2> QED BY <1>6, <1>9, <2>2, <2>3, <2>4, <2>5, Zenon DEF MainInv
  <1>12. CASE k # 14
    <2>1. k \in 1..13 /\ (IF k + 1 <= 6 THEN k ELSE 6) = 6
      BY <1>2, <1>12
    <2>2. objects' = Oldest(IF k + 1 <= 6 THEN k ELSE 6) /\ objects' = objects
      BY <1>4, <1>5, <1>6, <1>12, <2>1, Zenon
    <2>3. on_term' = IF k + 1 \in 9..11 THEN "stop" ELSE "default"
      BY <1>2, <1>4, <1>7, <1>12
    <2>4. on_hup' = IF k + 1 <= 9 THEN "default" ELSE IF k + 1 <= 12 THEN "write" ELSE "ignore"
      BY <1>2, <1>4, <1>8, <1>12
    <2>5. \E j \in 1..14 : AtStep(j)'
      BY <1>1, <1>6, <2>1, <2>2, <2>3, <2>4, StepAhead, Zenon
    <2>6. \A x : Alive(x) => Alive(x)'
      BY <2>2, Zenon DEF Alive
    <2> QED BY <1>6, <1>9, <1>10, <2>5, <2>6, Zenon DEF MainInv
  <1> QED BY <1>11, <1>12

\* run() returns with no callback due.
LEMMA RunReturnsMain == ASSUME MainInv, RunReturns PROVE MainInv'
  <1>1. Doing({"run"}) /\ due = {}
    BY Zenon DEF RunReturns
  <1>2. AtStep(10)
    BY <1>1, RunIs
  <1>3. /\ todo' = Tail(todo) /\ objects' = objects /\ on_term' = on_term /\ on_hup' = on_hup
        /\ socket_' = socket_ /\ due' = due /\ owed' = owed
    BY Zenon DEF RunReturns, signals, udpVars, socket, service
  <1>4. \E j \in 1..14 : AtStep(j)'
    <2>1. objects = Oldest(6) /\ on_term = "stop" /\ on_hup = "write"
      BY <1>2 DEF AtStep
    <2>2. /\ objects' = Oldest(IF 10 + 1 <= 6 THEN 10 ELSE 6)
          /\ on_term' = IF 10 + 1 \in 9..11 THEN "stop" ELSE "default"
          /\ on_hup' = IF 10 + 1 <= 9 THEN "default" ELSE IF 10 + 1 <= 12 THEN "write" ELSE "ignore"
      BY <1>3, <2>1
    <2>3. 10 \in 1..13
      OBVIOUS
    <2> QED BY <1>2, <1>3, <2>2, <2>3, StepAhead, Zenon
  <1>5. (Listening' => Listening) /\ \A x : Alive(x) => Alive(x)'
    BY <1>3, Zenon DEF Listening, Alive
  <1> QED BY <1>1, <1>3, <1>4, <1>5, Zenon DEF MainInv

\* Destruction, newest first: with the listener its socket goes, with the resolver what
\* it was asked.
LEMMA DestructMain == ASSUME MainInv, Destruct PROVE MainInv'
  <1>1. /\ todo = <<>> /\ objects # <<>> /\ ~Killed
        /\ objects' = Tail(objects) /\ todo' = todo /\ on_term' = on_term /\ on_hup' = on_hup
    BY Zenon DEF Destruct, signals
  <1>2. \A k \in 1..14 : ~AtStep(k)
    BY <1>1, RestIs, Zenon DEF AtStep
  <1>3. PICK n \in 0..6 : objects = Oldest(n)
    BY <1>2, Zenon DEF MainInv
  <1>4. n \in 1..6
    <2>1. n # 0
      BY <1>1, <1>3, OldestIs, Zenon
    <2> QED BY <2>1
  <1>5. objects' = Oldest(n - 1) /\ n - 1 \in 0..6
    <2>1. objects' = Oldest(n - 1)
      BY <1>1, <1>3, <1>4, OldestIs, Zenon
    <2> QED BY <1>4, <2>1
  <1>6. Head(objects) = Program[n]
    <2>1. Head(Oldest(n)) = Oldest(n)[1]
      BY <1>4 DEF Oldest
    <2> QED BY <1>3, <1>4, <2>1, NewestIs, Zenon
  <1>7. due = {} /\ on_term = "default" /\ on_hup # "write"
    <2>1. ~Doing({"run"})
      BY <1>1, Zenon DEF Doing
    <2> QED BY <1>1, <1>2, <2>1, Zenon DEF MainInv
  <1>8. CASE n = 4
    <2>1. Head(objects) = "udp"
      BY <1>6, <1>8, ProgramIs
    <2>2. destroy /\ UNCHANGED <<service, owed>>
      BY <2>1 DEF Destruct
    <2>3. ~Listening' /\ due' = due /\ owed' = owed
      BY <2>2, Zenon DEF destroy, Listening, service
    <2>4. Alive("resolver")'
      BY <1>5, <1>8, OldestHas, AliveIs
    <2> QED BY <1>1, <1>5, <1>7, <2>3, <2>4, Zenon DEF MainInv
  <1>9. CASE n = 2
    <2>1. Head(objects) = "resolver"
      BY <1>6, <1>9, ProgramIs
    <2>2. Resolver!Abandon /\ DropResponders(responders) /\ owed' = {}
      BY <2>1 DEF Destruct
    <2>3. due' = due /\ socket_' = socket_
      BY <2>2, Zenon DEF Resolver!Abandon, DropResponders, socket
    <2>4. ~Alive("udp")
      BY <1>3, <1>9, OldestHas, AliveIs
    <2>5. ~Listening'
      BY <2>3, <2>4, Zenon DEF Listening, MainInv
    <2> QED BY <1>1, <1>5, <1>7, <2>2, <2>3, <2>5, Zenon DEF MainInv
  <1>10. CASE n # 4 /\ n # 2
    <2>1. Head(objects) # "udp" /\ Head(objects) # "resolver"
      BY <1>4, <1>6, <1>10, ProgramIs
    <2>2. UNCHANGED <<udpVars, service, owed>>
      BY <2>1 DEF Destruct
    <2>3. socket_' = socket_ /\ due' = due /\ owed' = owed
      BY <2>2, Zenon DEF udpVars, socket, service
    <2>4. (Alive("udp") => Alive("udp")') /\ (Alive("resolver") => Alive("resolver")')
      BY <1>3, <1>4, <1>5, <1>10, OldestHas, AliveIs
    <2>5. Listening' => Listening
      BY <2>3, Zenon DEF Listening
    <2> QED BY <1>1, <1>5, <1>7, <2>3, <2>4, <2>5, Zenon DEF MainInv
  <1> QED BY <1>8, <1>9, <1>10

\* A signal asks the loop to stop, or ends the process.
LEMMA TerminateMain == ASSUME MainInv, Terminate PROVE MainInv'
  <1>1. objects' = objects /\ socket_' = socket_ /\ due' = due /\ owed' = owed /\ on_hup' = on_hup
        /\ UNCHANGED <<service, owed>>
    BY Zenon DEF Terminate, udpVars, socket, service
  <1>2. CASE on_term' = on_term /\ todo' = todo
    <2>1. Listening' => Listening
      BY <1>1, Zenon DEF Listening
    <2>2. (due # {} => Killed \/ Doing({"run"})) /\ (owed # {} => Alive("resolver"))
      BY Zenon DEF MainInv
    <2>3. UNCHANGED <<todo, objects, signals>>
      BY <1>1, <1>2, Zenon DEF signals
    <2> QED BY <1>1, <2>1, <2>2, <2>3, MainStays, Zenon
  <1>3. CASE on_term' = "killed" /\ todo' = <<>>
    <2>1. Killed'
      BY <1>3 DEF Killed
    <2>2. objects' = objects /\ socket_' = socket_ /\ UNCHANGED <<service, owed>> /\ todo' = <<>>
      BY <1>1, <1>3, Zenon
    <2> QED BY <2>1, <2>2, MainReturns, Zenon
  <1> QED BY <1>2, <1>3, Zenon DEF Terminate

\* Every step of the process keeps it.
LEMMA MainNextInv == MainInv /\ [Next]_vars => MainInv'
  <1> SUFFICES ASSUME MainInv, [Next]_vars PROVE MainInv'
    OBVIOUS
  <1>1. CASE UNCHANGED vars
    <2>1. UNCHANGED <<todo, objects, signals>> /\ socket_' = socket_ /\ due' = due /\ owed' = owed
      BY <1>1, Zenon DEF vars, udpVars, socket, service
    <2>2. (due # {} => Killed \/ Doing({"run"})) /\ (owed # {} => Alive("resolver"))
      BY Zenon DEF MainInv
    <2>3. Listening' => Listening
      BY <2>1, Zenon DEF Listening
    <2> QED BY <2>1, <2>2, <2>3, MainStays, Zenon
  <1> QED
    BY <1>1, ConstructMain, FailMain, StatementMain, RunReturnsMain, DestructMain, RunStepMain,
       TerminateMain, WorldMain, Zenon DEF Next, MainStep

\* main() starts at its first step.
LEMMA MainInitInv == Init => MainInv
  <1> SUFFICES ASSUME Init PROVE MainInv
    OBVIOUS
  <1>1. /\ todo = Program /\ objects = <<>> /\ on_term = "default" /\ on_hup = "default"
        /\ ~Listening /\ due = {} /\ owed = {}
    BY Zenon DEF Init, Program, UdpInit, Listening, Resolver!Init
  <1>2. Program = Rest(1)
    <2>1. PICK s \in Seq(Words) : s = Program /\ Len(s) = 14
      BY ProgramIs, Zenon
    <2>2. s = [i \in 1..14 |-> s[i]]
      BY <2>1
    <2>3. Rest(1) = [i \in 1..14 |-> s[i]]
      BY <2>1 DEF Rest
    <2> QED BY <2>1, <2>2, <2>3, Zenon
  <1>3. AtStep(1)
    <2>1. objects = Oldest(IF 1 <= 6 THEN 1 - 1 ELSE 6)
      BY <1>1, OldestIs
    <2> QED BY <1>1, <1>2, <2>1 DEF AtStep
  <1>4. 1 \in 1..14
    OBVIOUS
  <1> QED BY <1>1, <1>3, <1>4, Zenon DEF MainInv

\* What the invariant says of the objects in use.
LEMMA MainNested == MainInv => LifetimesNested
  <1> SUFFICES ASSUME MainInv, ~Killed PROVE LifetimesNested
    BY Zenon DEF LifetimesNested
  <1>1. PICK n \in 0..6 : objects = Oldest(n)
    <2>1. ASSUME NEW k \in 1..14, AtStep(k) PROVE \E n \in 0..6 : objects = Oldest(n)
      <3>1. objects = Oldest(IF k <= 6 THEN k - 1 ELSE 6) /\ (IF k <= 6 THEN k - 1 ELSE 6) \in 0..6
        BY <2>1 DEF AtStep
      <3> QED BY <3>1, Zenon
    <2> QED BY <2>1, Zenon DEF MainInv
  <1>3. Alive("udp") => Alive("processor") /\ Alive("loop")
    BY <1>1, OldestHas, AliveIs
  <1>4. Alive("resolver") => Alive("loop")
    BY <1>1, OldestHas, AliveIs
  <1>5. ASSUME Doing({"run"}) PROVE objects = Oldest(6)
    BY <1>5, RunIs DEF AtStep
  <1>6. ASSUME on_term = "stop" \/ on_hup = "write" PROVE objects = Oldest(6)
    <2>1. PICK k \in 1..14 : AtStep(k)
      BY <1>6 DEF MainInv
    <2> QED BY <1>6, <2>1 DEF AtStep
  <1>7. ASSUME objects = Oldest(6)
        PROVE  /\ Alive("loop") /\ Alive("resolver") /\ Alive("processor") /\ Alive("udp")
               /\ Alive("tcp") /\ Alive("reload_fd")
    BY <1>7, OldestHas, AliveIs
  <1>8. /\ Listening => Alive("udp")
        /\ due # {} => Doing({"run"})
        /\ owed # {} => Alive("resolver")
    BY Zenon DEF MainInv
  <1> QED BY <1>3, <1>4, <1>5, <1>6, <1>7, <1>8, Zenon DEF LifetimesNested

\* "destroyed in reverse: listener first, loop last": from the first statement of main()
\* to the last destructor, with early returns anywhere and signals at any moment, no
\* callback and no signal handler meets an object that is gone or not there yet.
THEOREM ObjectsOutliveUse == Spec => []LifetimesNested
  BY MainInitInv, MainNextInv, MainNested, PTL DEF Spec

----------------------------------------------------------------------------
(* The lists *)

\* The files are numbered from 1, and their versions from 0.
LEMMA FileNumbers ==
  /\ 1 \in Files /\ \A f \in Files : f \in Nat /\ (f < NumFiles => f + 1 \in Files)
  BY ListsConstants DEF Files

\* Versions are numbers, too.
LEMMA VersionNumbers ==
  /\ \A v \in Versions : v \in Nat
  /\ 0 \in Versions /\ 1 \in Versions /\ MaxVersion \in Nat
  BY ListsConstants DEF Versions

\* A file gets another version.
LEMMA VersionSet ==
  ASSUME NEW s \in [Files -> Versions], NEW f \in Files, NEW v \in Versions
  PROVE  [s EXCEPT ![f] = v] \in [Files -> Versions]
  BY Zenon

\* Where the worker may be.
Workers ==
  [at : {"none", "stamp", "read", "done"}, i : Files,
   stamps : [Files -> Versions], read : [Files -> Versions]]

\* The parts of ListsInv that speak of the lists and the worker only.
Rounds ==
  /\ {trie_, stamps_, worker.stamps, worker.read} \subseteq [Files -> Versions]
  /\ reloading_ = (worker.at # "none" \/ finished_ # {})
  /\ worker.at = "none" \/ finished_ = {}
  /\ reloading_ => collecting
  /\ worker \in Workers
  /\ finished_ \subseteq [ok : BOOLEAN, stamps : [Files -> Versions], read : [Files -> Versions]]

\* What the worker has in hand: stamps and content of files as they are, of those
\* that did not change since they were stamped, and nothing of a file not there.
InHand ==
  /\ \A f \in Files \ altering :
       /\ AlreadyStamped(f) => worker.stamps[f] = files[f]
       /\ AlreadyRead(f) => worker.read[f] = files[f]
  /\ \A f \in Files : AlreadyRead(f) => worker.read[f] # 0

\* What an outcome that waits to be collected holds.
Fits(a) ==
  /\ \A f \in Files \ altering : a.stamps[f] = files[f] /\ (a.ok => a.read[f] = files[f])
  /\ a.ok => \A f \in Files : a.read[f] # 0

\* The lists in use: whole, and up to date but for files known to have changed.
Current ==
  /\ \A f \in Files : trie_[f] # 0
  /\ \A f \in Files \ altered : stamps_[f] = files[f] /\ (loaded => trie_[f] = files[f])

\* The parts that speak of the files.
Copies ==
  /\ files \in [Files -> Versions]
  /\ InHand
  /\ \A a \in finished_ : Fits(a)
  /\ Current

\* ListsInv is the two together.
LEMMA ListsParts == ListsInv <=> Rounds /\ Copies
  <1>1. ASSUME Rounds, Copies PROVE ListsInv
    <2>1. {files, trie_, stamps_, worker.stamps, worker.read} \subseteq [Files -> Versions]
      BY <1>1 DEF Rounds, Copies
    <2>2. NoChangeMissed
      BY <1>1, <2>1, Zenon DEF NoChangeMissed, Rounds, Copies, Current
    <2> QED BY <1>1, <2>2, Zenon DEF ListsInv, Rounds, Copies, InHand, Fits, Workers
  <1>2. ASSUME ListsInv PROVE Rounds /\ Copies
    <2>1. /\ {trie_, stamps_, worker.stamps, worker.read} \subseteq [Files -> Versions]
          /\ files \in [Files -> Versions]
      BY <1>2 DEF ListsInv, NoChangeMissed
    <2> QED BY <1>2, <2>1, Zenon
            DEF ListsInv, NoChangeMissed, Rounds, Copies, InHand, Fits, Current, Workers
  <1> QED BY <1>1, <1>2, Zenon

\* Without a worker there is nothing in hand.
LEMMA EmptyHanded == ASSUME worker.at = "none" PROVE InHand
  BY DEF InHand, AlreadyStamped, AlreadyRead

\* A file changes, while the worker reads or not: it is one of those known to have
\* changed, and the others are as they were.
LEMMA ChangeInv ==
  ASSUME Rounds, Copies, NEW f \in Files, NEW version \in Versions, Change(f, version)
  PROVE  Rounds' /\ Copies'
  <1>1. /\ files' = [files EXCEPT ![f] = version] /\ altered' = altered \cup {f}
        /\ altering' = (IF reloading_ THEN altering \cup {f} ELSE {})
        /\ UNCHANGED <<trie_, stamps_, reloading_, worker, finished_, collecting, loaded>>
    BY Zenon DEF Change
  <1>2. Rounds'
    BY <1>1, Zenon DEF Rounds
  <1>3. files \in [Files -> Versions]
    BY Zenon DEF Copies
  <1>4. files' \in [Files -> Versions]
    BY <1>1, <1>3, VersionSet, Zenon
  <1>5. \A g \in Files : g # f => files'[g] = files[g]
    BY <1>1, <1>3
  <1>6. Current'
    <2>1. \A g \in Files \ altered' : g \in Files \ altered /\ files'[g] = files[g]
      BY <1>1, <1>5
    <2> QED BY <1>1, <2>1, Zenon DEF Copies, Current
  <1>7. CASE reloading_
    <2>1. \A g \in Files \ altering' : g \in Files \ altering /\ files'[g] = files[g]
      BY <1>1, <1>5, <1>7
    <2>2. InHand'
      BY <1>1, <2>1, Zenon DEF Copies, InHand, AlreadyStamped, AlreadyRead
    <2>3. ASSUME NEW a \in finished_' PROVE Fits(a)'
      <3>1. Fits(a)
        BY <1>1, Zenon DEF Copies
      <3> QED BY <2>1, <3>1, Zenon DEF Fits
    <2> QED BY <1>2, <1>4, <1>6, <2>2, <2>3, Zenon DEF Copies
  <1>8. CASE ~reloading_
    <2>1. worker.at = "none" /\ finished_ = {}
      BY <1>8, Zenon DEF Rounds
    <2>2. InHand'
      BY <1>1, <2>1 DEF InHand, AlreadyStamped, AlreadyRead
    <2>3. \A a \in finished_' : Fits(a)'
      BY <1>1, <2>1
    <2> QED BY <1>2, <1>4, <1>6, <2>2, <2>3, Zenon DEF Copies
  <1> QED BY <1>7, <1>8

\* The worker's steps touch neither the files nor the lists in use.
LEMMA CopiesKept ==
  ASSUME Copies, UNCHANGED <<files, trie_, stamps_, loaded, altered>>,
         InHand', \A a \in finished_' : Fits(a)'
  PROVE  Copies'
  <1>1. Current' /\ files' \in [Files -> Versions]
    BY Zenon DEF Copies, Current
  <1> QED BY <1>1, Zenon DEF Copies

\* Nothing these speak of changes.
LEMMA ListsStutter ==
  ASSUME Rounds, Copies, UNCHANGED <<files, lists, worker, finished_, collecting, altering>>
  PROVE  Rounds' /\ Copies'
  <1>1. Rounds'
    BY Zenon DEF Rounds, lists
  <1>2. Copies'
    BY Zenon DEF Copies, lists, Current, InHand, Fits, AlreadyStamped, AlreadyRead
  <1> QED BY <1>1, <1>2, Zenon

\* Another phase in the worker's state.
LEMMA PhaseSet ==
  ASSUME NEW a, NEW b, NEW s, NEW r, NEW x, NEW w, w = [at |-> a, i |-> b, stamps |-> s, read |-> r]
  PROVE  [w EXCEPT !.at = x] = [at |-> x, i |-> b, stamps |-> s, read |-> r]
  OBVIOUS

\* Another file in the worker's state.
LEMMA FileSet ==
  ASSUME NEW a, NEW b, NEW s, NEW r, NEW y, NEW w, w = [at |-> a, i |-> b, stamps |-> s, read |-> r]
  PROVE  [w EXCEPT !.i = y] = [at |-> a, i |-> y, stamps |-> s, read |-> r]
  OBVIOUS

\* Both at once are one after the other.
LEMMA PlaceSet ==
  ASSUME NEW w, NEW x, NEW y PROVE [w EXCEPT !.at = x, !.i = y] = [[w EXCEPT !.at = x] EXCEPT !.i = y]
  OBVIOUS

\* Where the worker goes next.
LEMMA MovedFields ==
  ASSUME NEW w \in Workers
  PROVE  Moved(w) = [at |-> After(w.at, w.i).at, i |-> After(w.at, w.i).i,
                     stamps |-> w.stamps, read |-> w.read]
  <1> DEFINE x == After(w.at, w.i).at y == After(w.at, w.i).i v == [w EXCEPT !.at = x]
  <1>1. w = [at |-> w.at, i |-> w.i, stamps |-> w.stamps, read |-> w.read]
    BY DEF Workers
  <1>2. Moved(w) = [v EXCEPT !.i = y]
    BY PlaceSet DEF Moved
  <1> HIDE DEF x, y
  <1>3. v = [at |-> x, i |-> w.i, stamps |-> w.stamps, read |-> w.read]
    BY <1>1, PhaseSet
  <1> HIDE DEF v
  <1>4. [v EXCEPT !.i = y] = [at |-> x, i |-> y, stamps |-> w.stamps, read |-> w.read]
    BY <1>3, FileSet
  <1> QED BY <1>2, <1>4 DEF x, y

\* The worker goes on to the next file, to the next phase or to the end.
LEMMA MovedIs ==
  ASSUME NEW w \in Workers, w.at \in {"stamp", "read"}
  PROVE  /\ Moved(w) \in Workers /\ Moved(w).stamps = w.stamps /\ Moved(w).read = w.read
         /\ w.at = "stamp" => \/ w.i < NumFiles /\ Moved(w).at = "stamp" /\ Moved(w).i = w.i + 1
                              \/ w.i = NumFiles /\ Moved(w).at = "read" /\ Moved(w).i = 1
         /\ w.at = "read" => \/ w.i < NumFiles /\ Moved(w).at = "read" /\ Moved(w).i = w.i + 1
                             \/ w.i = NumFiles /\ Moved(w).at = "done"
  <1>1. /\ w.i \in Files /\ w.stamps \in [Files -> Versions] /\ w.read \in [Files -> Versions]
        /\ w.i \in 1..NumFiles /\ w = [at |-> w.at, i |-> w.i, stamps |-> w.stamps, read |-> w.read]
    BY DEF Workers, Files
  <1>2. Phases[1] = "stamp" /\ Phases[2] = "read"
    BY DEF Phases
  <1>3. CASE w.i < NumFiles
    <2>1. After(w.at, w.i).at = w.at /\ After(w.at, w.i).i = w.i + 1 /\ w.i + 1 \in Files
      BY <1>1, <1>3, FileNumbers DEF After
    <2>2. Moved(w) = [at |-> w.at, i |-> w.i + 1, stamps |-> w.stamps, read |-> w.read]
      BY <2>1, MovedFields, Zenon
    <2> QED BY <1>1, <1>3, <2>1, <2>2 DEF Workers
  <1>4. CASE ~(w.i < NumFiles)
    <2>1. w.i = NumFiles
      BY <1>1, <1>4, ListsConstants
    <2>2. After(w.at, w.i).at = (IF w.at = "stamp" THEN "read" ELSE "done") /\ After(w.at, w.i).i = 1
      BY <1>2, <1>4 DEF After
    <2>3. Moved(w) = [at |-> (IF w.at = "stamp" THEN "read" ELSE "done"), i |-> 1,
                      stamps |-> w.stamps, read |-> w.read]
      BY <2>2, MovedFields, Zenon
    <2> QED BY <1>1, <2>1, <2>3, FileNumbers DEF Workers
  <1> QED BY <1>3, <1>4

\* While there is a worker, a reload is under way and nothing waits to be collected.
LEMMA WorkerAlone ==
  ASSUME Rounds, worker.at # "none"
  PROVE  reloading_ /\ finished_ = {} /\ collecting
  BY Zenon DEF Rounds

\* No worker: nothing stamped, nothing read.
LEMMA NoWorkerFacts ==
  /\ NoWorker \in Workers /\ NoWorker.at = "none"
  /\ NoWorker.stamps = Unread /\ NoWorker.read = Unread /\ Unread \in [Files -> Versions]
  BY FileNumbers, VersionNumbers DEF NoWorker, Workers, Unread

\* The worker has moved on: a reload is still under way.
LEMMA StillReloading ==
  ASSUME Rounds, worker.at # "none", worker' \in Workers, worker'.at # "none",
         UNCHANGED <<lists, finished_, collecting>>
  PROVE  Rounds' /\ finished_' = {}
  <1>1. reloading_ /\ finished_ = {} /\ collecting
    BY WorkerAlone, Zenon
  <1>2. UNCHANGED <<trie_, stamps_, reloading_>>
    BY Zenon DEF lists
  <1>3. worker'.stamps \in [Files -> Versions] /\ worker'.read \in [Files -> Versions]
    BY DEF Workers
  <1>4. {trie_, stamps_} \subseteq [Files -> Versions]
    BY DEF Rounds
  <1>5. {trie_', stamps_', worker'.stamps, worker'.read} \subseteq [Files -> Versions]
    BY <1>2, <1>3, <1>4
  <1>6. reloading_' = (worker'.at # "none" \/ finished_' # {}) /\ finished_' = {} /\ collecting'
    BY <1>1, <1>2, Zenon DEF Rounds
  <1>7. finished_' \subseteq [ok : BOOLEAN, stamps : [Files -> Versions], read : [Files -> Versions]]
    BY <1>6
  <1> QED BY <1>5, <1>6, <1>7, Zenon DEF Rounds

\* The worker takes the stamp of a file as it is now.
LEMMA StampInv ==
  ASSUME Rounds, Copies, stamp_files PROVE Rounds' /\ Copies'
  <1> DEFINE w == [worker EXCEPT !.stamps[worker.i] = files[worker.i]]
  <1>1. /\ worker.at = "stamp" /\ worker' = Moved(w) /\ altering' = altering \ {worker.i}
        /\ UNCHANGED <<outside, sighup, lists, finished_, collecting>>
    BY Zenon DEF stamp_files
  <1>2. worker \in Workers /\ files \in [Files -> Versions]
    BY Zenon DEF Rounds, Copies
  <1>3. /\ worker.i \in Files /\ worker.stamps \in [Files -> Versions]
        /\ worker.read \in [Files -> Versions]
        /\ worker = [at |-> worker.at, i |-> worker.i, stamps |-> worker.stamps, read |-> worker.read]
    BY <1>2 DEF Workers
  <1>4. /\ w \in Workers /\ w.at = "stamp" /\ w.i = worker.i
        /\ w.stamps = [worker.stamps EXCEPT ![worker.i] = files[worker.i]]
    <2>1. [worker.stamps EXCEPT ![worker.i] = files[worker.i]] \in [Files -> Versions]
      BY <1>2, <1>3
    <2>2. w = [at |-> worker.at, i |-> worker.i,
               stamps |-> [worker.stamps EXCEPT ![worker.i] = files[worker.i]], read |-> worker.read]
      BY <1>3
    <2> QED BY <1>1, <1>3, <2>1, <2>2 DEF Workers
  <1>5. /\ w.stamps[worker.i] = files[worker.i]
        /\ \A f \in Files : f # worker.i => w.stamps[f] = worker.stamps[f]
    BY <1>3, <1>4
  <1> HIDE DEF w
  <1>6. /\ worker' \in Workers /\ worker'.stamps = w.stamps
        /\ \/ worker.i < NumFiles /\ worker'.at = "stamp" /\ worker'.i = worker.i + 1
           \/ worker.i = NumFiles /\ worker'.at = "read" /\ worker'.i = 1
    BY <1>1, <1>4, MovedIs, Zenon
  <1>7. Rounds' /\ finished_' = {}
    <2>1. worker.at # "none" /\ worker'.at # "none"
      BY <1>1, <1>6
    <2> QED BY <1>1, <1>6, <2>1, StillReloading, Zenon
  <1>8. UNCHANGED <<files, trie_, stamps_, loaded, altered>>
    BY <1>1, Zenon DEF outside, lists
  <1>9. \A f \in Files : ~AlreadyRead(f)'
    BY <1>6, FileNumbers DEF AlreadyRead, Files
  <1>10. ASSUME NEW f \in Files \ altering', AlreadyStamped(f)' PROVE worker'.stamps[f] = files'[f]
    <2>1. CASE f = worker.i
      BY <1>5, <1>6, <1>8, <2>1, Zenon
    <2>2. CASE f # worker.i
      <3>1. f < worker.i
        BY <1>3, <1>6, <1>10, <2>2 DEF AlreadyStamped, Files
      <3>2. AlreadyStamped(f) /\ f \in Files \ altering
        BY <1>1, <1>10, <2>2, <3>1 DEF AlreadyStamped
      <3>3. worker.stamps[f] = files[f]
        BY <3>2, Zenon DEF Copies, InHand
      <3> QED BY <1>5, <1>6, <1>8, <2>2, <3>3, Zenon
    <2> QED BY <2>1, <2>2
  <1>11. InHand'
    BY <1>9, <1>10, Zenon DEF InHand
  <1>12. \A a \in finished_' : Fits(a)'
    BY <1>7
  <1> QED BY <1>7, <1>8, <1>11, <1>12, CopiesKept, Zenon

\* An outcome has the worker's stamps, and what it read.
LEMMA AttemptFacts ==
  ASSUME NEW w \in Workers, NEW ok \in BOOLEAN
  PROVE  /\ Attempt(ok, w) \in [ok : BOOLEAN, stamps : [Files -> Versions], read : [Files -> Versions]]
         /\ Attempt(ok, w).ok = ok /\ Attempt(ok, w).stamps = w.stamps /\ Attempt(ok, w).read = w.read
  BY DEF Attempt, Workers

\* The worker ends, every file stamped, and every file read or an attempt that failed.
LEMMA OutcomeInv ==
  ASSUME Rounds, Copies, worker.at # "none", NEW ok \in BOOLEAN,
         finished_' = {Attempt(ok, worker)}, worker' = NoWorker,
         UNCHANGED <<outside, sighup, lists, collecting, altering>>,
         \A f \in Files : AlreadyStamped(f) /\ (ok => AlreadyRead(f))
  PROVE  Rounds' /\ Copies'
  <1>1. UNCHANGED <<files, trie_, stamps_, reloading_, loaded, altered>> /\ collecting' = collecting
    BY Zenon DEF outside, lists
  <1>2. /\ worker \in Workers /\ reloading_ /\ collecting /\ {trie_, stamps_} \subseteq [Files -> Versions]
    <2>1. reloading_ /\ collecting
      BY WorkerAlone, Zenon
    <2>2. {trie_, stamps_} \subseteq [Files -> Versions]
      BY DEF Rounds
    <2> QED BY <2>1, <2>2, Zenon DEF Rounds
  <1>3. /\ worker'.at = "none" /\ worker' \in Workers
        /\ worker'.stamps = Unread /\ worker'.read = Unread /\ Unread \in [Files -> Versions]
    BY NoWorkerFacts, Zenon
  <1>4. Rounds'
    <2>1. {trie_', stamps_', worker'.stamps, worker'.read} \subseteq [Files -> Versions]
      BY <1>1, <1>2, <1>3
    <2>2. finished_' # {} /\ Attempt(ok, worker) \in finished_'
      OBVIOUS
    <2>3. finished_' \subseteq [ok : BOOLEAN, stamps : [Files -> Versions], read : [Files -> Versions]]
      <3>1. Attempt(ok, worker) \in [ok : BOOLEAN, stamps : [Files -> Versions], read : [Files -> Versions]]
        BY <1>2, AttemptFacts, Zenon
      <3> QED BY <3>1
    <2>4. reloading_' = (worker'.at # "none" \/ finished_' # {}) /\ reloading_' /\ collecting'
      BY <1>1, <1>2, <2>2 DEF Rounds
    <2> QED BY <1>3, <2>1, <2>3, <2>4, Zenon DEF Rounds
  <1>5. InHand'
    BY <1>3 DEF InHand, AlreadyStamped, AlreadyRead
  <1>6. ASSUME NEW a \in finished_' PROVE Fits(a)'
    <2>1. a = Attempt(ok, worker)
      BY <1>6
    <2>2. a.ok = ok /\ a.stamps = worker.stamps /\ a.read = worker.read
      BY <2>1, <1>2, AttemptFacts, Zenon
    <2>3. /\ \A f \in Files \ altering : worker.stamps[f] = files[f] /\ (ok => worker.read[f] = files[f])
          /\ ok => \A f \in Files : worker.read[f] # 0
      BY Zenon DEF Copies, InHand
    <2> QED BY <1>1, <2>2, <2>3, Zenon DEF Fits
  <1> QED BY <1>1, <1>4, <1>5, <1>6, CopiesKept, Zenon

\* The worker reads a file as it is now, or can't.
LEMMA LoadInv ==
  ASSUME Rounds, Copies, load_file PROVE Rounds' /\ Copies'
  <1>1. /\ worker.at = "read" /\ worker.at # "none"
        /\ worker \in Workers /\ files \in [Files -> Versions]
    <2>1. worker.at = "read" /\ worker \in Workers /\ files \in [Files -> Versions]
      BY Zenon DEF load_file, Rounds, Copies
    <2> QED BY <2>1
  <1>2. worker.i \in Files /\ worker.stamps \in [Files -> Versions] /\ worker.read \in [Files -> Versions]
        /\ worker = [at |-> worker.at, i |-> worker.i, stamps |-> worker.stamps, read |-> worker.read]
    BY <1>1 DEF Workers
  <1>3. CASE ~CanOpen(worker.i)
    <2>1. /\ finished_' = {Attempt(FALSE, worker)} /\ worker' = NoWorker
          /\ UNCHANGED <<outside, sighup, lists, collecting, altering>>
      BY <1>3, Zenon DEF load_file
    <2>2. \A f \in Files : AlreadyStamped(f)
      BY <1>1, Zenon DEF AlreadyStamped
    <2> QED BY <1>1, <2>1, <2>2, OutcomeInv, Zenon
  <1>4. CASE CanOpen(worker.i)
    <2> DEFINE w == [worker EXCEPT !.read[worker.i] = files[worker.i]]
    <2>1. worker' = Moved(w) /\ UNCHANGED <<outside, sighup, lists, finished_, collecting, altering>>
      BY <1>4, Zenon DEF load_file
    <2>2. /\ w \in Workers /\ w.at = "read" /\ w.i = worker.i /\ w.stamps = worker.stamps
          /\ w.read = [worker.read EXCEPT ![worker.i] = files[worker.i]]
      <3>1. [worker.read EXCEPT ![worker.i] = files[worker.i]] \in [Files -> Versions]
        BY <1>1, <1>2
      <3>2. w = [at |-> worker.at, i |-> worker.i, stamps |-> worker.stamps,
                 read |-> [worker.read EXCEPT ![worker.i] = files[worker.i]]]
        BY <1>2
      <3> QED BY <1>1, <1>2, <3>1, <3>2 DEF Workers
    <2>3. /\ w.read[worker.i] = files[worker.i] /\ files[worker.i] # 0
          /\ \A f \in Files : f # worker.i => w.read[f] = worker.read[f]
      BY <1>2, <1>4, <2>2 DEF CanOpen
    <2> HIDE DEF w
    <2>4. /\ worker' \in Workers /\ worker'.stamps = worker.stamps /\ worker'.read = w.read
          /\ \/ worker.i < NumFiles /\ worker'.at = "read" /\ worker'.i = worker.i + 1
             \/ worker.i = NumFiles /\ worker'.at = "done"
      BY <2>1, <2>2, MovedIs, Zenon
    <2>5. UNCHANGED <<files, trie_, stamps_, loaded, altered, altering>>
      BY <2>1, Zenon DEF outside, lists
    <2>6. Rounds' /\ finished_' = {}
      <3>1. worker'.at # "none"
        BY <2>4
      <3> QED BY <1>1, <2>1, <2>4, <3>1, StillReloading, Zenon
    <2>7. ASSUME NEW f \in Files, AlreadyRead(f)'
          PROVE  worker'.read[f] # 0 /\ (f \notin altering => worker'.read[f] = files[f])
      <3>1. CASE f = worker.i
        BY <2>3, <2>4, <3>1, Zenon
      <3>2. CASE f # worker.i
        <4>1. f < worker.i
          BY <1>2, <2>4, <2>7, <3>2 DEF AlreadyRead, Files
        <4>2. AlreadyRead(f)
          BY <1>1, <4>1, Zenon DEF AlreadyRead
        <4>3. worker.read[f] # 0
          BY <4>2, Zenon DEF Copies, InHand
        <4>4. f \notin altering => worker.read[f] = files[f]
          <5>1. ASSUME f \notin altering PROVE f \in Files \ altering
            BY <5>1
          <5> QED BY <4>2, <5>1, Zenon DEF Copies, InHand
        <4> QED BY <2>3, <2>4, <3>2, <4>3, <4>4, Zenon
      <3> QED BY <3>1, <3>2
    <2>8. \A f \in Files \ altering : worker'.stamps[f] = files[f]
      <3>1. \A f \in Files \ altering : f \in Files /\ AlreadyStamped(f)
        BY <1>1 DEF AlreadyStamped
      <3> QED BY <2>4, <3>1, Zenon DEF Copies, InHand
    <2>9. InHand'
      <3>1. \A f \in Files \ altering' : f \in Files /\ f \notin altering
        BY <2>5
      <3> QED BY <2>5, <2>7, <2>8, <3>1, Zenon DEF InHand
    <2>10. \A a \in finished_' : Fits(a)'
      BY <2>6
    <2> QED BY <2>5, <2>6, <2>9, <2>10, CopiesKept, Zenon
  <1> QED BY <1>3, <1>4

\* read_lists() returns with every file read.
LEMMA EndsInv ==
  ASSUME Rounds, Copies, WorkerEnds PROVE Rounds' /\ Copies'
  <1>1. /\ worker.at = "done" /\ finished_' = {Attempt(TRUE, worker)} /\ worker' = NoWorker
        /\ UNCHANGED <<outside, sighup, lists, collecting, altering>>
    BY Zenon DEF WorkerEnds
  <1>2. worker.at # "none" /\ \A f \in Files : AlreadyStamped(f) /\ AlreadyRead(f)
    BY <1>1 DEF AlreadyRead, AlreadyStamped
  <1> QED BY <1>1, <1>2, OutcomeInv, Zenon

\* start_reload() starts a worker that has stamped and read nothing.
LEMMA ReloadInv ==
  ASSUME Rounds, Copies, reload, UNCHANGED <<outside, finished_, altering>> PROVE Rounds' /\ Copies'
  <1>0. files' = files /\ finished_' = finished_ /\ altering' = altering
    BY Zenon DEF outside
  <1>1. CASE reloading_
    <2>1. UNCHANGED <<lists, worker, collecting>>
      BY <1>1, Zenon DEF reload, MayReload
    <2> QED BY <1>0, <2>1, ListsStutter, Zenon
  <1>2. CASE ~reloading_
    <2>1. /\ reloading_' = TRUE /\ worker' = [NoWorker EXCEPT !.at = Phases[1]]
          /\ collecting' = TRUE /\ UNCHANGED <<trie_, stamps_, loaded, altered>>
      BY <1>2, Zenon DEF reload, MayReload
    <2>2. finished_ = {}
      BY <1>2, Zenon DEF Rounds
    <2>3. worker' = [at |-> "stamp", i |-> 1, stamps |-> Unread, read |-> Unread]
      <3>1. Phases[1] = "stamp"
        BY DEF Phases
      <3> QED BY <2>1, <3>1 DEF NoWorker
    <2>4. Unread \in [Files -> Versions]
      BY NoWorkerFacts, Zenon
    <2>5. /\ worker' \in Workers /\ worker'.at = "stamp" /\ worker'.i = 1
          /\ worker'.stamps = Unread /\ worker'.read = Unread
      BY <2>3, <2>4, FileNumbers DEF Workers
    <2>6. Rounds'
      <3>1. {trie_, stamps_} \subseteq [Files -> Versions]
        BY DEF Rounds
      <3>2. {trie_', stamps_', worker'.stamps, worker'.read} \subseteq [Files -> Versions]
        BY <2>1, <2>4, <2>5, <3>1
      <3>3. worker'.at # "none"
        BY <2>5
      <3>4. finished_' = {} /\ finished_' \subseteq [ok : BOOLEAN, stamps : [Files -> Versions], read : [Files -> Versions]]
        BY <1>0, <2>2
      <3>5. reloading_' = (worker'.at # "none" \/ finished_' # {})
        BY <2>1, <3>3, Zenon
      <3> QED BY <2>1, <2>5, <3>2, <3>4, <3>5, Zenon DEF Rounds
    <2>7. \A f \in Files : ~AlreadyStamped(f)' /\ ~AlreadyRead(f)'
      BY <2>5, FileNumbers DEF AlreadyStamped, AlreadyRead, Files
    <2>8. InHand'
      BY <2>7 DEF InHand
    <2>9. \A a \in finished_' : Fits(a)'
      BY <1>0, <2>2
    <2> QED BY <1>0, <2>1, <2>6, <2>8, <2>9, CopiesKept, Zenon
  <1> QED BY <1>1, <1>2

\* finish_reload() uses the outcome: of one that failed, only the stamps.
LEMMA CollectInv ==
  ASSUME Rounds, Copies, collect_reload PROVE Rounds' /\ Copies'
  <1>0. files' = files /\ worker' = worker
    BY Zenon DEF collect_reload, outside
  <1>1. CASE finished_ = {}
    <2>1. collecting' = TRUE /\ UNCHANGED <<lists, finished_, altering>>
      BY <1>1, Zenon DEF collect_reload, CollectAgain
    <2>2. Rounds'
      BY <1>0, <2>1, Zenon DEF Rounds, lists
    <2>3. InHand'
      BY <1>0, <2>1, Zenon DEF Copies, InHand, AlreadyStamped, AlreadyRead
    <2>4. Current' /\ files' \in [Files -> Versions]
      BY <1>0, <2>1, Zenon DEF Copies, lists, Current
    <2>5. \A a \in finished_' : Fits(a)'
      BY <1>1, <2>1
    <2> QED BY <2>2, <2>3, <2>4, <2>5, Zenon DEF Copies
  <1>2. CASE finished_ # {}
    <2>1. PICK a \in finished_ : use(a) /\ finished_' = {} /\ reloading_' = FALSE /\ collecting' = FALSE
      BY <1>2, Zenon DEF collect_reload
    <2>2. stamps_' = a.stamps /\ trie_' = ListsAfter(a) /\ loaded' = a.ok /\ altered' = altering
      BY <2>1, Zenon DEF use
    <2>3. worker.at = "none"
      BY <1>2, Zenon DEF Rounds
    <2>4. /\ a.stamps \in [Files -> Versions] /\ a.read \in [Files -> Versions]
          /\ trie_ \in [Files -> Versions] /\ a.ok \in BOOLEAN
          /\ worker.stamps \in [Files -> Versions] /\ worker.read \in [Files -> Versions]
      BY DEF Rounds
    <2>5. Fits(a) /\ \A f \in Files : trie_[f] # 0
      BY Zenon DEF Copies, Current
    <2>6. trie_' \in [Files -> Versions]
      BY <2>2, <2>4, Zenon DEF ListsAfter
    <2>7. Rounds'
      <3>1. {trie_', stamps_', worker'.stamps, worker'.read} \subseteq [Files -> Versions]
        BY <1>0, <2>2, <2>4, <2>6
      <3>2. finished_' \subseteq [ok : BOOLEAN, stamps : [Files -> Versions], read : [Files -> Versions]]
        BY <2>1
      <3>3. reloading_' = (worker'.at # "none" \/ finished_' # {}) /\ ~reloading_'
        BY <1>0, <2>1, <2>3, Zenon
      <3>4. worker' \in Workers
        BY <1>0, Zenon DEF Rounds
      <3> QED BY <2>1, <3>1, <3>2, <3>3, <3>4, Zenon DEF Rounds
    <2>8. Current'
      <3>1. \A f \in Files : trie_'[f] # 0
        BY <2>2, <2>5, Zenon DEF ListsAfter, Fits
      <3>2. \A f \in Files \ altering : a.stamps[f] = files[f] /\ (a.ok => trie_'[f] = files[f])
        BY <2>2, <2>5, Zenon DEF ListsAfter, Fits
      <3> QED BY <1>0, <2>2, <3>1, <3>2, Zenon DEF Current
    <2>9. InHand'
      BY <1>0, <2>3 DEF InHand, AlreadyStamped, AlreadyRead
    <2>10. \A b \in finished_' : Fits(b)'
      BY <2>1
    <2>11. files' \in [Files -> Versions]
      BY <1>0, Zenon DEF Copies
    <2> QED BY <2>7, <2>8, <2>9, <2>10, <2>11, Zenon DEF Copies
  <1> QED BY <1>1, <1>2

\* main() starts with every file read.
LEMMA ListsInitInv == ListsInit => Rounds /\ Copies
  <1> SUFFICES ASSUME ListsInit PROVE Rounds /\ Copies
    OBVIOUS
  <1>1. /\ files = [f \in Files |-> 1] /\ trie_ = files /\ stamps_ = files
        /\ reloading_ = FALSE /\ worker = NoWorker /\ finished_ = {} /\ collecting = FALSE
    BY Zenon DEF ListsInit
  <1>2. files \in [Files -> Versions] /\ \A f \in Files : files[f] # 0
    BY <1>1, VersionNumbers
  <1>3. /\ worker \in Workers /\ worker.at = "none" /\ worker.stamps = Unread /\ worker.read = Unread
        /\ Unread \in [Files -> Versions]
    BY <1>1, NoWorkerFacts, Zenon
  <1>4. Rounds
    BY <1>1, <1>2, <1>3, Zenon DEF Rounds
  <1>5. Current
    BY <1>1, <1>2 DEF Current
  <1>6. InHand
    BY <1>3, EmptyHanded, Zenon
  <1>7. \A a \in finished_ : Fits(a)
    BY <1>1
  <1>8. Copies
    BY <1>2, <1>5, <1>6, <1>7, Zenon DEF Copies
  <1> QED BY <1>4, <1>8

\* Every step of the world, the worker and the loop keeps the invariant.
LEMMA ListsNextInv == Rounds /\ Copies /\ [ListsNext]_listsVars => Rounds' /\ Copies'
  <1> SUFFICES ASSUME Rounds, Copies, [ListsNext]_listsVars PROVE Rounds' /\ Copies'
    OBVIOUS
  <1>1. ASSUME NEW f \in Files, NEW version \in Versions, Change(f, version) PROVE Rounds' /\ Copies'
    BY <1>1, ChangeInv, Zenon
  <1>2. CASE Worker
    BY <1>2, StampInv, LoadInv, EndsInv, Zenon DEF Worker
  <1>3. CASE check_files \/ OnSighup
    <2>1. reload /\ UNCHANGED <<outside, finished_, altering>>
      BY <1>3, Zenon DEF check_files, OnSighup
    <2> QED BY <2>1, ReloadInv, Zenon
  <1>4. CASE collect_reload
    BY <1>4, CollectInv, Zenon
  <1>5. CASE Sighup \/ (\E f \in Files : Access(f)) \/ UNCHANGED listsVars
    <2>1. UNCHANGED <<files, lists, worker, finished_, collecting, altering>>
      BY <1>5, Zenon DEF Sighup, Access, listsVars, outside
    <2> QED BY <2>1, ListsStutter, Zenon
  <1> QED BY <1>1, <1>2, <1>3, <1>4, <1>5, Zenon DEF ListsNext

\* However many list files there are, and whenever they are written, removed, put back
\* or made unreadable while the worker stamps and reads them: the lists in use are
\* never half of an attempt, a file that did not change since it was stamped is what
\* its stamp says, and unless the last attempt failed it is in use as it is.
THEOREM ListsUpToDate == ListsSpec => []NoChangeMissed
  <1>1. Rounds /\ Copies => NoChangeMissed
    BY ListsParts, Zenon DEF ListsInv
  <1> QED BY <1>1, ListsInitInv, ListsNextInv, PTL DEF ListsSpec
=============================================================================
