---------------------------- MODULE TcpListener ----------------------------
(***************************************************************************)
(* The TCP listener (core/net/tcp_listener.cpp): accepting within limits,  *)
(* pipelined queries, responses in any order, pausing, half-closed         *)
(* connections and the idle timer.                                         *)
(*                                                                         *)
(* A query is what becomes of it: the handler answers before it returns    *)
(* ("sync"), later ("async") or never ("drop", DenyAction::Drop in         *)
(* query_processor.cpp), or it cannot be parsed ("bad").  Bytes are        *)
(* counted in whole messages; a message still incomplete only waits.       *)
(*                                                                         *)
(* The thread runs one handler at a time; todo is what is left of it: the  *)
(* functions still to be called on connection at, first one first.  A      *)
(* synchronous answer runs respond() inside process_messages(), so it puts *)
(* its calls in front.  Every call is guarded by c->fd >= 0 in the code:   *)
(* closing the connection ends the handler.                                *)
(***************************************************************************)
EXTENDS Naturals, Sequences, FiniteSets, Functions

CONSTANTS
  Conns,           \* connections that may be open at a time, and more that wait
  ClientOf,        \* Conns -> the client's IP
  Kinds,           \* kinds of query that clients send
  MaxSent,         \* bound: [Conns -> queries the client sends on it]
  kMaxPipelined, kMaxUnsent, max_connections, max_per_client

ASSUME TcpConstants ==
  /\ DOMAIN ClientOf = Conns
  /\ Kinds \subseteq {"sync", "async", "drop", "bad"}
  /\ MaxSent \in [Conns -> Nat]
  /\ {kMaxPipelined, kMaxUnsent, max_connections, max_per_client} \subseteq Nat
  /\ kMaxPipelined > 1   \* with 1, respond() may find a half-closed connection finished too early
  /\ kMaxUnsent > 0

Clients == Range(ClientOf)

VARIABLES
  accepting,   \* "watching" the listening socket, or "paused" until accept_retry_
  peer,        \* [Conns -> the client's side: not yet, connecting, open, closed]
  socket,      \* [Conns -> queries sent and not read by the listener]
  sent,        \* [Conns -> number of queries the client has sent]
  connections_,\* connections open here
  per_client_, \* [Clients -> number of connections]
  in,          \* [Conns -> whole queries received and not handed over]
  pending,     \* [Conns -> Connection::pending]
  owed,        \* [Conns -> responders the handler will still call]
  out,         \* [Conns -> responses not written]
  peer_done,   \* connections whose client shut down its side
  interest,    \* [Conns -> subset of {"r", "w"}]
  idle_timers, \* connections whose idle timer is in the event loop
  at, todo     \* the handler that runs: its connection, what is left of it

conn == <<in, pending, owed, out, peer_done, interest>>
env == <<peer, socket, sent>>
limits == <<connections_, per_client_, accepting>>
tcpVars == <<accepting, peer, socket, sent, connections_, per_client_, conn, idle_timers, at, todo>>

Idle == todo = <<>>
At(f, c) == todo # <<>> /\ Head(todo) = f /\ at = c

TcpInit ==
  /\ accepting = "watching"
  /\ peer = [c \in Conns |-> "away"]
  /\ socket = [c \in Conns |-> <<>>]
  /\ sent = [c \in Conns |-> 0]
  /\ connections_ = {}
  /\ per_client_ = [k \in Clients |-> 0]
  /\ in = [c \in Conns |-> <<>>]
  /\ pending = [c \in Conns |-> 0]
  /\ owed = [c \in Conns |-> 0]
  /\ out = [c \in Conns |-> 0]
  /\ peer_done = {}
  /\ interest = [c \in Conns |-> {}]
  /\ idle_timers = {}
  /\ at = CHOOSE c \in Conns : TRUE
  /\ todo = <<>>

----------------------------------------------------------------------------
(* The clients *)

Connects(c) ==
  /\ peer[c] = "away" /\ peer' = [peer EXCEPT ![c] = "connecting"]
  /\ UNCHANGED <<socket, sent, limits, conn, idle_timers, at, todo>>

SendsQuery(c, q) ==
  /\ peer[c] = "open" /\ sent[c] < MaxSent[c]
  /\ socket' = [socket EXCEPT ![c] = Append(@, q)]
  /\ sent' = [sent EXCEPT ![c] = @ + 1]
  /\ UNCHANGED <<peer, limits, conn, idle_timers, at, todo>>

\* The client sends no more, and still reads.
ShutsDown(c) ==
  /\ peer[c] = "open" /\ peer' = [peer EXCEPT ![c] = "done"]
  /\ UNCHANGED <<socket, sent, limits, conn, idle_timers, at, todo>>

----------------------------------------------------------------------------
(* Accepting and closing *)

Fresh(c) ==
  /\ in' = [in EXCEPT ![c] = <<>>]
  /\ pending' = [pending EXCEPT ![c] = 0]
  /\ owed' = [owed EXCEPT ![c] = 0]
  /\ out' = [out EXCEPT ![c] = 0]
  /\ peer_done' = peer_done \ {c}

HasRoom(c) ==
  Cardinality(connections_) < max_connections /\ per_client_[ClientOf[c]] < max_per_client

\* on_acceptable(), for one connection of its loop: over a limit it is closed at
\* once; so it is when the event loop can't watch it.
Accept(c) ==
  /\ Idle /\ accepting = "watching" /\ peer[c] = "connecting"
  /\ \/ /\ HasRoom(c)
        /\ connections_' = connections_ \cup {c}
        /\ per_client_' = [per_client_ EXCEPT ![ClientOf[c]] = @ + 1]
        /\ peer' = [peer EXCEPT ![c] = "open"]
        /\ interest' = [interest EXCEPT ![c] = {"r"}]
        /\ idle_timers' = idle_timers \cup {c}
        /\ Fresh(c)
     \/ /\ peer' = [peer EXCEPT ![c] = "closed"]
        /\ UNCHANGED <<connections_, per_client_, conn, idle_timers>>
  /\ UNCHANGED <<accepting, socket, sent, at, todo>>

\* Out of file descriptors: stop watching for a moment instead of spinning.
PauseAccepting(c) ==
  /\ Idle /\ accepting = "watching" /\ peer[c] = "connecting"
  /\ accepting' = "paused"
  /\ UNCHANGED <<env, connections_, per_client_, conn, idle_timers, at, todo>>

AcceptRetry ==
  /\ Idle /\ accepting = "paused" /\ accepting' = "watching"
  /\ UNCHANGED <<env, connections_, per_client_, conn, idle_timers, at, todo>>

KeepCount(c) == per_client_   \* wrong: the client's slot is never given back

OneFewer(c) == [per_client_ EXCEPT ![ClientOf[c]] = @ - 1]

close(c) ==
  /\ connections_' = connections_ \ {c}
  /\ per_client_' = OneFewer(c)
  /\ idle_timers' = idle_timers \ {c}
  /\ peer' = [peer EXCEPT ![c] = "closed"]
  /\ interest' = [interest EXCEPT ![c] = {}]
  /\ Fresh(c)
  /\ todo' = <<>>
  /\ UNCHANGED <<accepting, socket, sent, at>>

----------------------------------------------------------------------------
(* One connection *)

\* on_event() is called with the events the socket is watched for, and is ready
\* for; a reset is always reported.
Reset(c) == Idle /\ c \in connections_ /\ close(c)

\* read_from(): a chunk of what is there, or the end of the stream.
Readable(c) ==
  /\ Idle /\ c \in connections_ /\ "r" \in interest[c]
  /\ \E also \in IF "w" \in interest[c] THEN {<<>>, <<"flush">>} ELSE {<<>>} :
       \/ \E n \in 1..Len(socket[c]) :
            /\ in' = [in EXCEPT ![c] = @ \o SubSeq(socket[c], 1, n)]
            /\ socket' = [socket EXCEPT ![c] = SubSeq(@, n + 1, Len(@))]
            /\ todo' = <<"process_messages">> \o also \o <<"update">>
            /\ UNCHANGED peer_done
       \/ /\ socket[c] = <<>> /\ peer[c] = "done"
          /\ peer_done' = peer_done \cup {c}
          /\ todo' = also \o <<"update">>
          /\ UNCHANGED <<in, socket>>
  /\ at' = c
  /\ UNCHANGED <<peer, sent, limits, pending, owed, out, interest, idle_timers>>

Writable(c) ==
  /\ Idle /\ c \in connections_ /\ "w" \in interest[c]
  /\ at' = c /\ todo' = <<"flush", "update">>
  /\ UNCHANGED <<env, limits, conn, idle_timers>>

MayProcess(c) == pending[c] < kMaxPipelined /\ in[c] # <<>>

\* process_messages(): one query of its loop ...
ProcessQuery(c) ==
  /\ At("process_messages", c) /\ MayProcess(c)
  /\ IF Head(in[c]) = "bad" THEN close(c)
     ELSE /\ in' = [in EXCEPT ![c] = Tail(@)]
          /\ pending' = [pending EXCEPT ![c] = @ + (IF Head(in[c]) = "sync" THEN 0 ELSE 1)]
          /\ owed' = [owed EXCEPT ![c] = @ + (IF Head(in[c]) = "async" THEN 1 ELSE 0)]
          /\ out' = [out EXCEPT ![c] = @ + (IF Head(in[c]) = "sync" THEN 1 ELSE 0)]
          /\ todo' = IF Head(in[c]) = "sync" THEN <<"flush", "update">> \o todo ELSE todo
          /\ idle_timers' = idle_timers \cup {c}
          /\ UNCHANGED <<env, limits, peer_done, interest, at>>

\* ... until there is none, or too many are unanswered.
ProcessEnds(c) ==
  /\ At("process_messages", c) /\ ~MayProcess(c)
  /\ todo' = Tail(todo)
  /\ UNCHANGED <<env, limits, conn, idle_timers, at>>

AnswerOnly == <<"flush", "update">>   \* wrong: queries behind kMaxPipelined are left

AfterAnswer == <<"flush", "process_messages", "update">>

\* respond() to a query the handler kept.
respond(c) ==
  /\ Idle /\ c \in connections_ /\ owed[c] > 0
  /\ owed' = [owed EXCEPT ![c] = @ - 1]
  /\ pending' = [pending EXCEPT ![c] = @ - 1]
  /\ out' = [out EXCEPT ![c] = @ + 1]
  /\ at' = c /\ todo' = AfterAnswer
  /\ UNCHANGED <<env, limits, in, peer_done, interest, idle_timers>>

\* flush(): the kernel takes some of the responses, or the client is gone.
flush(c) ==
  /\ At("flush", c)
  /\ \/ \E n \in 0..out[c] :
          /\ out' = [out EXCEPT ![c] = @ - n]
          /\ idle_timers' = IF n > 0 THEN idle_timers \cup {c} ELSE idle_timers
          /\ todo' = Tail(todo)
          /\ UNCHANGED <<env, limits, in, pending, owed, peer_done, interest, at>>
     \/ out[c] > 0 /\ close(c)

ForgetsPending(c) == c \in peer_done /\ out[c] = 0   \* wrong: answers still owed

Finished(c) == c \in peer_done /\ pending[c] = 0 /\ out[c] = 0

Wanted(c) ==
  (IF c \notin peer_done /\ pending[c] < kMaxPipelined /\ out[c] < kMaxUnsent THEN {"r"} ELSE {})
    \cup (IF out[c] > 0 THEN {"w"} ELSE {})

update(c) ==
  /\ At("update", c)
  /\ IF Finished(c) THEN close(c)
     ELSE /\ interest' = [interest EXCEPT ![c] = Wanted(c)]
          /\ todo' = Tail(todo)
          /\ UNCHANGED <<env, limits, in, pending, owed, out, peer_done, idle_timers, at>>

NotRearmed(c) == idle_timers \ {c}   \* wrong: the connection has no timer any more

Rearmed(c) == idle_timers

\* The idle timer: while queries are unanswered we are the slow one.
IdleTimerFires(c) ==
  /\ Idle /\ c \in idle_timers /\ c \in connections_
  /\ IF pending[c] > 0
       THEN idle_timers' = Rearmed(c) /\ UNCHANGED <<env, limits, conn, at, todo>>
       ELSE close(c)

----------------------------------------------------------------------------
\* What the thread does before it is back in the event loop.
Inside ==
  \E c \in Conns : ProcessQuery(c) \/ ProcessEnds(c) \/ flush(c) \/ update(c)

TcpNext ==
  \/ \E c \in Conns :
       \/ Connects(c) \/ ShutsDown(c) \/ \E q \in Kinds : SendsQuery(c, q)
       \/ Accept(c) \/ PauseAccepting(c)
       \/ Reset(c) \/ Readable(c) \/ Writable(c)
       \/ respond(c)
       \/ IdleTimerFires(c)
  \/ AcceptRetry
  \/ Inside

TcpSpec == TcpInit /\ [][TcpNext]_tcpVars

\* A timer that is due gets its turn in every iteration of the loop, and the
\* handler calls every responder it keeps: the resolver's deadline sees to it.
\* Nothing is assumed of the clients or their sockets.
TcpFairness ==
  /\ WF_tcpVars(Inside) /\ WF_tcpVars(AcceptRetry)
  /\ \A c \in Conns :
       SF_tcpVars(respond(c)) /\ SF_tcpVars(IdleTimerFires(c))

----------------------------------------------------------------------------
\* Connection::pending is a size_t that never goes below zero or above
\* kMaxPipelined.  Connection limits: per_client_ counts exactly the open
\* connections of each client, on every path that closes one, so the limits are
\* neither passed nor used up by connections that are gone.
LimitsExact ==
  /\ \A k \in Clients : per_client_[k] = Cardinality({c \in connections_ : ClientOf[c] = k})
  /\ \A k \in Clients : per_client_[k] <= max_per_client
  /\ connections_ \subseteq Conns /\ Cardinality(connections_) <= max_connections
  /\ pending \in [Conns -> 0..kMaxPipelined] /\ owed \in [Conns -> 0..kMaxPipelined]
  /\ out \in [Conns -> Nat]

\* Between handlers, after any nesting of respond(), flush() and
\* process_messages(), a connection has its idle timer and waits for what it needs
\* only: unprocessed queries behind kMaxPipelined unanswered ones, whose answers
\* will take them up, unsent responses for room in the socket; one watched for
\* nothing waits for an answer of ours.
NoneStranded ==
  /\ idle_timers = connections_
  /\ Idle => \A c \in connections_ :
       /\ in[c] # <<>> => pending[c] >= kMaxPipelined
       /\ out[c] > 0 => "w" \in interest[c]
       /\ "r" \in interest[c] <=>
            c \notin peer_done /\ pending[c] < kMaxPipelined /\ out[c] < kMaxUnsent
       /\ interest[c] = {} => pending[c] > 0

\* "update() closes once we owe it nothing": a half-closed connection is not
\* closed by update() while a query of it is unanswered or unsent.
HalfCloseAnswered ==
  [][\A c \in connections_ : c \notin connections_' /\ At("update", c) =>
       in[c] = <<>> /\ owed[c] = 0 /\ out[c] = 0]_tcpVars

Unanswerable(c) == pending[c] > owed[c]

\* "close a connection that sends no complete query for this long"
\* (TcpListenerConfig::idle_timeout_ms): clients send finitely many queries here, so
\* every connection comes to its end, whatever is answered, unsent or half-closed,
\* unless a query of it was dropped: that one counts as unanswered for ever.
EveryConnectionEnds ==
  \A c \in Conns : c \in connections_ ~> c \notin connections_ \/ Unanswerable(c)

\* The same without the exception, as the comment on idle_timeout_ms has it.
IdleConnectionsClosed == \A c \in Conns : c \in connections_ ~> c \notin connections_

----------------------------------------------------------------------------
(* Why they hold *)

\* What may be left of a handler: every one ends in update(), and a synchronous
\* answer nests once, in front of the rest of process_messages().
Processing ==
  { <<"process_messages", "update">>,
    <<"process_messages", "flush", "update">>,
    <<"flush", "process_messages", "update">>,
    <<"update", "process_messages", "update">>,
    <<"update", "process_messages", "flush", "update">>,
    <<"flush", "update", "process_messages", "update">>,
    <<"flush", "update", "process_messages", "flush", "update">> }

Handlers == Processing \cup { <<"flush", "update">>, <<"update">>, <<>> }

\* A connection no handler is at work on.
Settled(c) ==
  /\ in[c] # <<>> => pending[c] >= kMaxPipelined
  /\ interest[c] = Wanted(c)
  /\ ~Finished(c)

\* The connection the handler is at work on: what is left in in[c] will be
\* processed or waits for an answer, and holds a half-closed connection open.
Underway(c) ==
  /\ c \in connections_
  /\ todo \notin Processing => (in[c] # <<>> => pending[c] >= kMaxPipelined)
  /\ c \in peer_done /\ in[c] # <<>> => pending[c] > 0

\* The inductive invariant.
TcpInv ==
  /\ LimitsExact
  /\ IsFiniteSet(connections_)
  /\ DOMAIN peer = Conns /\ DOMAIN in = Conns /\ DOMAIN interest = Conns
  /\ DOMAIN per_client_ = Clients
  /\ \A c \in connections_ : peer[c] \in {"open", "done"}
  /\ \A c \in Conns : owed[c] <= pending[c]
  /\ idle_timers = connections_
  /\ todo \in Handlers
  /\ todo # <<>> => Underway(at)
  /\ \A c \in connections_ : (todo # <<>> /\ c = at) \/ Settled(c)
============================================================================
