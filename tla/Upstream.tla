------------------------------ MODULE Upstream ------------------------------
(***************************************************************************)
(* UpstreamClient (core/resolver/upstream.cpp): one query to one server    *)
(* over a socket of its own, UDP or TCP, with a timer.                     *)
(*                                                                         *)
(* A datagram, or the stream of a TCP connection, is abstracted to what    *)
(* match() makes of it: "yes" (our response), "case" (ours but for letter  *)
(* case; taken for "yes" by a query that does not match case), "no"        *)
(* (anything else), and for sockets "error" (recv or send fails), "closed" *)
(* and "part" (TCP: more of a message that is not yet whole).  The event   *)
(* loop's part is the sets fds and timers: what it holds for the client.   *)
(***************************************************************************)
EXTENDS Naturals, Sequences, Functions, FiniteSetsExt

CONSTANTS
  MaxQueries,       \* bound: queries sent in a behaviour
  MaxInbox,         \* bound: what a socket's buffer holds
  spoof_threshold_

ASSUME UpstreamConstants == {MaxQueries, MaxInbox, spoof_threshold_} \subseteq Nat

Ids == 1..MaxQueries

VARIABLES
  alive,    \* the client exists
  next_id_,
  pending_, \* id -> Pending
  sockets,  \* ids with an open socket
  fds,      \* ids whose socket the event loop watches
  timers,   \* id -> "timeout", or "soon" for the failure reported on the next turn
  inbox,    \* id -> what has arrived on its socket and was not read
  outcome   \* the last callback: <<id, result>>, or <<>> after any other step

upstreamVars == <<alive, next_id_, pending_, sockets, fds, timers, inbox, outcome>>

Last(s) == s[Len(s)]

NoIds == [i \in {} |-> 0]

Without(f, i) == [j \in DOMAIN f \ {i} |-> f[j]]
With(f, i, v) == [j \in DOMAIN f \cup {i} |-> IF j = i THEN v ELSE f[j]]

UpstreamInit ==
  /\ alive = TRUE
  /\ next_id_ = 1
  /\ pending_ = NoIds /\ sockets = {} /\ fds = {} /\ timers = NoIds /\ inbox = NoIds
  /\ outcome = <<>>

----------------------------------------------------------------------------
(* send() *)

Pending(tcp, match_case) ==
  [tcp |-> tcp, match_case |-> match_case, wrong_case_seen |-> FALSE, suspicious |-> 0,
   written |-> ~tcp]

NeverArm(i, kind) == timers   \* wrong: nothing ends a query that is not answered

Arm(i, kind) == With(timers, i, kind)

\* The socket is set up and the query sent (TCP: to be sent once connected), or
\* some call failed: then the failure is reported by a timer, never from send().
send(tcp, match_case) ==
  /\ alive /\ next_id_ \in Ids
  /\ next_id_' = next_id_ + 1
  /\ pending_' = With(pending_, next_id_, Pending(tcp, match_case))
  /\ inbox' = With(inbox, next_id_, <<>>)
  /\ \/ /\ sockets' = sockets \cup {next_id_}
        /\ fds' = fds \cup {next_id_}
        /\ timers' = Arm(next_id_, "timeout")
     \/ /\ sockets' \in {sockets, sockets \cup {next_id_}}
        /\ timers' = Arm(next_id_, "soon")
        /\ UNCHANGED fds
  /\ outcome' = <<>>
  /\ UNCHANGED alive

----------------------------------------------------------------------------
(* The end of a query *)

LeaveTimer(i) ==   \* wrong: the timer outlives the query
  /\ sockets' = sockets \ {i} /\ fds' = fds \ {i}
  /\ inbox' = Without(inbox, i)
  /\ UNCHANGED timers

\* The socket leaves the event loop and is closed; the timer is cancelled.
release(i) ==
  /\ sockets' = sockets \ {i} /\ fds' = fds \ {i}
  /\ inbox' = Without(inbox, i)
  /\ timers' = Without(timers, i)

cancel(i) ==
  /\ alive
  /\ release(i)
  /\ pending_' = Without(pending_, i)
  /\ outcome' = <<>>
  /\ UNCHANGED <<alive, next_id_>>

\* finish(): the client forgets the query before it calls back.
finish(i, result) ==
  /\ IF i \in DOMAIN pending_
       THEN release(i) /\ outcome' = <<i, result>>
       ELSE outcome' = <<>> /\ timers' = Without(timers, i) /\ UNCHANGED <<sockets, fds, inbox>>
  /\ pending_' = Without(pending_, i)
  /\ UNCHANGED <<alive, next_id_>>

\* A server that normalises letter case is told apart from a dead one.
TimeoutResult(i) ==
  IF i \in DOMAIN pending_ /\ pending_[i].wrong_case_seen THEN "CaseMismatch" ELSE "Timeout"

TimerFires(i) ==
  /\ i \in DOMAIN timers
  /\ finish(i, IF timers[i] = "soon" THEN "NetworkError" ELSE TimeoutResult(i))

----------------------------------------------------------------------------
(* UDP *)

MatchAnyway(p, a) == a   \* wrong: case counts even where we did not mix it

\* What match() makes of an arrival for this query.
Match(p, a) == IF a = "case" /\ ~p.match_case THEN "yes" ELSE a

IsMismatch(p, a) == Match(p, a) \in {"case", "no"}

\* So many forged-looking replies, with the ones just read, that someone is
\* probably racing the real answer.
Suspect(p, read) ==
  spoof_threshold_ # 0 /\ p.suspicious + Len(read) >= spoof_threshold_

UdpEnds(p, read) ==
  LET a == Last(read) IN
  \/ ~IsMismatch(p, a)
  \/ Suspect(p, read)

UdpResult(p, a) ==
  CASE Match(p, a) = "yes" -> "Message"
    [] a = "error" -> "NetworkError"
    [] OTHER -> "SpoofSuspected"

\* The arrivals of s a loop reads: up to the first that ends it.
Read(s, ends) ==
  IF ends = {} THEN s ELSE SubSeq(s, 1, Min(ends))

\* The query after datagrams that were not for it.
Noted(p, read) ==
  [p EXCEPT !.suspicious = IF spoof_threshold_ = 0 THEN @ ELSE @ + Len(read),
            !.wrong_case_seen = @ \/ "case" \in Range(read)]

on_readable(i) ==
  /\ i \in fds /\ inbox[i] # <<>>
  /\ i \in DOMAIN pending_ /\ ~pending_[i].tcp
  /\ LET p == pending_[i]
         read == Read(inbox[i], {k \in DOMAIN inbox[i] : UdpEnds(p, SubSeq(inbox[i], 1, k))})
     IN  IF UdpEnds(p, read)
           THEN finish(i, UdpResult(p, Last(read)))
           ELSE /\ pending_' = [pending_ EXCEPT ![i] = Noted(p, read)]
                /\ inbox' = [inbox EXCEPT ![i] = <<>>]
                /\ outcome' = <<>>
                /\ UNCHANGED <<alive, next_id_, sockets, fds, timers>>

----------------------------------------------------------------------------
(* TCP *)

\* Connecting, then sending the query: refused or reset, sent in part, or sent.
TcpWritable(i) ==
  /\ i \in fds /\ i \in DOMAIN pending_ /\ pending_[i].tcp /\ ~pending_[i].written
  /\ \/ finish(i, "NetworkError")
     \/ /\ pending_' = [pending_ EXCEPT ![i].written = TRUE]
        /\ outcome' = <<>>
        /\ UNCHANGED <<alive, next_id_, sockets, fds, timers, inbox>>

TcpResult(p, a) ==
  CASE Match(p, a) = "yes" -> "Message"
    [] Match(p, a) = "case" -> "CaseMismatch"
    [] OTHER -> "NetworkError"

\* Nothing else comes on this connection: whatever is whole decides.
TcpReadable(i) ==
  /\ i \in fds /\ inbox[i] # <<>>
  /\ i \in DOMAIN pending_ /\ pending_[i].tcp /\ pending_[i].written
  /\ LET p == pending_[i]
         read == Read(inbox[i], {k \in DOMAIN inbox[i] : inbox[i][k] # "part"})
     IN  IF Last(read) # "part"
           THEN finish(i, TcpResult(p, Last(read)))
           ELSE /\ inbox' = [inbox EXCEPT ![i] = <<>>]
                /\ outcome' = <<>>
                /\ UNCHANGED <<alive, next_id_, pending_, sockets, fds, timers>>

on_tcp_event(i) == TcpWritable(i) \/ TcpReadable(i)

----------------------------------------------------------------------------
(* The network, and the owner of the client *)

Arrivals(tcp) == {"yes", "case", "no", "error"} \cup (IF tcp THEN {"part", "closed"} ELSE {})

Arrives(i, a) ==
  /\ i \in fds /\ i \in DOMAIN inbox /\ Len(inbox[i]) < MaxInbox
  /\ i \in DOMAIN pending_ /\ a \in Arrivals(pending_[i].tcp)
  /\ pending_[i].written
  /\ inbox' = [inbox EXCEPT ![i] = Append(@, a)]
  /\ outcome' = <<>>
  /\ UNCHANGED <<alive, next_id_, pending_, sockets, fds, timers>>

\* ~UpstreamClient()
Destroy ==
  /\ alive /\ alive' = FALSE
  /\ sockets' = sockets \ DOMAIN pending_ /\ fds' = fds \ DOMAIN pending_
  /\ timers' = [i \in DOMAIN timers \ DOMAIN pending_ |-> timers[i]]
  /\ pending_' = NoIds /\ inbox' = NoIds
  /\ outcome' = <<>>
  /\ UNCHANGED next_id_

UpstreamNext ==
  \/ \E tcp, match_case \in BOOLEAN : send(tcp, match_case)
  \/ \E i \in Ids :
       \/ cancel(i)
       \/ TimerFires(i)
       \/ on_readable(i)
       \/ on_tcp_event(i)
       \/ \E a \in Arrivals(TRUE) : Arrives(i, a)
  \/ Destroy

\* A timer that is due fires: the event loop is never starved of turns.
UpstreamFairness == \A i \in Ids : WF_upstreamVars(TimerFires(i))

UpstreamSpec == UpstreamInit /\ [][UpstreamNext]_upstreamVars /\ UpstreamFairness

----------------------------------------------------------------------------
Results == {"Message", "Timeout", "NetworkError", "CaseMismatch", "SpoofSuspected"}

\* Every variable keeps its type, and a query still waiting has seen fewer
\* forged-looking replies than spoof_threshold_, over however many wake-ups they
\* came.  Nothing of a query is left in the event loop once it is over, however it
\* ended, and until then it has its timer: no socket leaks, no query is stuck.
NothingLeaks ==
  /\ next_id_ \in 1..MaxQueries + 1 /\ DOMAIN pending_ \subseteq 1..next_id_ - 1
  /\ \A i \in DOMAIN pending_ :
       /\ pending_[i] \in [tcp : BOOLEAN, match_case : BOOLEAN, wrong_case_seen : BOOLEAN,
                           suspicious : Nat, written : BOOLEAN]
       /\ spoof_threshold_ # 0 => pending_[i].suspicious < spoof_threshold_
  /\ Range(timers) \subseteq {"timeout", "soon"}
  /\ outcome \in {<<>>} \cup (Ids \X Results)
  /\ fds \subseteq sockets /\ sockets \subseteq DOMAIN pending_
  /\ DOMAIN timers = DOMAIN pending_

\* "done is called exactly once": a query that was sent is over in the end.
EveryQueryEnds ==
  \A i \in Ids : i \in DOMAIN pending_ ~> i \notin DOMAIN pending_

\* By a query's timeout, the case mismatch read before is not forgotten.
CaseExact ==
  \A i \in DOMAIN pending_ : pending_[i].wrong_case_seen => outcome' # <<i, "Timeout">>

CaseReported == [][CaseExact]_upstreamVars

Contract == INSTANCE UpstreamContract
  WITH Ids <- Ids, Threshold <- spoof_threshold_, outcome <- outcome,
       open <- [i \in DOMAIN pending_ |->
                  [tcp |-> pending_[i].tcp, match_case |-> pending_[i].match_case]]

\* The client keeps its contract with the resolver: one callback per query at
\* most, none from inside send() or after cancel(), and no result the resolver
\* is not prepared for (SpoofSuspected over TCP, CaseMismatch without 0x20); and a
\* server that only ever answers in the wrong case is reported as such.
KeepsContract == Contract!Spec /\ CaseReported

----------------------------------------------------------------------------
(* Why NothingLeaks and KeepsContract hold *)

\* What arrives for a query goes when the query does.
InboxExact ==
  /\ DOMAIN inbox = DOMAIN pending_
  /\ \A i \in DOMAIN pending_ : inbox[i] \in Seq(Arrivals(pending_[i].tcp))

\* A reply in the wrong case answers a query that does not match case.
WrongCaseExact ==
  \A i \in DOMAIN pending_ : pending_[i].wrong_case_seen => pending_[i].match_case

\* No id is used twice.
OutcomeOver == outcome # <<>> => outcome[1] \notin DOMAIN pending_

UpstreamInv == NothingLeaks /\ InboxExact /\ WrongCaseExact /\ OutcomeOver
============================================================================
