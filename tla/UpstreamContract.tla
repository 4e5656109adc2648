-------------------------- MODULE UpstreamContract --------------------------
(***************************************************************************)
(* What UpstreamClient promises the resolver (upstream.h, the comments on  *)
(* send(), cancel() and UpstreamError): a query that was sent ends with    *)
(* one callback, later than send() itself, or is cancelled, or goes with   *)
(* the client; and which results are possible for which queries.  The      *)
(* guards of module Resolver's on_response() are the ones of Reportable.   *)
(***************************************************************************)
CONSTANTS Ids, Threshold

VARIABLES
  open,    \* queries sent, and not called back, cancelled or dropped: id -> how it was sent
  outcome  \* the last callback: <<id, result>>, or <<>> after any other step

Init == open = [i \in {} |-> {}] /\ outcome = <<>>

Send(i, tcp, match_case) ==
  /\ i \notin DOMAIN open
  /\ open' = [j \in DOMAIN open \cup {i} |->
                IF j = i THEN [tcp |-> tcp, match_case |-> match_case] ELSE open[j]]
  /\ outcome' = <<>>

Without(i) == [j \in DOMAIN open \ {i} |-> open[j]]

Reportable(i) ==
  {"Message", "Timeout", "NetworkError"}
    \cup (IF open[i].match_case THEN {"CaseMismatch"} ELSE {})
    \cup (IF open[i].tcp \/ Threshold = 0 THEN {} ELSE {"SpoofSuspected"})

Report(i) ==
  /\ i \in DOMAIN open
  /\ \E r \in Reportable(i) : outcome' = <<i, r>>
  /\ open' = Without(i)

Cancel(i) == open' = Without(i) /\ outcome' = <<>>

Drop == open' = [i \in {} |-> {}] /\ outcome' = <<>>

Next ==
  \/ \E i \in Ids, tcp, match_case \in BOOLEAN : Send(i, tcp, match_case)
  \/ \E i \in Ids : Report(i) \/ Cancel(i)
  \/ Drop

Spec == Init /\ [][Next]_<<open, outcome>>
============================================================================
