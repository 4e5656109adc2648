-------------------------- MODULE MCQueryProcessor --------------------------
(* A block list and an allow list of two versions each, over a shop's name,   *)
(* a tracker's, and a local one that is exempt from the rebinding check.      *)
EXTENDS QueryProcessor, TLC

CONSTANTS shop, tracker, local

MCNames == {shop, tracker, local}
Blocked == <<{tracker}, {shop, tracker}>>
Allowed == <<{}, {shop}>>

MCLists ==
  [v \in [1..2 -> 1..2] |-> [name \in MCNames |->
     IF name \in Allowed[v[2]] THEN "allow" ELSE IF name \in Blocked[v[1]] THEN "block" ELSE "no"]]

\* Aliases: none, to the tracker at once or behind a local name, or in a loop.
MCAliases ==
  LET Alias(s, t, l) == shop :> s @@ tracker :> t @@ local :> l
  IN  {Alias(NoName, NoName, NoName), Alias(tracker, NoName, NoName),
       Alias(local, NoName, tracker), Alias(local, NoName, shop), Alias(local, local, tracker)}

MCAnswers == [alias : MCAliases, addresses : SUBSET {"public", "private"}]

VARIABLE asking   \* this behaviour has queries in it

\* The lists alone go through every change; under queries a file is changed at most
\* MaxVersion - 1 times, and once removed it stays so.
Slowly ==
  /\ UNCHANGED locked
  /\ \A f \in Files : files'[f] \in {0, files[f]} \/ (0 < files[f] /\ files[f] < files'[f])

MCInit == Init /\ asking \in BOOLEAN

MCNext ==
  /\ UNCHANGED asking
  /\ \/ asking /\ Next /\ Slowly
     \/ ~asking /\ ListsStep

MCSpec == MCInit /\ [][MCNext]_<<vars, asking>> /\ Fairness
============================================================================
