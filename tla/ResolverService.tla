-------------------------- MODULE ResolverService --------------------------
(***************************************************************************)
(* What RecursiveResolver promises the callers of resolve(), with nothing  *)
(* of how (recursive_resolver.h, the comments on resolve() and on the      *)
(* destructor): a client that asks is called back once, with the outcome   *)
(* of every other client waiting for the same question at that moment.     *)
(* Callbacks may ask again and may destroy the resolver, which drops the   *)
(* callbacks of all but those already due.                                 *)
(***************************************************************************)
CONSTANTS Clients, Questions, None

VARIABLES
  waiting,   \* [Clients -> Questions or None]: the question awaiting its callback
  due        \* clients whose outcome is known, and who are called back next

Init == waiting = [c \in Clients |-> None] /\ due = {}

Ask(c, q) ==
  /\ waiting[c] = None
  /\ waiting' = [waiting EXCEPT ![c] = q]
  /\ UNCHANGED due

\* One outcome for everyone who asked q.
Answer(q) ==
  /\ due = {}
  /\ due' = {c \in Clients : waiting[c] = q}
  /\ UNCHANGED waiting

CallBack(c) ==
  /\ c \in due
  /\ waiting' = [waiting EXCEPT ![c] = None]
  /\ due' = due \ {c}

Abandon ==
  /\ waiting' = [c \in Clients |-> IF c \in due THEN waiting[c] ELSE None]
  /\ UNCHANGED due

Next ==
  \/ \E c \in Clients, q \in Questions : Ask(c, q)
  \/ \E q \in Questions : Answer(q)
  \/ \E c \in Clients : CallBack(c)
  \/ Abandon

Spec == Init /\ [][Next]_<<waiting, due>>
============================================================================
