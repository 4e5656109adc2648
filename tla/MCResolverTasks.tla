-------------------------- MODULE MCResolverTasks --------------------------
(* Three clients, two questions, four tasks: joins, sub-queries two         *)
(* deep, and deadlines that strike at every point of them.                  *)
EXTENDS ResolverTasks, TLC

MCTaskIds == 1..4

ClientSymmetry == Permutations(Clients)

============================================================================
