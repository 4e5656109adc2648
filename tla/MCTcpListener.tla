--------------------------- MODULE MCTcpListener ---------------------------
(* A busy connection, and an idle one of the same client that competes with *)
(* it for room.                                                              *)
EXTENDS TcpListener

CONSTANTS busy, idle, client, Queries   \* queries the busy client sends

MCConns == {busy, idle}
MCClientOf == [c \in MCConns |-> client]
MCMaxSent == [c \in MCConns |-> IF c = busy THEN Queries ELSE 0]

TcpFairSpec == TcpSpec /\ TcpFairness
============================================================================
