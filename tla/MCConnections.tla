--------------------------- MODULE MCConnections ---------------------------
(* The TCP listener or the upstream client: a behaviour is about one of them, *)
(* and the other stays in its initial state, where its fairness asks nothing. *)
EXTENDS MCTcpListener, Upstream

VARIABLE subject

vars == <<tcpVars, upstreamVars, subject>>

Init == subject \in {"TCP listener", "upstream client"} /\ TcpInit /\ UpstreamInit

Next ==
  /\ UNCHANGED subject
  /\ \/ subject = "TCP listener" /\ TcpNext /\ UNCHANGED upstreamVars
     \/ subject = "upstream client" /\ UpstreamNext /\ UNCHANGED tcpVars

Spec == Init /\ [][Next]_vars /\ TcpFairness /\ UpstreamFairness
============================================================================
