------------------------------- MODULE MCLoop -------------------------------
(* The event loop, with two descriptors, or the UDP listener, with a query    *)
(* with EDNS to one address of the host, one without to another, and a        *)
(* response: listeners follow one another while the first one's responders    *)
(* are still held, and two descriptor numbers take turns.  A behaviour is     *)
(* about one of the two; the other stays in its initial state, where its      *)
(* fairness asks nothing.                                                     *)
EXTENDS MCEventLoop, UdpListener

CONSTANTS
  alice, bob, here, there,
  MaxMade   \* bound: registrations and timers ever made, together

MCDatagrams ==
  {[peer |-> alice, local |-> here, kind |-> "query", edns |-> 5],
   [peer |-> bob, local |-> there, kind |-> "query", edns |-> NoEdns],
   [peer |-> bob, local |-> there, kind |-> "response", edns |-> NoEdns]}

VARIABLE subject

MCVars == <<vars, udpVars, subject>>

MCInit == subject \in {"event loop", "UDP listener"} /\ Init /\ UdpInit

FewMade == next_token_ + next_timer_id_ <= MaxMade + 2

MCNext ==
  /\ UNCHANGED subject
  /\ \/ subject = "event loop" /\ Next /\ FewMade' /\ UNCHANGED udpVars
     \/ subject = "UDP listener" /\ UdpNext /\ UNCHANGED vars

MCSpec == MCInit /\ [][MCNext]_MCVars /\ LoopFairness
=============================================================================
