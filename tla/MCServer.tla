------------------------------ MODULE MCServer ------------------------------
(* Two clients that ask the same, spelled differently, and a response.        *)
EXTENDS Server

CONSTANTS alice, bob, here

MCDatagrams ==
  {[peer |-> alice, local |-> here, kind |-> "query", edns |-> 2, id |-> 1,
    question |-> "q", spelled |-> "q"],
   [peer |-> bob, local |-> here, kind |-> "query", edns |-> NoEdns, id |-> 2,
    question |-> "q", spelled |-> "Q"],
   [peer |-> bob, local |-> here, kind |-> "response", edns |-> NoEdns, id |-> 2,
    question |-> "q", spelled |-> "q"]}
============================================================================
