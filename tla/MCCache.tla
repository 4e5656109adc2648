------------------------------ MODULE MCCache ------------------------------
(* Two threads, and three keys that compete for the memory of one shard. *)
EXTENDS Cache, TLC

CONSTANTS key1, key2, key3, shardA

MCKeys == {key1, key2, key3}
MCShardOf == [k \in MCKeys |-> shardA]

MCSymmetry == Permutations(MCKeys) \cup Permutations(Threads)
============================================================================
