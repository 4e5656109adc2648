SPECIFICATION Spec
CONSTANTS
  key1 = key1
  key2 = key2
  key3 = key3
  shardA = shardA
  None = None
  Keys <- MCKeys
  Shards = {shardA}
  ShardOf <- MCShardOf
  Threads = {thread1, thread2}
  Trusts = {1, 2}
  Ttls = {0, 2}
  Sizes = {1, 3}
  min_ttl = 0
  max_ttl = 1
  shard_budget_ = 2
  TicksPerSecond = 2
  MaxTime = 2
SYMMETRY MCSymmetry
INVARIANTS
  ShardConsistent
  ServedFresh
PROPERTIES
  EvictsLeastRecent
  TrustKept
