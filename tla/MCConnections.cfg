SPECIFICATION Spec
CONSTANTS
  busy = busy
  idle = idle
  client = client
  Queries = 4
  Conns <- MCConns
  ClientOf <- MCClientOf
  Kinds = {"sync", "async", "drop", "bad"}
  MaxSent <- MCMaxSent
  kMaxPipelined = 2
  kMaxUnsent = 1
  max_connections = 2
  max_per_client = 1
  MaxQueries = 2
  MaxInbox = 2
  spoof_threshold_ = 2
CHECK_DEADLOCK FALSE
INVARIANTS
  LimitsExact
  NoneStranded
  NothingLeaks
PROPERTIES
  HalfCloseAnswered
  EveryConnectionEnds
  KeepsContract
  EveryQueryEnds
