SPECIFICATION TcpFairSpec
CONSTANTS
  busy = busy
  idle = idle
  client = client
  Queries = 2
  Conns <- MCConns
  ClientOf <- MCClientOf
  Kinds = {"sync", "async", "drop", "bad"}
  MaxSent <- MCMaxSent
  kMaxPipelined = 2
  kMaxUnsent = 1
  max_connections = 2
  max_per_client = 1
CHECK_DEADLOCK FALSE
PROPERTIES
  IdleConnectionsClosed
