SPECIFICATION FairSpec
CONSTANTS
  alice = alice
  bob = bob
  here = here
  Datagrams <- MCDatagrams
  Questions = {"q"}
  Sockets = {s1}
  FdNumbers = {f1}
  kMaxPacketsPerWakeup = 2
  kClassicUdpSize = 2
  max_response_size = 2
  NoEdns = NoEdns
  None = None
INVARIANTS
  LifetimesNested
PROPERTIES
  AnsweredAsAsked
  NothingStarves
CHECK_DEADLOCK FALSE
