SPECIFICATION MCSpec
CONSTANTS
  Fds = {1, 2}
  TicksPerMs = 2
  INT_MAX = 1
  Delays = {0, 3}
  MaxTime = 3
  MaxTokens = 3
  MaxTimers = 2
  MaxMade = 3
  alice = alice
  bob = bob
  here = here
  there = there
  Datagrams <- MCDatagrams
  Sockets = {s1, s2}
  FdNumbers = {f1, f2}
  kMaxPacketsPerWakeup = 2
  kClassicUdpSize = 2
  max_response_size = 4
  NoEdns = NoEdns
  None = None
INVARIANTS
  RepliesExact
PROPERTIES
  NoStaleEvent
  RoundsAreExact
  StopHonoured
  TimersFire
