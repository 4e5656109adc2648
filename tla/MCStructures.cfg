SPECIFICATION Spec
CONSTANTS
  list1 = list1
  list2 = list2
  Clients = {client1, client2}
  Servers = {server1, server2}
  MaxRules = 3
  Rtts = {1, 7}
  Ceilings = {0, 1, 4}
  TicksPerMs = 2
  kUnmeasured = 3
  kTimeoutPenalty = 3
  kMaxSrtt = 6
  kMaxFailures = 2
  kMinTimeout = 2
  kForgetAfter = 1
  kPruneEvery = 2
  PartsPerToken = 2
  PartsPerTick = 1
  burst = 2
  max_clients = 1
  Cap = 1
  slip = 2
  max_entries = 1
  window_ = 2
  action = "Refuse"
  Second = 2
  MaxClock = 6
  MaxResolving = 1
  kMaxPointerOffset = 7
  kMaxPointerJumps = 3
  kMaxNameWireLength = 4
  MaxQuestions = 2
  MaxRecords = 3
  Sizes = {8, 12, 100}
  MaxCells = 5
  ByteBits = 2
  V4Bytes = 2
  MaxSubnets = 1
SYMMETRY StructuresSymmetry
INVARIANTS
  LookupCorrect
  ForgettingInvisible
  FloodBounded
  RoundTrip
  TruncationHonest
  ReadsSound
  AclExact
PROPERTIES
  SelectionSound
CHECK_DEADLOCK FALSE
