SPECIFICATION Spec
CONSTANTS
  www = www
  corp = corp
  dns1 = dns1
  root = root
  s1 = s1
  s2 = s2
  None = None
  Clients = {c1}
  Questions <- WalkQuestions
  TaskIds <- WalkTasks
  Queries <- MCQueries
  MaxUpstreamQueries = 3
  Names <- MCNames
  Root = root
  Above <- MCAbove
  Addresses <- MCAddresses
  Types <- MCTypes
  Messages <- WalkMessages
  RootNs <- MCRootNs
  RootServers <- MCRootServers
  Stubs <- MCNoStubs
  MaxReferralDepth = 1
  MaxCnameChain = 2
  MaxGluelessNs = 1
  Use0x20 = FALSE
  SpoofTcpThreshold = 0
  kMaxSubqueryDepth = 2
  kMaxRetryRounds = 1
  HopWrap = 4
INVARIANTS
  NameInZone
  AncestryCurrent
  ChainBounded
  AnswersTheQuestion
PROPERTIES
  BailiwickRespected
