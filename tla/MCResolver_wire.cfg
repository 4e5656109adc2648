SPECIFICATION SelfLimitedSpec
CONSTANTS
  www = www
  corp = corp
  dns1 = dns1
  root = root
  s1 = s1
  s2 = s2
  None = None
  Clients = {c1}
  Questions <- WireQuestions
  TaskIds <- WireTasks
  Queries <- MCQueries
  MaxUpstreamQueries = 4
  Names <- MCNames
  Root = root
  Above <- MCAbove
  Addresses <- MCAddresses
  Types <- MCTypes
  Messages <- WireMessages
  RootNs <- MCRootNs
  RootServers <- MCAddresses
  Stubs <- MCStubs
  MaxReferralDepth = 1
  MaxCnameChain = 2
  MaxGluelessNs = 1
  Use0x20 = TRUE
  SpoofTcpThreshold = 1
  kMaxSubqueryDepth = 1
  kMaxRetryRounds = 1
  HopWrap = 4
INVARIANTS
  QueryIsCurrent
PROPERTIES
  OnlyTimedOutRetried
  EveryoneAnswered
