SPECIFICATION MCSpec
CONSTANTS
  shop = shop
  tracker = tracker
  local = local
  NumFiles = 2
  Fragile = {1}
  Polling = TRUE
  MaxVersion = 2
  Names <- MCNames
  NoName = NoName
  Lists <- MCLists
  Answers <- MCAnswers
  ExemptNames = {local}
  check_cname_chain = TRUE
  DenyActions = {"Refuse", "Drop"}
INVARIANTS
  NoChangeMissed
PROPERTIES
  Converges
  AnswersVetted
