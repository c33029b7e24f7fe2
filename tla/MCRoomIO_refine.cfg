SPECIFICATION FairSpec
CONSTANTS
  Players = {p1}
  Hosts = {h1}
  NoHost = NoHost
  Quizzes <- OneQuestion
  Awards = {1}
  NoAnswer = NoAnswer
  DBMayFail = TRUE
  RegisterCap = 1
  InboundCap = 1
  Types <- AllTypes
  MaxSent = 1
INVARIANTS
  TypeOK
  
PROPERTIES
  ImplementsRoom
  NothingHangs
  QuestionEnds
CHECK_DEADLOCK FALSE
