SPECIFICATION Spec
CONSTANTS
  Players = {p1, p2, p3}
  Hosts = {h1}
  NoHost = NoHost
  Quizzes <- OneQuestion
  Awards = {1}
  NoAnswer = NoAnswer
  DBMayFail = FALSE
INVARIANTS
  SendAlwaysReturns
CHECK_DEADLOCK FALSE
