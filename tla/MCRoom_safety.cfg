SPECIFICATION Spec
CONSTANTS
  Players = {p1, p2}
  Hosts = {h1}
  NoHost = NoHost
  Quizzes <- TwoQuestions
  Awards = {0, 1}
  NoAnswer = NoAnswer
  DBMayFail = FALSE
SYMMETRY PlayerSymmetry
INVARIANTS
  TypeOK
  TimerFollowsQuestion
  
  RowsExplainScores
PROPERTIES
  AutoFinishExact
  GameMovesForward
  AnswersCountOnce
CHECK_DEADLOCK FALSE
