SPECIFICATION ResultsSpec
CONSTANTS
  Players = {p1, p2}
  Options = {a, b}
  MaxPoints = 3
  Limit = 4
  Late = 1
  TiesUp <- SomeTies
  Totals = {0, 1}
  PodiumSize = 1
INVARIANTS
  TypeOK
  WorthIsFair
  RankAgreesWithHistory
  
CHECK_DEADLOCK FALSE
