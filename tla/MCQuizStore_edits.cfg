SPECIFICATION FairSpec
CONSTANTS
  q1 = q1
  q2 = q2
  Questions = {q1, q2, q3}
  Earlier <- TwoQuestions
  Updates = {u1, u2}
  Deletes = {d1}
  Reorders = {r1, r2}
  Publishes = {p1}
  Copies = {c1}
  Shift = 1000000
  Forms <- FewForms
  MaxRequests = 3
  None = None
INVARIANTS
  TypeOK
  QuestionsStayWhole
  LastReorderHolds
PROPERTIES
  EditsKeepToTheirFields
  RequestsEnd
CHECK_DEADLOCK FALSE
