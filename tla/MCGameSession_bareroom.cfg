SPECIFICATION Spec
CONSTANTS
  Sessions = {s1}
  Joins = {}
  Resumes = {r1}
  Users = {}
  Guest = Guest
  Codes = {k1}
  NoCode = NoCode
  Conns = {c1}
  None = None
  DBMayFail = FALSE
PROPERTIES
  ResumeRestoresRoom
CHECK_DEADLOCK FALSE
