SPECIFICATION Spec
CONSTANTS
  Sessions = {s1, s2}
  Joins = {j1, j2}
  Resumes = {r1}
  Users = {u1}
  Guest = Guest
  Codes = {k1}
  NoCode = NoCode
  Conns = {c1, c2}
  None = None
  DBMayFail = TRUE
SYMMETRY Symmetry
INVARIANTS
  TypeOK
  NoLiveRoomForFinished
  RoomsMatchRows
PROPERTIES
  ImplementsSessionLife
CHECK_DEADLOCK FALSE
