SPECIFICATION Spec
CONSTANTS
  q1 = q1
  q2 = q2
  Ids = {q1, q2, q3}
  Texts = {"a", "b"}
  MinOptions = 2
  MaxOptions = 3
  Originals <- MCOriginals
  Titles = {"t", "u", ""}
  Blurbs = {"x", "y"}
  Empty = ""
  Acts = {"select", "edit", "delete", "add", "drag", "title", "view", "settings", "publish", "leave"}
  MaxActs = 3
  MaxFlight = 2
  None = None
  Sent = Sent
INVARIANTS
  TypeOK
  SavesAreValid
  ContentsStayApart
  QuietPageIsSaved
  CacheConverges
CHECK_DEADLOCK FALSE
