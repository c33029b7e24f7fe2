SPECIFICATION Spec
CONSTANTS
  q1 = q1
  q2 = q2
  Ids = {q1, q2, q3}
  Texts = {"a", "b"}
  MinOptions = 2
  MaxOptions = 3
  Originals <- MCOriginals
  Titles = {"t", "u", ""}
  Blurbs = {"x", "y"}
  Empty = ""
  Acts = {"edit"}
  MaxActs = 2
  MaxFlight = 2
  None = None
  Sent = Sent
INVARIANTS
  StableDraftIsFlushed
CHECK_DEADLOCK FALSE
