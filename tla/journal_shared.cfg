SPECIFICATION Spec
CONSTANTS
  Editors = {p, q}
  Answers = {"recover", "discard", "as is"}
  Meddling = {}
  Places <- AtHome
  MaxClock = 3
  MaxLog = 2
  MaxLeave = 1
  MaxMeddle = 0
  p = p
  q = q
INVARIANT FoundByName
CHECK_DEADLOCK FALSE
