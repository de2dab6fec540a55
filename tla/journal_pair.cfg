SPECIFICATION Spec
CONSTANTS
  Editors = {p, q}
  Answers = {"recover", "discard", "as is"}
  Meddling = {"touch"}
  Places <- AtHome
  MaxClock = 3
  MaxLog = 2
  MaxLeave = 1
  MaxMeddle = 1
  p = p
  q = q
INVARIANT OneOwner
CHECK_DEADLOCK FALSE
