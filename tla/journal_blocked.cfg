SPECIFICATION Spec
CONSTANTS
  Editors = {p}
  Answers = {"recover", "discard"}
  Meddling = {"replace", "rewrite"}
  Places <- AtHome
  MaxClock = 4
  MaxLog = 2
  MaxLeave = 2
  MaxMeddle = 1
  p = p
INVARIANT NeverBlocked
CHECK_DEADLOCK FALSE
