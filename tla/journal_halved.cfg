SPECIFICATION Spec
CONSTANTS
  Editors = {p}
  Answers = {"recover", "discard"}
  Meddling = {"replace", "rewrite"}
  Places <- Anywhere
  MaxClock = 4
  MaxLog = 2
  MaxLeave = 2
  MaxMeddle = 1
  p = p
INVARIANT AlwaysBased
CHECK_DEADLOCK FALSE
