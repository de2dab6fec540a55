SPECIFICATION Spec
CONSTANTS
  Editors = {p}
  Answers = {"recover", "discard"}
  Meddling = {"touch"}
  Places <- AtHome
  MaxClock = 5
  MaxLog = 2
  MaxLeave = 2
  MaxMeddle = 1
  p = p
INVARIANT EvidenceKept
CHECK_DEADLOCK FALSE
