SPECIFICATION Spec
CONSTANTS
  Editors = {p}
  Answers = {"recover", "discard", "as is"}
  Meddling = {"replace", "rewrite"}
  Places <- Anywhere
  MaxClock = 4
  MaxLog = 2
  MaxLeave = 2
  MaxMeddle = 1
  p = p
INVARIANT TypeOK
INVARIANT EvidenceKept
INVARIANT FoundByName
PROPERTY NeverMadeUp
CHECK_DEADLOCK FALSE
