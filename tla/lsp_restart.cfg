SPECIFICATION Spec
CONSTANTS
  Texts <- Letter
  Inserts <- Typed
  PendingMax = 1
  Tries = 2
  MaxLen = 2
  MaxEdits = 0
  MaxAsks = 0
  MaxUpsets = 1
  MaxStops = 0
CHECK_DEADLOCK FALSE
INVARIANT RestartTries
