SPECIFICATION Spec
CONSTANTS
  Texts <- Letter
  Inserts <- Typed
  PendingMax = 1
  Tries = 2
  MaxLen = 1
  MaxEdits = 0
  MaxAsks = 0
  MaxUpsets = 2
  MaxStops = 2
CHECK_DEADLOCK FALSE
PROPERTY StopEnds
