SPECIFICATION Spec
CONSTANTS
  Texts <- Letter
  Inserts <- Typed
  PendingMax = 1
  Tries = 2
  MaxLen = 1
  MaxEdits = 1
  MaxAsks = 0
  MaxUpsets = 2
  MaxStops = 1
CHECK_DEADLOCK FALSE
PROPERTY CallsEnd
PROPERTY ServerBack
PROPERTY TextArrives
