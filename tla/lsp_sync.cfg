SPECIFICATION Spec
CONSTANTS
  Texts <- Lines
  Inserts <- Typed
  PendingMax = 2
  Tries = 2
  MaxLen = 3
  MaxEdits = 3
  MaxAsks = 1
  MaxUpsets = 1
  MaxStops = 0
CHECK_DEADLOCK FALSE
INVARIANT TypeOK
INVARIANT LspMirror
INVARIANT AnswerFresh
