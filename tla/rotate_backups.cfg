SPECIFICATION Spec
CONSTANTS
  MaxGen = 2
  Keeps = {0, 1, 2, 3}
  MaxRotation = 3
  MaxCrash = 2
INVARIANT TypeOK
INVARIANT NothingDropped
INVARIANT NewestFirst
CHECK_DEADLOCK FALSE
