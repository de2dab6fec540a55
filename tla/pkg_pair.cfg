SPECIFICATION Spec
CONSTANTS
  Names = {vim}
  Procs = {1, 2, 3}
  Alone = FALSE
  MaxFaults = 0
  MaxUpsets = 0
CHECK_DEADLOCK FALSE
INVARIANT AllOrNothing
