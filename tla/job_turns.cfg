SPECIFICATION SpecEnds
CONSTANTS
  Plan <- Pair
  TableMax = 1
INVARIANT FilterWhole
PROPERTY NoLostWakeup
PROPERTY FilterReturns
PROPERTY QuitReturns
CHECK_DEADLOCK FALSE
