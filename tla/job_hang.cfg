SPECIFICATION Spec
CONSTANTS
  Plan <- Alone
  TableMax = 1
PROPERTY FilterReturns
CHECK_DEADLOCK FALSE
