SPECIFICATION Spec
CONSTANTS
  Names = {vim}
  Procs = {1, 2, 3}
  Alone = TRUE
  MaxFaults = 2
  MaxUpsets = 1
CHECK_DEADLOCK FALSE
INVARIANT TypeOK
INVARIANT AllOrNothing
INVARIANT RecoveryWorks
INVARIANT LiveOnlyAsked
