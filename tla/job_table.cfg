SPECIFICATION Spec
CONSTANTS
  Plan <- Crowd
  TableMax = 2
INVARIANT TypeOK
INVARIANT NoOrphan
INVARIANT NoOwnerLost
PROPERTY KeepsPromise
PROPERTY VerdictKept
CHECK_DEADLOCK FALSE
