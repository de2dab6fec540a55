SPECIFICATION Spec
CONSTANTS
  MaxInode = 6
  MaxTick = 7
  MaxMeddle = 2
  MaxSave = 1
  MaxCrash = 1
  Strategies = {"auto", "atomic", "inplace"}
  Checks = {"off", "mtime", "content"}
  Forces = {FALSE, TRUE}
  Keeps = {0, 1}
  Pinning = TRUE
INVARIANT TypeOK
INVARIANT NoVisibleChangeLost
INVARIANT HardlinksKept
PROPERTY OkIsDurable
PROPERTY ImplementsAtomicFile
CHECK_DEADLOCK FALSE
