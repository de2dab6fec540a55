SPECIFICATION Spec
CONSTANTS
  MaxInode = 7
  MaxTick = 8
  MaxMeddle = 1
  MaxSave = 2
  MaxCrash = 1
  Strategies = {"auto"}
  Checks = {"mtime"}
  Forces = {FALSE}
  Keeps = {1}
  Pinning = TRUE
INVARIANT Recoverable
INVARIANT BackupIsExact
CHECK_DEADLOCK FALSE
