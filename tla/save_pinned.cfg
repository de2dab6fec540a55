SPECIFICATION Spec
CONSTANTS
  MaxInode = 6
  MaxTick = 7
  MaxMeddle = 1
  MaxSave = 1
  MaxCrash = 1
  Strategies = {"auto"}
  Checks = {"mtime"}
  Forces = {TRUE}
  Keeps = {1}
  Pinning = TRUE
PROPERTY HardlinksKeptOverAnother
CHECK_DEADLOCK FALSE
