SPECIFICATION Spec
CONSTANTS
  Byte = {1}
  MaxNodes = 4
  MaxOps = 3
  MaxText = 2
  MaxNest = 2
  MinNodes = 1
  Whys = {"PASTE"}
  EmptyTxn = TRUE
INVARIANT ChainUnbroken
