SPECIFICATION Spec
CONSTANTS
  Byte = {1}
  MaxNodes = 4
  MaxOps = 3
  MaxText = 2
  MaxNest = 2
  MinNodes = 1
  Whys = {"PASTE"}
  EmptyTxn = FALSE
INVARIANT TypeOK
INVARIANT ChainUnbroken
INVARIANT TextOfNode
INVARIANT SavePointHonest
INVARIANT SlicesApart
PROPERTY AbortLeavesNoTrace
