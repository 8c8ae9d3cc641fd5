CONSTANTS
  MaxLength = 2
  Byte = {1}
  Ops <- PlainReceiveOps
  Overlap = TRUE
  Careful = TRUE
  Paced = TRUE
SPECIFICATION Spec
PROPERTY RefusedCallLeavesCount
