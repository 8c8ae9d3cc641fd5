CONSTANTS
  MaxLength = 3
  Byte = {1}
  Ops <- AllOps
  Overlap = FALSE
  Careful = TRUE
  Paced = TRUE
SPECIFICATION Spec
INVARIANT SilenceEndsReceive
PROPERTIES KeepsContract ReceiveEnds
