CONSTANTS
  MaxLength = 2
  Byte = {1}
  Ops <- UntilTimeoutOps
  Overlap = TRUE
  Careful = TRUE
  Paced = TRUE
SPECIFICATION Spec
PROPERTY ReceiveEnds
