CONSTANTS
  MaxLength = 2
  Byte = {1}
  Ops <- UntilTimeoutTransmitOps
  Overlap = FALSE
  Careful = FALSE
  Paced = TRUE
SPECIFICATION Spec
PROPERTY ErrorIsError
