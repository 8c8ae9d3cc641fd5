CONSTANTS
  MaxLength = 2
  Byte = {1}
  Ops <- UntilTimeoutAbortOps
  Overlap = FALSE
  Careful = FALSE
  Paced = TRUE
SPECIFICATION Spec
PROPERTY CompletionHasReceive
