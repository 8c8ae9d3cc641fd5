CONSTANTS
  MaxLength = 3
  Byte = {1}
  Ops <- AllOps
  Overlap = TRUE
  Careful = FALSE
  Paced = FALSE
SPECIFICATION Spec
INVARIANTS TypeOK CountFits
