SPECIFICATION Spec
CONSTANTS
  BlockSize = 4
  StartSize = 2
  Outputs <- MCOutputs
INVARIANTS InputIntact CompleteOnSuccess InPlaceInv
CHECK_DEADLOCK FALSE
