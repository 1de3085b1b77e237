SPECIFICATION Spec
CONSTANTS
  BlockSize = 4
  StartSize = 2
  Outputs <- MultipleOutputs
INVARIANT WriteErrorsReal
CHECK_DEADLOCK FALSE
