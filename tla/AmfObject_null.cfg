SPECIFICATION Spec
CONSTANTS
  Nodes = {n1, n2, n3, n4}
  NULL = NULL
  v1 = v1
  v2 = v2
  Names <- TwoNames
  Values <- MCValues
  Unclonable <- NullValues
  MaxOriginal = 2
  InsertAtEnds = FALSE
INVARIANT PreservedAll
CHECK_DEADLOCK FALSE
