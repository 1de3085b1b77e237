SPECIFICATION Spec
CONSTANTS
  Nodes = {n1, n2, n3, n4, n5}
  NULL = NULL
  v1 = v1
  v2 = v2
  Names <- MCNames
  Values <- MCValues
  Unclonable <- NoValues
  MaxOriginal = 2
  InsertAtEnds = FALSE
INVARIANTS Linked MergeRight PreservedAll
PROPERTY ArraysAndObjects
CHECK_DEADLOCK FALSE
