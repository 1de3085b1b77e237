SPECIFICATION Spec
CONSTANTS
  HeaderSize = 9
  TagSize = 11
  PrevTagSize = 4
  FourccSize = 4
  BufferSizes <- MCBufferSizes
  Files <- AnyFiles
  Contents <- AnyContents
INVARIANTS StreamInv BoundariesKept
PROPERTY TagsAdvance
CHECK_DEADLOCK FALSE
