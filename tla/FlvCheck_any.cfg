SPECIFICATION Spec
CONSTANTS
  HeaderSize = 3
  TagSize = 2
  PrevTagSize = 1
  ExtRange = 16
  ExtCount = 2
  WrapGap = 13
  Second = 2
  LargeBody = 5
  LargeFile = 12
  Files <- MCFiles
  CheckOptions <- MCOptions
INVARIANTS CheckInv  FatalEnds DecreaseReported FormatsCompared DesyncOnce FirstMetaDataChecked KeyframesTrusted
CHECK_DEADLOCK FALSE
