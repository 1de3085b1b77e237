SPECIFICATION Spec
CONSTANTS
  Inputs <- MCInputs
  Options <- MCOptions
  HeaderSize = 9
  TagSize = 11
  PrevTagSize = 4
  LengthRange = 16777216
  MetaSizes = {300}
  KeyframeSize = 18
  LastBody = 23
  ExtRange = 16777216
  ExtCount = 4
  WrapGap = 15728640
  LastSecond = 1000
  RoundsDown <- RoundingTimes
INVARIANTS UpdateInv FilesizeExact DatasizeExact FilepositionsExact WellFormed NothingLost TimesAgree LastSecondPlaced ErrorsStop
CHECK_DEADLOCK FALSE
