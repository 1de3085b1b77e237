SPECIFICATION BodySpec
CONSTANTS
  Base = 17
  LengthBytes = 1
  CountBytes = 2
  NumberBytes = 2
  ZoneBytes = 1
  MaxDepth = 40
  Word = 1048576
  Inputs <- MCInputs
  Pictures <- MCPictures
INVARIANT InterlacedMeant
