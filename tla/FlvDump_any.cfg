SPECIFICATION DumpSpec
CONSTANTS
  HeaderSize = 9
  TagSize = 11
  PrevTagSize = 4
  FourccSize = 4
  BufferSizes <- MCBufferSizes
  Files <- MCFiles
  Contents <- MCContents
  MaxDepth = 5
  Requests <- MCRequests
  BestWidth = 5
  BestIndent = 2
  SimpleKeyLength = 3
INVARIANTS JsonReadsBack XmlWellFormed YamlReadsBack AllTagsDumped InOrder AskedDumped
PROPERTY Terminates
