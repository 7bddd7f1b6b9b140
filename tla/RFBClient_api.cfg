SPECIFICATION Spec
CONSTANTS
  CLI = FALSE
  Password = FALSE
  RequestedFormatUsable = TRUE
  ServerVersions <- MCServerVersions
  AuthResults = {0, 1, 2, 3}
  Encodings <- AllEncodings
  Widths = {0, 1}
  Lengths = {0, 2}
  Bypp = 1
  MemoryErrors = TRUE
  MaxTiles = 2
  Chunks = {1, 12}
  MaxPacket = 24
INVARIANTS TypeOK RectangleOwed
PROPERTIES AbortIsFinal ClosingIsReported MadeBeforeFailure CallReturns
CHECK_DEADLOCK FALSE
