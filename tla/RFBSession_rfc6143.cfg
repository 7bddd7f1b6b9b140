SPECIFICATION SessionSpec
CONSTANTS
  CLI = FALSE
  Password = TRUE
  RequestedFormatUsable = TRUE
  ServerVersions <- MCServerVersions
  AuthResults = {0, 1, 2}
  Encodings <- MCEncodings
  ServerUses <- MCServerUses
  Widths = {1, 2}
  Lengths = {0, 2}
  Bypp = 2
  MemoryErrors = FALSE
  MaxTiles = 2
  Chunks = {1, 12}
  MaxPacket = 24
  MaxRects = 2
  MaxStream = 2
INVARIANTS FramingAgreed RequestOutstanding RefreshPainted ServerUnderstood
PROPERTIES HandshakeCompletes RefreshCompletes
CHECK_DEADLOCK FALSE
