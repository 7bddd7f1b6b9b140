SPECIFICATION Spec
CONSTANTS
  Conns = {c1, c2, c3}
  Modes <- AllModes
  MaxEvents = 2
INVARIANTS OneSession ClaimHeld RecordingComplete StatusTellsArchive
PROPERTIES RunEnds
CHECK_DEADLOCK FALSE
