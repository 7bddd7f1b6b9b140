SPECIFICATION Spec
CONSTANTS
  Versions = {3, 7, 8}
  Types <- AllTypes
  KeyLens = {0, 2}
  NameLens = {0, 2}
  Kinds <- AllKinds
  MaxMessages = 1
  MaxConns = 2
  Forever <- AnyFlag
  Chunks = {1}
INVARIANTS ClientInStep ServedOnRequest
PROPERTIES ReplayCompletes
CHECK_DEADLOCK FALSE
