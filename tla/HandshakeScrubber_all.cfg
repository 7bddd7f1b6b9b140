SPECIFICATION Spec
CONSTANTS
  Versions = {3, 7, 8}
  Offers <- AllOffers
  Decisions <- AllDecisions
  KeyLens = {2}
  NameLens = {0, 2}
  MaxSession = 1
  Chunks = {1, 13, 200}
INVARIANTS Synchronised Stripped RecordsSession DroppedOnlyIfUnfollowable
CHECK_DEADLOCK FALSE
