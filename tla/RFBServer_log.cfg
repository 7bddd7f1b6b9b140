SPECIFICATION Spec
CONSTANTS
  Kinds <- AllKinds
  Auths = {"none", "vnc", "ard"}
  Versions <- MCVersions
  PasswordOptions <- AnyFlag
  MaxMessages = 2
  MaxEncodings = 5
  ArdReply = 18
  Chunks = {1, 4}
INVARIANTS LogFaithful LagBounded
PROPERTIES ForwardsWhileFollowed
CHECK_DEADLOCK FALSE
