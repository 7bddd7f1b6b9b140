SPECIFICATION Spec
CONSTANTS
  Kinds = {"key", "cutText"}
  Auths = {"none"}
  Versions = {3007}
  PasswordOptions = {FALSE}
  MaxMessages = 2
  MaxEncodings = 1
  ArdReply = 18
  Chunks = {1}
PROPERTIES ForwardingContinues
CHECK_DEADLOCK FALSE
