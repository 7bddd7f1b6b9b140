SPECIFICATION Spec
CONSTANTS
  Kinds = {"key"}
  Auths = {"none", "vnc", "ard"}
  Versions = {3003, 3007}
  PasswordOptions = {FALSE}
  MaxMessages = 1
  MaxEncodings = 1
  ArdReply = 18
  Chunks = {1}
INVARIANTS CredentialsUnlogged
CHECK_DEADLOCK FALSE
