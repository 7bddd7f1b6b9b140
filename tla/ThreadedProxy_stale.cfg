SPECIFICATION Spec
CONSTANTS
  Kinds <- ClientKinds
  MaxCalls = 3
  Timeouts = {TRUE}
  ConnectionDrops = {FALSE}
INVARIANTS OwnResult
CHECK_DEADLOCK FALSE
