SPECIFICATION Spec
CONSTANTS
  Kinds <- AllKinds
  MaxCalls = 4
  Timeouts = {TRUE, FALSE}
  ConnectionDrops = {TRUE, FALSE}
INVARIANTS OwnResultUntimed NoCallLost CallRunsMethod
PROPERTIES CallsInOrder CallsReturn
CHECK_DEADLOCK FALSE
