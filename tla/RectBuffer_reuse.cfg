SPECIFICATION Spec
CONSTANTS
  Colours <- MCColours
  Black = 0
  LimitW = 2
  LimitH = 2
INVARIANTS BackingFits
PROPERTIES ImplementsCanvas
CHECK_DEADLOCK FALSE
