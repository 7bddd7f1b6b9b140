SPECIFICATION Spec
CONSTANTS
  Words <- AllWords
  MaxWords = 3
  Delays <- AllFlags
  Timeouts <- AllFlags
  Passwords <- AllFlags
INVARIANTS SuccessMeansCompleted 
PROPERTIES TimeoutEndsRun LossEndsRun
CHECK_DEADLOCK FALSE
