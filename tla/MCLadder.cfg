CONSTANTS
  Last = 3
  Delays <- ShortLadder
  MaxClock = 3
  MaxAttempts = 6
SPECIFICATION Spec
PROPERTY EveryOperationEnds
CHECK_DEADLOCK FALSE
