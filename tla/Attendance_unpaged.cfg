SPECIFICATION Spec
CONSTANTS
  Horizon = 3
  MaxPunches = 3
  PageLimit = 2
  Deadline = 1
  WorkEnd = 3
  MinPresent = 2
INVARIANT EveryPunchCounts
CHECK_DEADLOCK FALSE
