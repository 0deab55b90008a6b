SPECIFICATION Spec
CONSTANTS
  Horizon = 4
  MaxPunches = 4
  PageLimit = 4
  Deadline = 1
  WorkEnd = 3
  MinPresent = 2
INVARIANTS
  TypeOK
  TotalsAreTime
  FlaggedAreUnpaired
  CalendarIsTimeline
  SameHours
PROPERTY LateForGood
CHECK_DEADLOCK FALSE
