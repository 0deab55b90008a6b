SPECIFICATION MCFairSpec
CONSTANTS
  Callers = {c1, c2}
  Threshold = 2
  MaxSuccess = 2
INVARIANTS
  TypeOK
  CloseNeverLost
PROPERTIES
  HalfOpenOnlyFromOpen
  Recovers
  SequentialUntilOverlap
