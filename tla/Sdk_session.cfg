SPECIFICATION FairSpec
CONSTANTS
  Held <- OneEach
  Width <- Widths
  SmallSet = 1
  ChunkSize = 1
  Others = {"option"}
  Stored = 1
  MaxPunches = 2
  MaxLate = 2
  MaxShift = 4
  MaxGoal = 1
INVARIANT RecordsAreRecords
PROPERTY PunchesGetIn
