SPECIFICATION FairSpec
CONSTANTS
  Ids = {r1, r2}
  NewId = r2
  Fields = {f}
  MaxChanges = 2
  Absent = Absent
  NoData = NoData
  Idle = Idle
  NoId = NoId
  NewForm = NewForm
INVARIANTS
  TypeOK
  FreshIsStored
PROPERTIES
  OptimisticKept
  ListCatchesUp
