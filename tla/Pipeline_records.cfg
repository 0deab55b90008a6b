SPECIFICATION FairSpec
CONSTANTS
  Punches = {p1, p2, p3}
  BusCapacity = 1
  Capacity = 2
  MaxBatch = 2
  MaxQueue = 1
  MaxCrashes = 1
  MaxFailures = 1
INVARIANTS
  TypeOK
  RememberedIsKept
  AcceptedOnce
PROPERTIES
  StoredNotReaccepted
  EventuallyStored
