SPECIFICATION FairSpec
CONSTANTS
  p1 = p1
  p2 = p2
  p3 = p3
  e1 = e1
  e2 = e2
  Punches = {p1, p2, p3}
  Endpoints = {e1, e2}
  Handles <- OneHandle
  Outboxed = {e1, e2}
  Persisting = TRUE
  Deliveries <- Mixed
  Backlog <- Stored
  Unreadable <- Broken
  MaxRetries = 1
  MaxAttempts = 2
  MaxFaults = 2
  MaxTasks = 1
INVARIANTS
  TypeOK
  QueuedIsBacklog
  DeadOnlyWhenExhausted
PROPERTIES
  RowNeverVanishes
  ImplementsLifecycle
  RetriesEnd
