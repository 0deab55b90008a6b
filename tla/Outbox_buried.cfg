SPECIFICATION Spec
CONSTANTS
  p1 = p1
  p2 = p2
  p3 = p3
  e1 = e1
  e2 = e2
  Punches = {p2}
  Endpoints = {e1}
  Handles <- OneHandle
  Outboxed = {e1}
  Persisting = TRUE
  Deliveries <- Old
  Backlog <- Old
  Unreadable <- Nothing
  MaxRetries = 1
  MaxAttempts = 2
  MaxTasks = 0
  MaxFaults = 1
PROPERTY DeadAreNotRetried
