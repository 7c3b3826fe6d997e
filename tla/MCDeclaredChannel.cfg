SPECIFICATION Spec
CONSTANTS
  People = {sabine}
  Push = TRUE
  MaxThreads = 2
  MaxTyped = 1
  Messages = {1, 2}
  MaxDeliveries = 2
  Pieces = 2
  RecentKept = 1
  Rules = {"ai", "pass", "block"}
  Ends = TRUE
  Overlap = TRUE
  MaxRestarts = 1
  MaxFaults = 1
CHECK_DEADLOCK FALSE
INVARIANTS
  DeliveredBeforeStored
  RepeatedIsStored
