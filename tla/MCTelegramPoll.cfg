SPECIFICATION FairSpec
CONSTANTS
  Chats = {"anna", "ben"}
  MaxUpdates = 3
  Rules = {"ai", "pass", "block"}
  MaxCrashes = 1
  MaxFaults = 1
  MaxEscapes = 1
CHECK_DEADLOCK FALSE
INVARIANTS
  
  InOrder

  
