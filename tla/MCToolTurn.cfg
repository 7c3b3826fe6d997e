SPECIFICATION FairSpec
CONSTANTS
  MaxRounds = 3
  MaxCalls = 2
  MaxSaid = 2
CHECK_DEADLOCK FALSE
INVARIANTS
  ModelIsTold
PROPERTIES
  TurnEnds
