SPECIFICATION FairSpec
CONSTANTS
  MaxPhrases = 2
  MaxChunks = 2
  Capacity = 2
  MaxFinals = 2
  MaxPartials = 1
  MaxFaults = 1
CHECK_DEADLOCK FALSE
INVARIANTS
  EveryWordRecorded
  AnswersFollowTheirQuestion
  HeardIsStored
PROPERTIES
  
  CallCloses
