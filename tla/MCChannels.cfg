SPECIFICATION MCSpec
CONSTANTS
  People = {}
  Push = TRUE
  MaxThreads = 2
  MaxTyped = 0
  Kinds = {"discord", "slack", "mattermost", "irc", "signal", "matrix", "email", "whatsapp", "meta", "line", "viber", "teams"}
  Messages = {1, 2}
  Events <- MCEvents
  Batches <- MCBatches
  MaxDeliveries = 2
  Pieces = 1
  RecentKept = 2
  MaxTroubles = 1
CHECK_DEADLOCK FALSE
INVARIANTS
  
  OnlyCustomersAreAnswered
  
PROPERTIES
  EveryEventSettles
