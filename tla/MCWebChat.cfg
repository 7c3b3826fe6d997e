SPECIFICATION FairSpec
CONSTANTS
  People = {sabine}
  Push = FALSE
  MaxThreads = 2
  MaxTyped = 1
  Tabs = {t1}
  MaxExchanges = 2
  MaxChunks = 1
  ThreadMax = 3
  MaxFaults = 1
  MaxReloads = 1
  Ends = TRUE
CHECK_DEADLOCK FALSE
INVARIANTS
  AnsweredOnce
  
PROPERTIES
  ExchangesEnd
