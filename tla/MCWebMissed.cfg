SPECIFICATION Spec
CONSTANTS
  People = {sabine}
  Push = FALSE
  MaxThreads = 2
  MaxTyped = 1
  Tabs = {t1}
  MaxExchanges = 2
  MaxChunks = 1
  ThreadMax = 6
  MaxFaults = 0
  MaxReloads = 0
  Ends = FALSE
CHECK_DEADLOCK FALSE
INVARIANTS
  KnownAreShown
