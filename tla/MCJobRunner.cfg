SPECIFICATION FairSpec
CONSTANTS
  w1 = w1
  w2 = w2
  j1 = j1
  t1 = t1
  Worker = {w1, w2}
  Job = {j1}
  Task = {t1}
  MaxAttempts = 2
  Limit = 2
  Backoff <- MCBackoff
  Delays = {0}
  Interval <- MCInterval
  FirstDelay = 1
  Overdue = 1
  MaxFaults = 2
INVARIANTS
  OneAttemptAtATime
PROPERTIES
  KeepsLedger
  EveryJobSettles
