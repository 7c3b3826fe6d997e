SPECIFICATION BackupsSpec
CONSTANTS
  Chores = {{"manual", "arrivals"}}
  Trays = {"front"}
  DailyKept = 1
  WeeklyKept = 2
  WeekDays = 2
  LastDay = 0
  MaxTaken = 1
  NightsAndJobs <- MCTakes
  MaxArrivals = 1
CHECK_DEADLOCK FALSE
INVARIANTS
  KnownToRestore
