SPECIFICATION MCSpec
CONSTANTS
  w1 = w1
  j1 = j1
  j2 = j2
  t1 = t1
  Worker = {w1}
  Job = {j1, j2}
  Task = {t1}
  MaxAttempts = 2
  Limit = 2
  Backoff <- MCBackoff
  Delays = {0, 1}
  Interval <- MCInterval
  FirstDelay = 1
  Overdue = 1
  MaxFaults = 2
  Chores <- MCChores
  Trays = {"front", "back"}
  DailyKept = 1
  WeeklyKept = 2
  WeekDays = 2
  LastDay = 3
  MaxTaken = 4
  NightsAndJobs <- MCTakes
  MaxArrivals = 1
  Packages <- MCPackages
  SystemApps = {"core"}
  DefaultApps = {"web"}
  Switches = {"one", "two"}
  Emissions = {"one"}
  Saves = {"one", "two"}
  Servers = {"a", "b"}
  Uses = {"use"}
  Crews = {{"one", "two"}, {"one", "use"}}
  Scopes = {"installation", "workspace"}
  HasKey = TRUE
  Offices <- MCOffices
  Hands = {"one", "two"}
  Records = {1, 2}
  Names = {"n", "m"}
  MaxStops = 1
SYMMETRY Symmetric
CHECK_DEADLOCK FALSE
INVARIANTS
  
  MemoryIsCurrent
  ToldMeansDone
  SourcesHaveTheirAssistant
PROPERTIES
  NothingIsEarly
  RetentionHolds
  
  EchoKeepsTheCredential
