SPECIFICATION MCSpec
CONSTANTS
  Requests = {"one", "two"}
  Stories <- MCStories
  FreeAttempts = 1
  MaxLock = 2
  MaxTries = 2
  HistoryDepth = 2
  Passwords = {"a", "b", "c"}
  MaxFailures = 3
  MaxCodes = 1
  MaxChanges = 3
  Clerks = {"one", "two"}
  Errands <- MCErrands
  People = {"ada", "ben", "cleo"}
  Workspaces = {"front", "back"}
  Ranks = {"admin", "reception"}
  Granted = {"reception"}
  Callers = {"one", "two"}
  Ways <- MCWays
  Ceiling = 2
  MaxSessions = 2
  MaxTokens = 2
CHECK_DEADLOCK FALSE
INVARIANTS
  RecentPasswordsStayRefused
  
  
  OneOwner
  InvitationHolds
  
