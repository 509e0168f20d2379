CONSTANTS
  MaxSessions = 2
  TotalTimes = {0}
  MaxTotalTime = 0
  ViewEvery = 1
  ViewModes = {TRUE}
  ClientModes <- BothClients
  ServersMayFail = TRUE
  PromptThreads = TRUE
SPECIFICATION Safety
INVARIANTS
  OneSession
CHECK_DEADLOCK FALSE
