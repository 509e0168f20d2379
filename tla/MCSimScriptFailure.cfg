CONSTANTS
  MaxSessions = 1
  TotalTimes = {0, 1}
  MaxTotalTime = 2
  ViewEvery = 2
  ViewModes = {TRUE, FALSE}
  ClientModes <- ScriptOnly
  ServersMayFail = TRUE
  PromptThreads = TRUE
SPECIFICATION Spec
PROPERTIES
  ScriptReleased
CHECK_DEADLOCK FALSE
