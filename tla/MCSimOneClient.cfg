CONSTANTS
  MaxSessions = 3
  TotalTimes = {0, 1}
  MaxTotalTime = 3
  ViewEvery = 2
  ViewModes = {TRUE, FALSE}
  ClientModes <- OneClient
  ServersMayFail = TRUE
  PromptThreads = TRUE
SPECIFICATION Spec
INVARIANTS
  TypeOK
  OneSession
  PaintExclusive
  NoStrandedThread
  ClockBound
  StopSticks
  DisciplineInv
  NoEmptySignal
PROPERTIES
  ImplementsSession
  ThreadsEnd
  ScriptEnds
CHECK_DEADLOCK FALSE
