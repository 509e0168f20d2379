CONSTANTS
  e1 = e1
  e2 = e2
  EC = {e1, e2}
  Period <- MixedPeriods
  StepTime = 2
  MaxTime = 6
  MaxSubscriptions = 2
  QuietModes = {TRUE, FALSE}
SPECIFICATION Spec
INVARIANTS
  TypeOK
  OneEntry
  ScheduleExact
PROPERTIES
  AtMostOncePerUpdate
  SentWhenDue
  WalksEnd
CHECK_DEADLOCK FALSE
