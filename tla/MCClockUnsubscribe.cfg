CONSTANTS
  e1 = e1
  e2 = e2
  EC = {e1, e2}
  Period <- MixedPeriods
  StepTime = 2
  MaxTime = 2
  MaxSubscriptions = 2
  QuietModes = {FALSE}
SPECIFICATION Safety
INVARIANTS
  StoppedIsUnsubscribed
CHECK_DEADLOCK FALSE
