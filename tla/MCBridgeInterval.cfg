CONSTANTS
  StepTime = 2
  ControlSteps = {2, 6}
  RtcCount = 2
  RateUnit = 5
  RateMaps <- SomeRateMaps
  Ports = {"always", "interval"}
  PortStep <- SomePortSteps
  ManagedModes = {TRUE, FALSE}
  MaxTime = 10
  MaxSimulations = 2
  MaxFailures = 1
SPECIFICATION Spec
INVARIANTS
  IntervalsRespected
CHECK_DEADLOCK FALSE
