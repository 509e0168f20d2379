CONSTANTS
  StepTime = 2
  ControlSteps = {2, 3}
  RtcCount = 2
  RateUnit = 5
  RateMaps <- SomeRateMaps
  Ports = {"always", "interval"}
  PortStep <- SomePortSteps
  ManagedModes = {TRUE, FALSE}
  MaxTime = 10
  MaxSimulations = 2
  MaxFailures = 1
SPECIFICATION Spec
INVARIANTS
  TypeOK
  ControlExact
  ClocksAgree
  RateExact
  SampledOnce
  SamplesPassedOn
CHECK_DEADLOCK FALSE
