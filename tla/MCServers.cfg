CONSTANTS
  Server = {"modelLoader"}
  DefaultInfo = {"modelLoader"}
  Controller = {"controller"}
  NameServer = "nameServer"
  AutoStart = {"modelLoader", "nameServer"}
  HasShutdown = {"modelLoader", "controller"}
  Pid <- SomePid
  Thread = {1, 2}
  MaxQueue = 1
SPECIFICATION Spec
INVARIANTS
  TypeOK
  NoneLost
  StopShownRight
PROPERTIES
  EndShown
  Closes
CHECK_DEADLOCK FALSE
