SPECIFICATION Spec
CHECK_DEADLOCK FALSE
CONSTANTS
  PoolSize = 1
  Clients = {c1}
  NoClient = NoClient
  MaxFds = 4
  MaxTime = 1
  MaxCmds = 2
  MaxAll = 2
PROPERTY PassiveAccepted
