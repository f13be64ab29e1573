\* Two workers and two clients, who send two commands in all, in two seconds.
SPECIFICATION FairSpec
CHECK_DEADLOCK FALSE
CONSTANTS
  PoolSize = 2
  Clients = {c1, c2}
  NoClient = NoClient
  MaxFds = 2
  MaxTime = 1
  MaxCmds = 2
  MaxAll = 2
INVARIANT LockStep
INVARIANT PoolEndsTogether
INVARIANT ToldIsTrue
PROPERTY QueuedWelcomed
