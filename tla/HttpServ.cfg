\* Two threads and two clients on two descriptors, which are therefore used
\* again and may run out; both descriptors may be in one array of events.
SPECIFICATION FairSpec
CHECK_DEADLOCK FALSE
CONSTANTS
  Threads = {t1, t2}
  Clients = {c1, c2}
  Fds = {f1, f2}
  Serv = Serv
  Nothing = Nothing
  MaxEvents = 2
INVARIANT FdsAccounted
INVARIANT AnswersWholeRequests
INVARIANT WakeupPerConnection
INVARIANT ReadyNotForgotten
PROPERTY RequestServed
