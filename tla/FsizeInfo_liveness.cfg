SPECIFICATION FairSpec
CHECK_DEADLOCK FALSE
CONSTANTS
  Servers = {tcp}
  Clients = {c1, c2}
  Main = Main
  NoOne = NoOne
  MaxInodes = 2
  MaxWrites = 1
PROPERTY EveryClientAnswered
PROPERTY TracksWatchedFile
