\* Fewer, as many and more files than threads; more files than are taken.
\* The program ends.
SPECIFICATION FairSpec
CHECK_DEADLOCK FALSE
CONSTANTS
  MAX_LOG_FILES = 4
  MaxThreads = 3
  MaxEntries = 5
INVARIANT NoSharedFile
INVARIANT EveryFileOnce
PROPERTY Terminates
