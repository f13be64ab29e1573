\* Any tree of two nodes, changed at any moment, and files of up to 2 bytes:
\* they can shrink, grow, be empty, and be longer than one sendfile() sends.
\* The request ends.
SPECIFICATION Spec
CHECK_DEADLOCK FALSE
CONSTANTS
  MaxSize = 2
  SendLimit = 1
INVARIANT StatusJustified
INVARIANT BodyRight
