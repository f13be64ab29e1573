\* Two server threads, a file that may be written, moved away, deleted and
\* replaced.  The process may have exited, and every client may be answered.
SPECIFICATION Spec
CHECK_DEADLOCK FALSE
CONSTANTS
  Servers = {tcp, unix}
  Clients = {c1, c2}
  Main = Main
  NoOne = NoOne
  MaxInodes = 2
  MaxWrites = 1
SYMMETRY ClientSymmetry
INVARIANT NoTornReply
INVARIANT NoLostUpdate
PROPERTY MonotoneSize
PROPERTY ImplementsRegister
