CONSTANTS
  Procs = {1, 2}
  NINODES = 3
  Names = {"a", "b"}
  Paths <- PathsDown
  CallsOf <- Work
  NBLOCKS = 4
  NDIRECT = 1
  MAXFILE = 2
VIEW View
SPECIFICATION Spec
INVARIANTS FsConsistent RefsExact NoPanicNoDeadlock
CHECK_DEADLOCK FALSE
