CONSTANTS
  Procs = {p1, p2, p3}
  Pages = {"pg1"}
  Bytes = {0, 1}
  NFILE = 2
  NOFILE = 2
  PIPESIZE = 2
  WRAP = 4
  Stream <- Pattern
  Sizes = {2}
  MaxKilled = 1
SYMMETRY Symmetry
SPECIFICATION Spec
INVARIANTS FilesExact NoLostWakeup
PROPERTIES IsByteQueue
CHECK_DEADLOCK FALSE
