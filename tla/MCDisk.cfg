CONSTANTS
  Procs = {p1, p2, p3}
  Blocks = {k1, k2, k3, k4}
  Logged = k1
  Data = k2
  Under <- UnderLogged
  NBUF = 3
  NUM = 7
  MaxPins = 1
SPECIFICATION Spec
CONSTRAINT FewBuffers
SYMMETRY Symmetry
INVARIANTS CacheCoherent ResourcesAccounted NothingLost
CHECK_DEADLOCK FALSE
