\* Five threads of the client and two workers: two inserts and two concats of
\* the same keys in opposite orders, and an answer that never comes.
SPECIFICATION Spec

CONSTANTS
  Client = {c1, c2, c3, c4, c5}
  Worker = {w1, w2}
  NKeys = 2
  Requests <- EveryOperation
  NoOne = NoOne
  MaxSpurious = 1

SYMMETRY Symmetry
VIEW View
INVARIANTS OnlyDeleteCutsOff NoEmptyPop PresentHasValue NoLockCycle
CHECK_DEADLOCK FALSE
