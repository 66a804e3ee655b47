\* Three processes, two blocks, two contents: absorption, group commit, waiting
\* for log space and a crash at every point of commit and of recovery.
CONSTANTS
  Proc = {p1, p2, p3}
  Block = {a, b}
  Val = {0, 1}
  NoBlock = NoBlock
  NotCached = NotCached
  MAXOPBLOCKS = 3
  LOGSIZE = 6
  LogBlocks = 6
  OpBlocks = 2
  MaxCrashes = 2
SPECIFICATION Spec
INVARIANTS TypeOK CommitsAlone SleeperHasWaker PinnedExactly
PROPERTIES AtomicTransactions CommitReturnsDurable
SYMMETRY Symmetry
