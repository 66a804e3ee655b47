\* Fair behaviours of two processes with one crash, and enough blocks to fill the
\* log: waiting for space, commits and recoveries.
CONSTANTS
  Proc = {p1, p2}
  Block = {a, b, c}
  Val = {0}
  NoBlock = NoBlock
  NotCached = NotCached
  MAXOPBLOCKS = 2
  LOGSIZE = 4
  LogBlocks = 4
  OpBlocks = 1
  MaxCrashes = 1
SPECIFICATION FairSpec
INVARIANTS NoPanic
PROPERTIES SleeperWakes CommitEnds RecoveryEnds
