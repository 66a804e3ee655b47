\* Fair behaviours: init collects the orphans.
CONSTANTS
  NPROC = 3
  NCPU = 1
  MaxPid = 3
  KillPids = {}
SPECIFICATION FairSpec
PROPERTIES OrphansCollected
