CONSTANTS
  NPROC = 3
  NPAGES = 23
  FANOUT = 2
  PGSIZE = 2
  UINT = 64
  Grow <- GrowBy
  SegEnds = {0, 1, 3}
  MaxSegs = 2
  MaxArgs = 1
  MaxSz = 10
VIEW View
SPECIFICATION Spec
INVARIANTS PagesAccounted AddressSpaces
