\* Three slots on two CPUs: exit, wait, kill and slot reuse interleave.
CONSTANTS
  NPROC = 3
  NCPU = 2
  MaxPid = 4
  KillPids = {2, 3}
SPECIFICATION Spec
INVARIANTS TypeOK NoLostExit FreedIsOffCpu ParentsLive SchedCallable
