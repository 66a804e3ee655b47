\* Three processes on two levels, one of which may be killed, up to the first
\* ProcQueueRemove().
CONSTANTS
  NPROC = 3
  NLEVEL = 2
  AGE = 2
SPECIFICATION Spec
INVARIANTS TypeOK QueuesHoldWaiting SliceBounded
PROPERTIES DispatchesHighest FirstInFirstOut
CONSTRAINTS BeforeRemove OneKilled
VIEW Live
