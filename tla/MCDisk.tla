------------------------------- MODULE MCDisk -------------------------------
(* Instances of Disk for TLC. *)
EXTENDS Disk, TLC

CONSTANTS Logged,  \* a block of the log
          Data     \* a block whose copy goes through the log

\* write_log() and install_trans() hold the one and read the other.
UnderLogged == {<<Logged, Data>>}

\* The other blocks are only read, one block is written at a time, and no more
\* variables hold a buffer than the cache has.
FewBuffers ==
  /\ Cardinality({h \in Hand : buf[h] # None}) <= NBUF
  /\ Cardinality({h \in Hand : write[h]}) <= 1
  /\ pinned \subseteq {Data}
  /\ Blocks \ platter \subseteq {Logged, Data}

\* Processes are interchangeable, and so are the blocks that are only read.
Symmetry == Permutations(Procs) \cup Permutations(Blocks \ {Logged, Data})
=============================================================================
