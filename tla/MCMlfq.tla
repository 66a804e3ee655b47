------------------------------- MODULE MCMlfq -------------------------------
(* Small instances of Mlfq for TLC. *)
EXTENDS Mlfq

\* What happens before ageing() first takes a process out of a ring: the runs
\* whose properties are about that time explore no further.
BeforeRemove == ~removed

\* Only the last process is killed.
OneKilled == killed \subseteq {NPROC}

\* Before that nothing reads a slot that is not in use: states that differ in
\* such slots only are explored once.
Live ==
  LET ring(q) == [q EXCEPT !.list = [j \in Index |-> IF j \in Occupied(q) THEN @[j] ELSE Null]]
  IN <<procVars, [l \in Level |-> ring(mfq[l])], pc, k, lev, low, removed>>
=============================================================================
