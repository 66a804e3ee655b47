------------------------------- MODULE MCPipe -------------------------------
(* Instances of Pipe for TLC.                                              *)
EXTENDS Pipe, TLC

\* A byte differs from the one that was in its place of the ring before.
Pattern == [i \in 0..3 |-> i \div 2]

Symmetry == Permutations(Procs)
=============================================================================
