----------------------------- MODULE MCConsole -----------------------------
(* Instances of Console for TLC.                                           *)
EXTENDS Console, TLC

Symmetry == Permutations(Readers)

\* The places of cons.buf that hold no input do not tell states apart.
View == <<cons_r, cons_w,
          [i \in 1..Minus(cons_e, cons_r) |-> InputAt(cons_r + i - 1)],
          txVars, thr, rx, irq, intrVars, callVars, killed>>
=============================================================================
