-------------------------------- MODULE MCVm --------------------------------
(* Instances of Vm for TLC.                                                *)
EXTENDS Vm

\* Half a page and a page more, half a page less, and more than there can be.
GrowBy == {1, 2, -1, -20}

(***************************************************************************)
(* Which page serves for what makes no difference to what can happen next: *)
(* two states are the same to TLC when they differ only in the numbers of  *)
(* pages.  Pages with two uses, or with none, are counted, so that a state *)
(* in which pages are lost or shared is never taken for one in which they  *)
(* are not.                                                                *)
(***************************************************************************)
Shape(pt) ==
  IF pt = None THEN << >>
  ELSE [va \in 0..TRAMPOLINE |-> <<Walk(pt, va).level, Entry(pt, va).kind>>]

View ==
  <<state, sz, pc, panicked,
    Cardinality(free), Cardinality(Used), Cardinality(free \cap Used),
    [p \in Proc |->
      LET c == call[p] IN
      <<Shape(pagetable[p]), trapframe[p] # None,
        pagetable[p] # None /\ Entry(pagetable[p], TRAPFRAME).pa = trapframe[p],
        Shape(c.pt), c.np, c.size, Cardinality(c.args), c.segs, c.mem # None,
        c.base, c.va, c.end>>]>>
=============================================================================
