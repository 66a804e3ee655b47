------------------------------ MODULE MCInode -------------------------------
(* Instances of Inode for TLC.                                             *)
EXTENDS Inode

PathsDown == {<<"a">>, <<"a", "b">>}
Work == [p \in Procs |-> IF p = 1 THEN {"create", "trunc", "link", "unlink"}
                         ELSE {"mkdir", "chdir", "unlink"}]

(***************************************************************************)
(* Which block holds what makes no difference to what can happen next: two *)
(* states are the same to TLC when they differ only in the numbers of      *)
(* blocks.  Blocks that are owned, marked, or both are counted, and so are *)
(* copies that differ from the disk, so that a state in which a block is   *)
(* lost or shared is never taken for one in which none is.                 *)
(***************************************************************************)
Shape(n) == <<n.type, n.nlink, n.size, Len(n.addrs), n.ind # None>>
Owned == UNION {BlocksOf(disk[i]) : i \in Inum}

View ==
  <<[i \in Inum |-> <<Shape(disk[i]), Shape(mem[i]), mem[i] = disk[i]>>],
    Cardinality(bitmap), Cardinality(Owned), Cardinality(bitmap \cap Owned),
    ents, ref, lock, cwd, fd, op, pc, puts, freeing, lost, panicked>>
=============================================================================
