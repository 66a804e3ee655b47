------------------------------ MODULE TxnDisk ------------------------------
(***************************************************************************)
(* What the xv6 write-ahead log promises to the file system above it: the  *)
(* writes of the system calls that are active together become durable      *)
(* together, atomically and only when none of them is active, and a crash  *)
(* brings back exactly the last durable contents.                          *)
(***************************************************************************)
CONSTANTS Proc,     \* processes that make file system calls
          Block,    \* home block numbers
          Val       \* block contents

VARIABLES durable,  \* contents that a crash brings back
          current,  \* contents that running system calls see
          active    \* processes between begin_op() and end_op()

vars == <<durable, current, active>>

Init ==
  /\ durable \in [Block -> Val]
  /\ current = durable
  /\ active = {}

Begin(p) ==
  /\ p \notin active
  /\ active' = active \cup {p}
  /\ UNCHANGED <<durable, current>>

Write(p, b, v) ==
  /\ p \in active
  /\ current' = [current EXCEPT ![b] = v]
  /\ UNCHANGED <<durable, active>>

End(p) ==
  /\ p \in active
  /\ active' = active \ {p}
  /\ UNCHANGED <<durable, current>>

Commit ==
  /\ active = {}
  /\ durable' = current
  /\ UNCHANGED <<current, active>>

Crash ==
  /\ current' = durable
  /\ active' = {}
  /\ UNCHANGED durable

Next ==
  \/ \E p \in Proc : Begin(p) \/ End(p)
  \/ \E p \in Proc, b \in Block, v \in Val : Write(p, b, v)
  \/ Commit
  \/ Crash

Spec == Init /\ [][Next]_vars
=============================================================================
