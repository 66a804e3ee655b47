----------------------------- MODULE ByteQueue -----------------------------
(***************************************************************************)
(* What a pipe promises its users: a bounded queue of bytes between a      *)
(* write end and a read end.  Bytes are appended while both ends are open, *)
(* are removed in the order in which they were appended, and disappear     *)
(* only with the pipe, which exists as long as one end is open.            *)
(***************************************************************************)
EXTENDS Naturals, Sequences, SequencesExt

CONSTANTS Pages,     \* the pages that may hold a pipe
          Bytes,     \* the values of a byte
          CAPACITY   \* the bytes a pipe holds at most

VARIABLES queue,           \* the bytes in each pipe
          readers, writers \* the pipes whose read, write end is open

vars == <<queue, readers, writers>>

Open == readers \cup writers

Init ==
  /\ queue = [pi \in Pages |-> << >>]
  /\ readers = {} /\ writers = {}

Create(pi) ==
  /\ pi \notin Open
  /\ readers' = readers \cup {pi} /\ writers' = writers \cup {pi}
  /\ UNCHANGED queue

Insert(pi, s) ==
  /\ pi \in readers \cap writers
  /\ Len(queue[pi]) + Len(s) <= CAPACITY
  /\ queue' = [queue EXCEPT ![pi] = @ \o s]
  /\ UNCHANGED <<readers, writers>>

Take(pi, k) ==
  /\ pi \in readers
  /\ k \in 1..Len(queue[pi])
  /\ queue' = [queue EXCEPT ![pi] = SubSeq(@, k + 1, Len(@))]
  /\ UNCHANGED <<readers, writers>>

\* An end is closed once; the second one takes the pipe with it.
Close(pi, ends, others, ends1) ==
  /\ pi \in ends
  /\ ends1 = ends \ {pi}
  /\ queue' = IF pi \in others THEN queue ELSE [queue EXCEPT ![pi] = << >>]

Next == \E pi \in Pages :
  \/ Create(pi)
  \/ \E s \in BoundedSeq(Bytes, CAPACITY) : Insert(pi, s)
  \/ \E k \in 1..CAPACITY : Take(pi, k)
  \/ Close(pi, readers, writers, readers') /\ UNCHANGED writers
  \/ Close(pi, writers, readers, writers') /\ UNCHANGED readers

Spec == Init /\ [][Next]_vars
=============================================================================
