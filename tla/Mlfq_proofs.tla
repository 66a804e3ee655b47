----------------------------- MODULE Mlfq_proofs -----------------------------
(***************************************************************************)
(* Proofs about module Mlfq, for every size of the process table, number   *)
(* of levels and age: types and slices, and, until ageing() first calls    *)
(* ProcQueueRemove(), that the rings hold exactly the processes marked     *)
(* inQ and that scheduler() runs one of the highest level waiting.         *)
(***************************************************************************)
EXTENDS Mlfq, FiniteSetTheorems, TLAPS

(***************************************************************************)
(* The rings.                                                              *)
(***************************************************************************)

\* front and rear are -1 together.
RingOK(q) == q \in Ring /\ (q.front = -1 <=> q.rear = -1)

\* The slot after r.
LEMMA Successor ==
  ASSUME NEW r \in {-1} \cup Index
  PROVE  /\ r = NPROC - 1 => (r + 1) % NPROC = 0
         /\ r # NPROC - 1 => (r + 1) % NPROC = r + 1
  BY MlfqAssumption DEF Index

\* A ring in which the slot after rear is front is in use throughout.
LEMMA FullRing ==
  ASSUME NEW q, RingOK(q), q.front # -1, (q.rear + 1) % NPROC = q.front
  PROVE  Occupied(q) = Index
  <1>1. q.front \in Index /\ q.rear \in Index
    BY DEF RingOK, Ring
  <1>2. \/ q.rear = NPROC - 1 /\ q.front = 0
        \/ q.front = q.rear + 1
    BY <1>1, Successor
  <1>3. CASE q.rear = NPROC - 1 /\ q.front = 0
    <2>1. Occupied(q) = 0..(NPROC - 1)
      BY <1>3, MlfqAssumption DEF Occupied
    <2> QED
      BY <2>1 DEF Index
  <1>4. CASE q.front = q.rear + 1
    <2>1. Occupied(q) = {j \in Index : j >= q.front \/ j <= q.rear}
      BY <1>1, <1>4 DEF Occupied, Index
    <2> QED
      BY <1>1, <1>4, <2>1 DEF Index
  <1> QED
    BY <1>2, <1>3, <1>4

\* Enqueue() of a ring that is not full takes the slot after rear into use.
LEMMA EnqueueRing ==
  ASSUME NEW q, RingOK(q), NEW p \in Proc,
         q.front # -1 => (q.rear + 1) % NPROC # q.front
  PROVE  \E r \in Index :
           /\ r \notin Occupied(q)
           /\ RingOK(Enqueue(q, p))
           /\ Occupied(Enqueue(q, p)) = Occupied(q) \cup {r}
           /\ Enqueue(q, p).list = [q.list EXCEPT ![r] = p]
  <1>1. /\ q.front \in {-1} \cup Index /\ q.rear \in {-1} \cup Index
        /\ q.list \in [Index -> Proc \cup {Null}]
        /\ q.front = -1 <=> q.rear = -1
    BY DEF RingOK, Ring
  <1>2. PICK r \in Int : r = (q.rear + 1) % NPROC
    BY <1>1, MlfqAssumption DEF Index
  <1>3. /\ q.rear = NPROC - 1 => r = 0
        /\ q.rear # NPROC - 1 => r = q.rear + 1
    BY <1>1, <1>2, Successor
  <1>4. r \in Index
    BY <1>1, <1>3, MlfqAssumption DEF Index
  <1>5. PICK g \in Index : g = IF q.front = -1 THEN 0 ELSE q.front
    BY <1>1, MlfqAssumption DEF Index
  <1>6. Enqueue(q, p) = [front |-> g, rear |-> r, list |-> [q.list EXCEPT ![r] = p]]
    BY <1>2, <1>5 DEF Enqueue
  <1>7. r \notin Occupied(q)
    <2>1. CASE q.front = -1
      BY <2>1 DEF Occupied
    <2>2. CASE q.front # -1
      <3>1. Occupied(q) = IF q.front <= q.rear THEN q.front..q.rear
                          ELSE {j \in Index : j >= q.front \/ j <= q.rear}
        BY <2>2 DEF Occupied
      <3>2. q.front \in Index /\ q.rear \in Index /\ r # q.front
        BY <2>2, <1>1, <1>2
      <3> QED
        BY <3>1, <3>2, <1>3, MlfqAssumption DEF Index
    <2> QED
      BY <2>1, <2>2
  <1>8. RingOK(Enqueue(q, p))
    <2>1. [q.list EXCEPT ![r] = p] \in [Index -> Proc \cup {Null}]
      BY <1>1, <1>4
    <2>2. g # -1 /\ r # -1
      BY <1>4, <1>5, MlfqAssumption DEF Index
    <2> QED
      BY <2>1, <2>2, <1>4, <1>5, <1>6 DEF RingOK, Ring
  <1>9. Occupied(Enqueue(q, p)) = Occupied(q) \cup {r}
    <2>1. Occupied(Enqueue(q, p)) = IF g <= r THEN g..r ELSE {j \in Index : j >= g \/ j <= r}
      BY <1>5, <1>6, MlfqAssumption DEF Occupied, Index
    <2>2. CASE q.front = -1
      <3>1. Occupied(q) = {} /\ q.rear = -1 /\ g = 0
        BY <2>2, <1>1, <1>5 DEF Occupied
      <3>2. r = 0
        BY <3>1, <1>3, MlfqAssumption
      <3>3. Occupied(Enqueue(q, p)) = 0..0
        BY <2>1, <3>1, <3>2
      <3> QED
        BY <3>1, <3>2, <3>3
    <2>3. CASE q.front # -1
      <3>1. Occupied(q) = IF q.front <= q.rear THEN q.front..q.rear
                          ELSE {j \in Index : j >= q.front \/ j <= q.rear}
        BY <2>3 DEF Occupied
      <3>2. g = q.front /\ q.front \in Index /\ q.rear \in Index /\ r # g
        BY <2>3, <1>1, <1>2, <1>5
      <3> QED
        BY <2>1, <3>1, <3>2, <1>3, <1>4, MlfqAssumption DEF Index
    <2> QED
      BY <2>2, <2>3
  <1>10. Enqueue(q, p).list = [q.list EXCEPT ![r] = p]
    BY <1>6
  <1> QED
    BY <1>4, <1>7, <1>8, <1>9, <1>10

\* Dequeue() takes the slot front out of use, and leaves what the slots in use
\* hold alone.
LEMMA DequeueRing ==
  ASSUME NEW q, RingOK(q)
  PROVE  /\ RingOK(Dequeue(q))
         /\ Occupied(Dequeue(q)) = Occupied(q) \ {q.front}
         /\ \A j \in Occupied(Dequeue(q)) : Dequeue(q).list[j] = q.list[j]
         /\ q.front # -1 => q.front \in Occupied(q)
         /\ q.front = -1 => Occupied(q) = {}
  <1>1. /\ q.front \in {-1} \cup Index /\ q.rear \in {-1} \cup Index
        /\ q.list \in [Index -> Proc \cup {Null}]
        /\ q.front = -1 <=> q.rear = -1
        /\ q = [front |-> q.front, rear |-> q.rear, list |-> q.list]
    BY DEF RingOK, Ring
  <1>2. CASE q.front = -1
    BY <1>2 DEF Dequeue, Occupied, RingOK
  <1>3. CASE q.front # -1 /\ q.front = q.rear
    <2>1. Dequeue(q) = [front |-> -1, rear |-> -1, list |-> [q.list EXCEPT ![q.front] = Null]]
      BY <1>3 DEF Dequeue
    <2>2. [q.list EXCEPT ![q.front] = Null] \in [Index -> Proc \cup {Null}]
      BY <1>1, <1>3
    <2>3. RingOK(Dequeue(q))
      BY <2>1, <2>2 DEF RingOK, Ring
    <2>4. Occupied(Dequeue(q)) = {}
      BY <2>1 DEF Occupied
    <2>5. Occupied(q) = {q.front}
      BY <1>1, <1>3 DEF Occupied, Index
    <2> QED
      BY <1>3, <2>3, <2>4, <2>5
  <1>4. CASE q.front # -1 /\ q.front # q.rear
    <2>1. PICK g \in Int : g = (q.front + 1) % NPROC
      BY <1>1, MlfqAssumption DEF Index
    <2>2. /\ q.front = NPROC - 1 => g = 0
          /\ q.front # NPROC - 1 => g = q.front + 1
      BY <1>1, <2>1, Successor
    <2>3. g \in Index
      BY <1>1, <1>4, <2>2, MlfqAssumption DEF Index
    <2>4. Dequeue(q) = [front |-> g, rear |-> q.rear, list |-> q.list]
      BY <1>1, <1>4, <2>1 DEF Dequeue
    <2>5. g # -1
      BY <2>3, MlfqAssumption DEF Index
    <2>6. RingOK(Dequeue(q))
      BY <1>1, <1>4, <2>3, <2>4, <2>5 DEF RingOK, Ring
    <2>7. Occupied(Dequeue(q)) = IF g <= q.rear THEN g..q.rear
                                 ELSE {j \in Index : j >= g \/ j <= q.rear}
      BY <2>4, <2>5 DEF Occupied
    <2>8. Occupied(q) = IF q.front <= q.rear THEN q.front..q.rear
                        ELSE {j \in Index : j >= q.front \/ j <= q.rear}
      BY <1>4 DEF Occupied
    <2>9. q.front \in Index /\ q.rear \in Index
      BY <1>1, <1>4
    <2>10. Occupied(Dequeue(q)) = Occupied(q) \ {q.front}
      BY <1>4, <2>2, <2>3, <2>7, <2>8, <2>9, MlfqAssumption DEF Index
    <2>11. q.front \in Occupied(q)
      BY <2>8, <2>9, MlfqAssumption DEF Index
    <2> QED
      BY <1>4, <2>4, <2>6, <2>10, <2>11
  <1> QED
    BY <1>2, <1>3, <1>4

\* A process that stands in no slot finds a ring that holds only processes,
\* each once, not full.
LEMMA RoomInRing ==
  ASSUME NEW q, RingOK(q), NEW p \in Proc, q.front # -1,
         \A j \in Occupied(q) : q.list[j] \notin {Null, p},
         \A i, j \in Occupied(q) : q.list[i] = q.list[j] => i = j
  PROVE  (q.rear + 1) % NPROC # q.front
  <1> SUFFICES ASSUME (q.rear + 1) % NPROC = q.front PROVE FALSE
    OBVIOUS
  <1>1. Occupied(q) = Index
    BY FullRing
  <1>2. q.list \in [Index -> Proc \cup {Null}]
    BY DEF RingOK, Ring
  <1>3. q.list \in [Index -> Proc \ {p}]
    BY <1>1, <1>2
  <1>4. IsFiniteSet(Index) /\ Cardinality(Index) = NPROC
    BY FS_Interval, MlfqAssumption DEF Index
  <1>5. IsFiniteSet(Proc) /\ Cardinality(Proc) = NPROC
    BY FS_Interval, MlfqAssumption DEF Proc
  <1>6. IsFiniteSet(Proc \ {p}) /\ Cardinality(Proc \ {p}) = NPROC - 1
    BY <1>5, FS_RemoveElement
  <1>7. Cardinality(Proc \ {p}) < Cardinality(Index)
    BY <1>4, <1>6, MlfqAssumption
  <1>8. \E i, j \in Index : i # j /\ q.list[i] = q.list[j]
    BY <1>3, <1>4, <1>6, <1>7, FS_PigeonHole
  <1> QED
    BY <1>1, <1>8

(***************************************************************************)
(* The inductive invariant.                                                *)
(***************************************************************************)

\* The process that the CPU runs is RUNNING.
CpuOK == pc = "run" => low \in Proc /\ state[low] = "RUNNING"

\* What holds whether or not ProcQueueRemove() was called.
TInv == TypeOK /\ SliceBounded /\ CpuOK

\* A process in use by a ring is marked and on the ring's level ...
StandersMarked ==
  \A l \in Level : \A j \in Occupied(mfq[l]) :
    mfq[l].list[j] # Null =>
      inQ[mfq[l].list[j]] /\ level[mfq[l].list[j]] = l

\* ... it stands there once ...
StandOnce ==
  \A l \in Level : \A i, j \in Occupied(mfq[l]) :
    mfq[l].list[i] = mfq[l].list[j] /\ mfq[l].list[i] # Null => i = j

\* ... and a marked process is RUNNABLE and stands in the ring of its level.
MarkedStand ==
  \A p \in Proc : inQ[p] =>
    /\ state[p] = "RUNNABLE"
    /\ \E j \in Occupied(mfq[level[p]]) : mfq[level[p]].list[j] = p

Rings == \A l \in Level : RingOK(mfq[l])

QueueInv == Rings /\ StandersMarked /\ StandOnce /\ MarkedStand

\* The null elements of pq_init() are gone ...
NoDummies == \A l \in Level : \A j \in Occupied(mfq[l]) : mfq[l].list[j] # Null

\* ... and the levels that scheduler() has passed have nobody waiting,
HigherEmpty == pc = "dequeue" => \A p \in Proc : inQ[p] => level[p] >= lev

\* or scheduler() is in its first pass, with init the only process: it takes
\* the null element of every level and runs nobody.
FirstPass ==
  /\ pc \in {"ageing", "enqueue", "dequeue"}
  /\ low = Null
  /\ \A p \in Proc : /\ state[p] = IF p = 1 THEN "RUNNABLE" ELSE "UNUSED"
                     /\ level[p] = 0 /\ age[p] = 0
                     /\ inQ[p] => p = 1
  /\ \A l \in Level \ {0} :
       IF pc = "dequeue" /\ l < lev THEN mfq[l].front = -1 ELSE mfq[l] = EmptyRing
  /\ pc = "ageing" \/ (pc = "enqueue" /\ k = 1) => mfq[0] = EmptyRing /\ ~inQ[1]
  /\ (pc = "enqueue" /\ k > 1) \/ (pc = "dequeue" /\ lev = 0) =>
       mfq[0] = Enqueue(EmptyRing, 1) /\ inQ[1]
  /\ pc = "dequeue" /\ lev > 0 =>
       \A j \in Occupied(mfq[0]) : mfq[0].list[j] # Null

QInv == QueueInv /\ (FirstPass \/ (NoDummies /\ HigherEmpty))

IInv == TInv /\ (~removed => QInv)

(***************************************************************************)
(* Types and slices.                                                       *)
(***************************************************************************)

\* What a ring operation makes of any ring is a ring.
LEMMA RingTypes ==
  ASSUME NEW q \in Ring, NEW p \in Proc
  PROVE  /\ Enqueue(q, p) \in Ring
         /\ Dequeue(q) \in Ring
         /\ First(q) \in Proc \cup {Null}
         /\ ~RemoveSpins(q) => Remove(q) \in Ring
  <1>1. /\ q.front \in {-1} \cup Index /\ q.rear \in {-1} \cup Index
        /\ q.list \in [Index -> Proc \cup {Null}]
        /\ q = [front |-> q.front, rear |-> q.rear, list |-> q.list]
    BY DEF Ring
  <1>2. 0 \in Index /\ -1 \notin Index
    BY MlfqAssumption DEF Index
  <1>3. \A r \in {-1} \cup Index : (r + 1) % NPROC \in Index
    <2> TAKE r \in {-1} \cup Index
    <2>1. /\ r = NPROC - 1 => (r + 1) % NPROC = 0
          /\ r # NPROC - 1 => (r + 1) % NPROC = r + 1
      BY Successor
    <2> QED
      BY <2>1, MlfqAssumption DEF Index
  <1>4. Enqueue(q, p) \in Ring
    <2>1. PICK r \in Index : r = (q.rear + 1) % NPROC
      BY <1>1, <1>3
    <2>2. [q.list EXCEPT ![r] = p] \in [Index -> Proc \cup {Null}]
      BY <1>1
    <2>3. Enqueue(q, p) = [front |-> IF q.front = -1 THEN 0 ELSE q.front,
                           rear |-> r, list |-> [q.list EXCEPT ![r] = p]]
      BY <2>1 DEF Enqueue
    <2> QED
      BY <1>1, <1>2, <2>2, <2>3 DEF Ring
  <1>5. Dequeue(q) \in Ring
    <2>1. CASE q.front = -1
      BY <2>1 DEF Dequeue
    <2>2. CASE q.front # -1 /\ q.front = q.rear
      <3>1. [q.list EXCEPT ![q.front] = Null] \in [Index -> Proc \cup {Null}]
        BY <1>1, <2>2
      <3>2. Dequeue(q) = [front |-> -1, rear |-> -1, list |-> [q.list EXCEPT ![q.front] = Null]]
        BY <2>2 DEF Dequeue
      <3> QED
        BY <3>1, <3>2 DEF Ring
    <2>3. CASE q.front # -1 /\ q.front # q.rear
      <3>1. PICK r \in Index : r = (q.front + 1) % NPROC
        BY <1>1, <1>3
      <3>2. Dequeue(q) = [front |-> r, rear |-> q.rear, list |-> q.list]
        BY <1>1, <2>3, <3>1 DEF Dequeue
      <3> QED
        BY <1>1, <3>2 DEF Ring
    <2> QED
      BY <2>1, <2>2, <2>3
  <1>6. First(q) \in Proc \cup {Null}
    BY <1>1 DEF First
  <1>7. Remove(q) \in Ring
    <2>1. CASE q.rear = -1
      <3>1. Remove(q) = [front |-> 0, rear |-> -1, list |-> q.list]
        BY <1>1, <2>1 DEF Remove
      <3> QED
        BY <1>1, <1>2, <3>1 DEF Ring
    <2>2. CASE q.rear # -1
      <3>1. PICK r \in {-1} \cup Index : r = q.rear - 1
        BY <1>1, <2>2, MlfqAssumption DEF Index
      <3>2. [q.list EXCEPT ![q.rear] = Null] \in [Index -> Proc \cup {Null}]
        BY <1>1, <2>2
      <3>3. Remove(q) = [front |-> q.front, rear |-> r, list |-> [q.list EXCEPT ![q.rear] = Null]]
        BY <1>1, <2>2, <3>1 DEF Remove
      <3> QED
        BY <1>1, <3>2, <3>3 DEF Ring
    <2> QED
      BY <2>1, <2>2
  <1> QED
    BY <1>4, <1>5, <1>6, <1>7

\* The sets in which the variables take their values.
LEMMA Constants ==
  /\ NPROC \in Nat /\ NPROC > 1 /\ NLEVEL \in Nat /\ NLEVEL > 0 /\ AGE \in Nat
  /\ 1 \in Proc /\ 0 \notin Proc
  /\ 0 \in Level
  /\ \A l \in Level : l \in Nat /\ l < NLEVEL /\ Slice(l) \in Nat /\ Slice(l) > 0
  /\ \A l \in Nat : l < NLEVEL => l \in Level
  /\ \A j \in Nat : j > 0 /\ j <= NPROC => j \in Proc
  /\ \A p \in Proc : p \in Nat /\ p > 0 /\ p <= NPROC
  <1>1. \A l \in Level : Slice(l) \in Nat /\ Slice(l) > 0
    BY SliceAssumption
  <1> QED
    BY <1>1, MlfqAssumption DEF Proc, Level

LEMMA InitTInv == Init => TInv
  <1> SUFFICES ASSUME Init PROVE TInv
    OBVIOUS
  <1>1. EmptyRing \in Ring
    BY MlfqAssumption DEF EmptyRing, Ring, Index
  <1>2. Slice(0) \in Nat /\ Slice(0) > 0
    BY Constants
  <1>3. /\ state \in [Proc -> {"UNUSED", "SLEEPING", "RUNNABLE", "RUNNING"}]
        /\ level \in [Proc -> Level] /\ timeinQ \in [Proc -> Nat]
        /\ age \in [Proc -> 0..(AGE + 1)]
        /\ k \in 1..(NPROC + 1) /\ lev \in 0..NLEVEL
    BY <1>2, Constants DEF Init
  <1>4. /\ inQ \in [Proc -> BOOLEAN] /\ mfq \in [Level -> Ring]
        /\ pc \in {"ageing", "enqueue", "dequeue", "run", "spin"}
        /\ low \in Proc \cup {Null} /\ removed \in BOOLEAN
    BY <1>1 DEF Init
  <1>5. SliceBounded
    BY <1>2 DEF Init, SliceBounded
  <1> QED
    BY <1>3, <1>4, <1>5 DEF TInv, TypeOK, CpuOK, Init

\* The clock of a waiting process stops at AGE + 1.
LEMMA OlderType ==
  ASSUME NEW ages \in [Proc -> 0..(AGE + 1)], NEW states
  PROVE  Older(ages, states) \in [Proc -> 0..(AGE + 1)]
  BY Constants DEF Older

\* A step that leaves levels and slices alone.
LEMMA SameSlices ==
  SliceBounded /\ UNCHANGED <<level, timeinQ, dying>> => SliceBounded'
  BY DEF SliceBounded

\* A step that gives process p the whole slice of level l, which is its own.
LEMMA NewSlice ==
  ASSUME TypeOK, SliceBounded, NEW p \in Proc, NEW l \in Level,
         level' = [level EXCEPT ![p] = l],
         timeinQ' = [timeinQ EXCEPT ![p] = Slice(l)],
         dying' = dying \/ dying' = dying \ {p}
  PROVE  /\ level' \in [Proc -> Level] /\ timeinQ' \in [Proc -> Nat]
         /\ SliceBounded'
  <1>1. level' \in [Proc -> Level] /\ timeinQ' \in [Proc -> Nat]
    BY Constants DEF TypeOK
  <1>2. \A r \in Proc :
          timeinQ'[r] \in (IF r \in dying' THEN 0 ELSE 1)..Slice(level'[r])
    <2> TAKE r \in Proc
    <2>1. CASE r = p
      <3>1. level'[r] = l /\ timeinQ'[r] = Slice(l)
        BY <2>1 DEF TypeOK
      <3>2. Slice(l) \in 0..Slice(l) /\ Slice(l) \in 1..Slice(l)
        BY Constants
      <3> QED
        BY <3>1, <3>2
    <2>2. CASE r # p
      <3>1. level'[r] = level[r] /\ timeinQ'[r] = timeinQ[r] /\ (r \in dying' <=> r \in dying)
        BY <2>2 DEF TypeOK
      <3> QED
        BY <3>1 DEF SliceBounded
    <2> QED
      BY <2>1, <2>2
  <1> QED
    BY <1>1, <1>2 DEF SliceBounded

LEMMA AgeingTInv == TInv /\ Ageing => TInv'
  <1> SUFFICES ASSUME TInv, Ageing PROVE TInv'
    OBVIOUS
  <1> USE DEF TInv
  <1>1. PICK p \in Proc : p = k
    BY Constants DEF Ageing, TypeOK
  <1>2. PICK l \in Level : l = level[p]
    BY DEF TypeOK
  <1>3. mfq[l] \in Ring
    BY DEF TypeOK
  <1>4. k' \in 1..(NPROC + 1) /\ lev' \in 0..NLEVEL
    BY Constants DEF Ageing, TypeOK
  <1>5. /\ state' \in [Proc -> {"UNUSED", "SLEEPING", "RUNNABLE", "RUNNING"}]
        /\ low' \in Proc \cup {Null}
        /\ pc' \in {"ageing", "enqueue", "dequeue", "run", "spin"} /\ pc' # "run"
        /\ UNCHANGED <<killed, dying>>
    BY DEF Ageing, TypeOK
  <1>6. removed' \in BOOLEAN
    BY Zenon DEF Ageing, TypeOK, TooOld
  <1>7. mfq' \in [Level -> Ring]
    <2>1. CASE TooOld(p) /\ inQ[p] /\ ~RemoveSpins(mfq[l])
      <3>1. mfq' = [mfq EXCEPT ![l] = Remove(mfq[l])]
        BY <1>1, <1>2, <2>1 DEF Ageing
      <3>2. Remove(mfq[l]) \in Ring
        BY <1>1, <1>3, <2>1, RingTypes
      <3> QED
        BY <3>1, <3>2 DEF TypeOK
    <2>2. CASE ~(TooOld(p) /\ inQ[p] /\ ~RemoveSpins(mfq[l]))
      <3>1. mfq' = mfq
        BY <1>1, <1>2, <2>2 DEF Ageing
      <3> QED
        BY <3>1 DEF TypeOK
    <2> QED
      BY <2>1, <2>2
  <1>8. CASE TooOld(p) /\ ~(inQ[p] /\ RemoveSpins(mfq[l]))
    <2>1. /\ inQ' = [inQ EXCEPT ![p] = FALSE]
          /\ age' = [age EXCEPT ![p] = 0]
          /\ level' = [level EXCEPT ![p] = IF Promoted(p) THEN @ - 1 ELSE @]
          /\ timeinQ' = [timeinQ EXCEPT ![p] =
                           IF Promoted(p) THEN Slice(level[p] - 1) ELSE @]
      BY <1>1, <1>2, <1>8 DEF Ageing
    <2>2. inQ' \in [Proc -> BOOLEAN]
      BY <2>1, Zenon DEF TypeOK
    <2>3. age' \in [Proc -> 0..(AGE + 1)]
      BY <2>1, Constants DEF TypeOK
    <2>4. CASE Promoted(p)
      <3>1. PICK m \in Level : m = level[p] - 1
        BY <1>2, <2>4, Constants DEF Promoted
      <3>2. level' = [level EXCEPT ![p] = m] /\ timeinQ' = [timeinQ EXCEPT ![p] = Slice(m)]
        BY <2>1, <2>4, <3>1
      <3>3. level' \in [Proc -> Level] /\ timeinQ' \in [Proc -> Nat] /\ SliceBounded'
        BY <1>5, <3>2, NewSlice
      <3> QED
        BY <1>4, <1>5, <1>6, <1>7, <2>2, <2>3, <3>3 DEF TypeOK, CpuOK
    <2>5. CASE ~Promoted(p)
      <3>1. level' = level /\ timeinQ' = timeinQ
        BY <2>1, <2>5 DEF TypeOK
      <3>2. level' \in [Proc -> Level] /\ timeinQ' \in [Proc -> Nat] /\ SliceBounded'
        BY <1>5, <3>1, SameSlices DEF TypeOK
      <3> QED
        BY <1>4, <1>5, <1>6, <1>7, <2>2, <2>3, <3>2 DEF TypeOK, CpuOK
    <2> QED
      BY <2>4, <2>5
  <1>9. CASE ~(TooOld(p) /\ ~(inQ[p] /\ RemoveSpins(mfq[l])))
    <2>1. UNCHANGED <<inQ, age, level, timeinQ>>
      BY <1>1, <1>2, <1>9 DEF Ageing
    <2>2. /\ inQ' \in [Proc -> BOOLEAN] /\ age' \in [Proc -> 0..(AGE + 1)]
          /\ level' \in [Proc -> Level] /\ timeinQ' \in [Proc -> Nat]
          /\ SliceBounded'
      BY <1>5, <2>1, SameSlices DEF TypeOK
    <2> QED
      BY <1>4, <1>5, <1>6, <1>7, <2>2 DEF TypeOK, CpuOK
  <1> QED
    BY <1>8, <1>9

LEMMA EnqueueTurnTInv == TInv /\ EnqueueTurn => TInv'
  <1> SUFFICES ASSUME TInv, EnqueueTurn PROVE TInv'
    OBVIOUS
  <1> USE DEF TInv
  <1>1. PICK p \in Proc : p = k
    BY Constants DEF EnqueueTurn, TypeOK
  <1>2. k' \in 1..(NPROC + 1)
    BY Constants DEF EnqueueTurn, TypeOK
  <1>3. mfq' \in [Level -> Ring]
    <2>1. PICK l \in Level : l = level[p]
      BY DEF TypeOK
    <2>2. Enqueue(mfq[l], p) \in Ring
      BY RingTypes DEF TypeOK
    <2>3. mfq' = [mfq EXCEPT ![l] = Enqueue(mfq[l], p)] \/ mfq' = mfq
      BY <1>1, <2>1 DEF EnqueueTurn
    <2> QED
      BY <2>2, <2>3 DEF TypeOK
  <1>4. inQ' \in [Proc -> BOOLEAN]
    BY <1>1, Zenon DEF EnqueueTurn, TypeOK
  <1>5. SliceBounded' /\ CpuOK'
    BY SameSlices DEF EnqueueTurn, CpuOK
  <1> QED
    BY <1>2, <1>3, <1>4, <1>5 DEF TypeOK, EnqueueTurn

LEMMA PassTInv ==
  TInv /\ (AgeingDone \/ EnqueueDone \/ NothingToRun) => TInv'
  <1> SUFFICES ASSUME TInv, AgeingDone \/ EnqueueDone \/ NothingToRun PROVE TInv'
    OBVIOUS
  <1> USE DEF TInv
  <1>1. k' \in 1..(NPROC + 1) /\ lev' \in 0..NLEVEL
    BY Constants DEF TypeOK, AgeingDone, EnqueueDone, NothingToRun
  <1>2. UNCHANGED <<procVars, mfq, low, removed>>
    BY DEF AgeingDone, EnqueueDone, NothingToRun
  <1>3. pc' \in {"ageing", "enqueue", "dequeue"}
    BY DEF AgeingDone, EnqueueDone, NothingToRun
  <1>4. SliceBounded'
    BY <1>2, SameSlices DEF procVars
  <1> QED
    BY <1>1, <1>2, <1>3, <1>4 DEF TypeOK, CpuOK, procVars

LEMMA NextLevelTInv == TInv /\ NextLevel => TInv'
  <1> SUFFICES ASSUME TInv, NextLevel PROVE TInv'
    OBVIOUS
  <1> USE DEF TInv
  <1>1. lev \in Level /\ lev' \in 0..NLEVEL
    BY Constants DEF TypeOK, NextLevel
  <1>2. mfq' \in [Level -> Ring]
    <2>1. Dequeue(mfq[lev]) \in Ring
      BY <1>1, RingTypes, Constants DEF TypeOK
    <2> QED
      BY <1>1, <2>1 DEF TypeOK, NextLevel
  <1>3. UNCHANGED <<procVars, pc, k, low, removed>>
    BY DEF NextLevel
  <1>4. SliceBounded'
    BY <1>3, SameSlices DEF procVars
  <1> QED
    BY <1>1, <1>2, <1>3, <1>4 DEF TypeOK, CpuOK, procVars

LEMMA DispatchTInv == TInv /\ Dispatch => TInv'
  <1> SUFFICES ASSUME TInv, Dispatch PROVE TInv'
    OBVIOUS
  <1> USE DEF TInv
  <1>1. lev \in Level
    BY Constants DEF TypeOK, Dispatch
  <1>2. Dequeue(mfq[lev]) \in Ring /\ First(mfq[lev]) \in Proc \cup {Null}
    BY <1>1, RingTypes, Constants DEF TypeOK
  <1>3. PICK p \in Proc : p = First(mfq[lev])
    BY <1>2 DEF Dispatch
  <1>4. mfq' \in [Level -> Ring]
    BY <1>1, <1>2 DEF TypeOK, Dispatch
  <1>5. inQ' \in [Proc -> BOOLEAN]
    BY <1>3, Zenon DEF TypeOK, Dispatch
  <1>6. SliceBounded'
    BY SameSlices DEF Dispatch
  <1>7. CASE state[p] = "RUNNABLE"
    <2>1. /\ lev' = 0
          /\ age' = [age EXCEPT ![p] = 0]
          /\ state' = [state EXCEPT ![p] = "RUNNING"]
          /\ low' = p
          /\ pc' = "run"
          /\ UNCHANGED <<level, timeinQ, killed, dying, k, removed>>
      BY <1>3, <1>7 DEF Dispatch
    <2>2. age' \in [Proc -> 0..(AGE + 1)] /\ lev' \in 0..NLEVEL
      BY <2>1, Constants DEF TypeOK
    <2>3. state' \in [Proc -> {"UNUSED", "SLEEPING", "RUNNABLE", "RUNNING"}]
      BY <2>1 DEF TypeOK
    <2>4. state'[p] = "RUNNING"
      BY <2>1 DEF TypeOK
    <2> QED
      BY <1>4, <1>5, <1>6, <2>1, <2>2, <2>3, <2>4 DEF TypeOK, CpuOK
  <1>8. CASE state[p] # "RUNNABLE"
    <2>1. UNCHANGED <<age, state, low, pc, lev, level, timeinQ, killed, dying, k, removed>>
      BY <1>3, <1>8 DEF Dispatch
    <2> QED
      BY <1>4, <1>5, <1>6, <2>1 DEF TypeOK, CpuOK
  <1> QED
    BY <1>7, <1>8

\* The running process leaves the CPU.
LEMMA SwitchOutTypes ==
  ASSUME TInv, pc = "run", NEW s \in {"SLEEPING", "UNUSED", "RUNNABLE"},
         NEW ages \in [Proc -> 0..(AGE + 1)], SwitchOut(s, ages)
  PROVE  /\ state' \in [Proc -> {"UNUSED", "SLEEPING", "RUNNABLE", "RUNNING"}]
         /\ age' \in [Proc -> 0..(AGE + 1)]
         /\ low' \in Proc \cup {Null}
         /\ pc' \in {"ageing", "enqueue", "dequeue", "run", "spin"} /\ pc' # "run"
         /\ k' \in 1..(NPROC + 1)
  <1>1. low \in Proc
    BY DEF TInv, CpuOK
  <1>2. age' \in [Proc -> 0..(AGE + 1)] /\ k' \in 1..(NPROC + 1)
    <2> DEFINE left == [ages EXCEPT ![low] = 0]
    <2>1. left \in [Proc -> 0..(AGE + 1)]
      <3>1. 0 \in 0..(AGE + 1)
        BY MlfqAssumption
      <3> QED
        BY <3>1
    <2>2. age' \in {left} \cup {Older(left, state')}
      BY DEF SwitchOut
    <2>3. Older(left, state') \in [Proc -> 0..(AGE + 1)]
      <3> HIDE DEF left
      <3> QED
        BY <2>1, OlderType
    <2>4. k' = 1
      BY DEF SwitchOut
    <2> HIDE DEF left
    <2> QED
      BY <2>1, <2>2, <2>3, <2>4, Constants
  <1> QED
    BY <1>1, <1>2 DEF SwitchOut, TInv, TypeOK

LEMMA SleepTInv == TInv /\ Sleep => TInv'
  <1> SUFFICES ASSUME TInv, Sleep PROVE TInv'
    OBVIOUS
  <1>1. /\ state' \in [Proc -> {"UNUSED", "SLEEPING", "RUNNABLE", "RUNNING"}]
        /\ age' \in [Proc -> 0..(AGE + 1)]
        /\ low' \in Proc \cup {Null}
        /\ pc' \in {"ageing", "enqueue", "dequeue", "run", "spin"} /\ pc' # "run"
        /\ k' \in 1..(NPROC + 1)
    BY SwitchOutTypes DEF Sleep, TInv, TypeOK
  <1>2. SliceBounded'
    BY SameSlices DEF Sleep, TInv
  <1> QED
    BY <1>1, <1>2 DEF Sleep, TInv, TypeOK, CpuOK

LEMMA ExitTInv == TInv /\ Exit => TInv'
  <1> SUFFICES ASSUME TInv, Exit PROVE TInv'
    OBVIOUS
  <1>1. /\ state' \in [Proc -> {"UNUSED", "SLEEPING", "RUNNABLE", "RUNNING"}]
        /\ age' \in [Proc -> 0..(AGE + 1)]
        /\ low' \in Proc \cup {Null}
        /\ pc' \in {"ageing", "enqueue", "dequeue", "run", "spin"} /\ pc' # "run"
        /\ k' \in 1..(NPROC + 1)
    BY SwitchOutTypes DEF Exit, TInv, TypeOK
  <1>2. low \in Proc /\ 0 \in Level
    BY Constants DEF Exit, TInv, CpuOK
  <1>3. level' \in [Proc -> Level] /\ timeinQ' \in [Proc -> Nat] /\ SliceBounded'
    BY <1>2, NewSlice DEF Exit, TInv
  <1> QED
    BY <1>1, <1>3 DEF Exit, TInv, TypeOK, CpuOK

LEMMA ForkTInv == ASSUME TInv, NEW c \in Proc, Fork(c) PROVE TInv'
  <1>1. state' \in [Proc -> {"UNUSED", "SLEEPING", "RUNNABLE", "RUNNING"}]
    BY DEF Fork, TInv, TypeOK
  <1>2. age' \in [Proc -> 0..(AGE + 1)]
    BY Constants DEF Fork, TInv, TypeOK
  <1>3. inQ' \in [Proc -> BOOLEAN]
    BY Zenon DEF Fork, TInv, TypeOK
  <1>4. level' \in [Proc -> Level] /\ timeinQ' \in [Proc -> Nat] /\ SliceBounded'
    BY NewSlice, Constants DEF Fork, TInv
  <1>5. CpuOK'
    BY DEF Fork, TInv, TypeOK, CpuOK
  <1> QED
    BY <1>1, <1>2, <1>3, <1>4, <1>5 DEF Fork, TInv, TypeOK

LEMMA WakeupTInv == ASSUME TInv, NEW p \in Proc, Wakeup(p) PROVE TInv'
  <1>1. state' \in [Proc -> {"UNUSED", "SLEEPING", "RUNNABLE", "RUNNING"}]
    BY DEF Wakeup, TInv, TypeOK
  <1>2. SliceBounded'
    BY SameSlices DEF Wakeup, TInv
  <1>3. CpuOK'
    BY DEF Wakeup, TInv, TypeOK, CpuOK
  <1> QED
    BY <1>1, <1>2, <1>3 DEF Wakeup, TInv, TypeOK

LEMMA TickTInv == TInv /\ Tick => TInv'
  <1> SUFFICES ASSUME TInv, Tick PROVE TInv'
    OBVIOUS
  <1>1. low \in Proc
    BY DEF Tick, TInv, CpuOK
  <1>2. Older(age, state) \in [Proc -> 0..(AGE + 1)]
    BY OlderType DEF TInv, TypeOK
  <1>3. CASE SliceOver
    <2>1. PICK l \in Level : l = IF level[low] < NLEVEL - 1 THEN level[low] + 1 ELSE level[low]
      BY <1>1, Constants DEF TInv, TypeOK
    <2>2. /\ level' = [level EXCEPT ![low] = l]
          /\ timeinQ' = [timeinQ EXCEPT ![low] = Slice(l)]
          /\ SwitchOut("RUNNABLE", Older(age, state))
          /\ UNCHANGED dying
      BY <1>3, <2>1 DEF Tick
    <2>3. level' \in [Proc -> Level] /\ timeinQ' \in [Proc -> Nat] /\ SliceBounded'
      BY <1>1, <2>2, NewSlice DEF TInv
    <2>4. /\ state' \in [Proc -> {"UNUSED", "SLEEPING", "RUNNABLE", "RUNNING"}]
          /\ age' \in [Proc -> 0..(AGE + 1)]
          /\ low' \in Proc \cup {Null}
          /\ pc' \in {"ageing", "enqueue", "dequeue", "run", "spin"} /\ pc' # "run"
          /\ k' \in 1..(NPROC + 1)
      BY <1>2, <2>2, SwitchOutTypes DEF Tick
    <2> QED
      BY <2>3, <2>4 DEF Tick, TInv, TypeOK, CpuOK
  <1>4. CASE ~SliceOver
    <2>1. /\ timeinQ' = [timeinQ EXCEPT ![low] = @ - 1]
          /\ age' = Older(age, state)
          /\ UNCHANGED <<state, level, pc, k, low, inQ, killed, dying, mfq, lev, removed>>
      BY <1>4 DEF Tick
    <2>2. timeinQ[low] \in Nat /\ timeinQ[low] > 1
      BY <1>1, <1>4 DEF SliceOver, TInv, TypeOK
    <2>3. timeinQ' \in [Proc -> Nat]
      BY <1>1, <2>1, <2>2 DEF TInv, TypeOK
    <2>4. SliceBounded'
      <3>1. \A p \in Proc : timeinQ'[p] \in (IF p \in dying THEN 0 ELSE 1)..Slice(level[p])
        <4> TAKE p \in Proc
        <4>1. Slice(level[p]) \in Nat
          BY Constants DEF TInv, TypeOK
        <4>2. timeinQ[p] \in (IF p \in dying THEN 0 ELSE 1)..Slice(level[p])
          BY DEF TInv, SliceBounded
        <4>3. timeinQ'[p] = IF p = low THEN timeinQ[p] - 1 ELSE timeinQ[p]
          BY <2>1 DEF TInv, TypeOK
        <4> QED
          BY <4>1, <4>2, <4>3, <2>2
      <3> QED
        BY <2>1, <3>1 DEF SliceBounded
    <2> QED
      BY <1>2, <2>1, <2>3, <2>4 DEF TInv, TypeOK, CpuOK
  <1> QED
    BY <1>3, <1>4

\* A killed process is charged once more, and no more when it is dying.
LEMMA TickKilledTInv == TInv /\ TickKilled => TInv'
  <1> SUFFICES ASSUME TInv, TickKilled PROVE TInv'
    OBVIOUS
  <1>1. low \in Proc /\ low \notin dying
    BY DEF TickKilled, TInv, CpuOK
  <1>2. age' \in [Proc -> 0..(AGE + 1)]
    BY OlderType DEF TickKilled, TInv, TypeOK
  <1>3. timeinQ[low] \in 1..Slice(level[low])
    BY <1>1 DEF TInv, SliceBounded
  <1>4. timeinQ' \in [Proc -> Nat]
    BY <1>1, <1>3 DEF TickKilled, TInv, TypeOK
  <1>5. SliceBounded'
    <2>1. \A p \in Proc : timeinQ'[p] \in (IF p \in dying' THEN 0 ELSE 1)..Slice(level[p])
      <3> TAKE p \in Proc
      <3>1. timeinQ[p] \in (IF p \in dying THEN 0 ELSE 1)..Slice(level[p])
        BY DEF TInv, SliceBounded
      <3>2. timeinQ'[p] = IF p = low THEN timeinQ[p] - 1 ELSE timeinQ[p]
        BY DEF TickKilled, TInv, TypeOK
      <3>3. p \in dying' <=> p = low \/ p \in dying
        BY DEF TickKilled
      <3>4. Slice(level[p]) \in Nat
        BY Constants DEF TInv, TypeOK
      <3> QED
        BY <1>3, <3>1, <3>2, <3>3, <3>4
    <2> QED
      BY <2>1 DEF TickKilled, SliceBounded
  <1> QED
    BY <1>1, <1>2, <1>4, <1>5 DEF TickKilled, TInv, TypeOK, CpuOK

LEMMA KillTInv == ASSUME TInv, NEW p \in Proc, Kill(p) PROVE TInv'
  <1>1. state' \in [Proc -> {"UNUSED", "SLEEPING", "RUNNABLE", "RUNNING"}]
    BY DEF Kill, TInv, TypeOK
  <1>2. SliceBounded'
    BY SameSlices DEF Kill, TInv
  <1>3. CpuOK'
    BY DEF Kill, TInv, TypeOK, CpuOK
  <1> QED
    BY <1>1, <1>2, <1>3 DEF Kill, TInv, TypeOK

LEMMA IdleTickTInv == TInv /\ IdleTick => TInv'
  <1> SUFFICES ASSUME TInv, IdleTick PROVE TInv'
    OBVIOUS
  <1>1. age' \in [Proc -> 0..(AGE + 1)]
    BY OlderType DEF IdleTick, TInv, TypeOK
  <1>2. SliceBounded'
    BY SameSlices DEF IdleTick, TInv
  <1> QED
    BY <1>1, <1>2 DEF IdleTick, TInv, TypeOK, CpuOK

LEMMA NextTInv == TInv /\ [Next]_vars => TInv'
  <1> SUFFICES ASSUME TInv, [Next]_vars PROVE TInv'
    OBVIOUS
  <1>1. CASE UNCHANGED vars
    <2>1. SliceBounded'
      BY <1>1, SameSlices DEF vars, procVars, TInv
    <2> QED
      BY <1>1, <2>1 DEF vars, procVars, TInv, TypeOK, CpuOK
  <1> QED
    BY <1>1, AgeingTInv, PassTInv, EnqueueTurnTInv, NextLevelTInv, DispatchTInv,
       SleepTInv, ExitTInv, ForkTInv, WakeupTInv, KillTInv, TickTInv, TickKilledTInv,
       IdleTickTInv
    DEF Next, SchedulerStep

(***************************************************************************)
(* What the steps of the scheduler do to the queues.                       *)
(***************************************************************************)

\* The slots in use are slots.
LEMMA OccupiedSlots ==
  ASSUME NEW q, RingOK(q)
  PROVE  /\ Occupied(q) \subseteq Index
         /\ \A j \in Occupied(q) : q.list[j] \in Proc \cup {Null}
  <1>1. Occupied(q) \subseteq Index
    BY MlfqAssumption DEF RingOK, Ring, Occupied, Index
  <1> QED
    BY <1>1 DEF RingOK, Ring

\* A step that changes no ring and no mark, and nothing of a marked process.
LEMMA SameQueues ==
  ASSUME TypeOK, QueueInv, UNCHANGED <<mfq, inQ>>,
         \A p \in Proc : inQ[p] => state'[p] = state[p] /\ level'[p] = level[p]
  PROVE  QueueInv' /\ (NoDummies => NoDummies')
  <1>1. Rings' /\ StandOnce' /\ (NoDummies => NoDummies')
    BY DEF QueueInv, Rings, StandOnce, NoDummies
  <1>2. StandersMarked'
    <2>1. \A l \in Level : \A j \in Occupied(mfq[l]) : mfq[l].list[j] \in Proc \cup {Null}
      BY OccupiedSlots DEF QueueInv, Rings
    <2> QED
      BY <2>1 DEF QueueInv, StandersMarked
  <1>3. MarkedStand'
    BY DEF QueueInv, MarkedStand
  <1> QED
    BY <1>1, <1>2, <1>3 DEF QueueInv

\* A process that became RUNNABLE goes into the ring of its level.
LEMMA EnqueueQueues ==
  ASSUME TypeOK, QueueInv, NEW p \in Proc, ~inQ[p], state[p] = "RUNNABLE",
         LET q == mfq[level[p]]
         IN  q.front # -1 => (q.rear + 1) % NPROC # q.front,
         mfq' = [mfq EXCEPT ![level[p]] = Enqueue(@, p)],
         inQ' = [inQ EXCEPT ![p] = TRUE],
         UNCHANGED <<state, level>>
  PROVE  QueueInv' /\ (NoDummies => NoDummies')
  <1>1. PICK l \in Level : l = level[p]
    BY DEF TypeOK
  <1>2. PICK q : q = mfq[l]
    OBVIOUS
  <1>3. RingOK(q)
    BY <1>2 DEF QueueInv, Rings
  <1>4. PICK r \in Index :
           /\ r \notin Occupied(q)
           /\ RingOK(Enqueue(q, p))
           /\ Occupied(Enqueue(q, p)) = Occupied(q) \cup {r}
           /\ Enqueue(q, p).list = [q.list EXCEPT ![r] = p]
    BY <1>1, <1>2, <1>3, EnqueueRing
  <1>5. /\ mfq'[l] = Enqueue(q, p)
        /\ \A m \in Level : m # l => mfq'[m] = mfq[m]
    BY <1>1, <1>2 DEF TypeOK
  <1>6. q.list \in [Index -> Proc \cup {Null}] /\ Occupied(q) \subseteq Index
    BY <1>3, OccupiedSlots DEF RingOK, Ring
  <1>7. /\ mfq'[l].list[r] = p
        /\ \A j \in Occupied(q) : mfq'[l].list[j] = q.list[j]
    BY <1>4, <1>5, <1>6
  <1>8. Occupied(mfq'[l]) = Occupied(q) \cup {r}
    BY <1>4, <1>5
  <1>9. inQ'[p] /\ \A o \in Proc : o # p => inQ'[o] = inQ[o]
    BY DEF TypeOK
  <1>10. \A m \in Level : \A j \in Occupied(mfq[m]) : mfq[m].list[j] \in (Proc \cup {Null}) \ {p}
    <2> TAKE m \in Level
    <2> TAKE j \in Occupied(mfq[m])
    <2>1. mfq[m].list[j] \in Proc \cup {Null}
      BY OccupiedSlots DEF QueueInv, Rings
    <2>2. mfq[m].list[j] = p => inQ[p]
      BY Constants DEF QueueInv, StandersMarked, Null
    <2> QED
      BY <2>1, <2>2
  <1>11. p # Null
    BY Constants DEF Null
  <1>12. Rings'
    BY <1>4, <1>5 DEF QueueInv, Rings
  <1>13. StandersMarked'
    <2> SUFFICES ASSUME NEW m \in Level, NEW j \in Occupied(mfq'[m]), mfq'[m].list[j] # Null
                 PROVE  inQ'[mfq'[m].list[j]] /\ level[mfq'[m].list[j]] = m
      BY DEF StandersMarked
    <2>1. CASE m = l /\ j = r
      BY <2>1, <1>1, <1>7, <1>9
    <2>2. CASE m = l /\ j # r
      <3>1. j \in Occupied(mfq[l]) /\ mfq'[m].list[j] = mfq[l].list[j]
        BY <2>2, <1>2, <1>7, <1>8
      <3>2. mfq[l].list[j] \in Proc /\ mfq[l].list[j] # p
        BY <3>1, <1>10
      <3>3. inQ[mfq[l].list[j]] /\ level[mfq[l].list[j]] = l
        BY <3>1 DEF QueueInv, StandersMarked
      <3> QED
        BY <2>2, <3>1, <3>2, <3>3, <1>9
    <2>3. CASE m # l
      <3>1. j \in Occupied(mfq[m]) /\ mfq'[m].list[j] = mfq[m].list[j]
        BY <2>3, <1>5
      <3>2. mfq[m].list[j] \in Proc /\ mfq[m].list[j] # p
        BY <3>1, <1>10
      <3>3. inQ[mfq[m].list[j]] /\ level[mfq[m].list[j]] = m
        BY <3>1 DEF QueueInv, StandersMarked
      <3> QED
        BY <3>1, <3>2, <3>3, <1>9
    <2> QED
      BY <2>1, <2>2, <2>3
  <1>14. StandOnce'
    <2> SUFFICES ASSUME NEW m \in Level, NEW i \in Occupied(mfq'[m]), NEW j \in Occupied(mfq'[m]),
                        mfq'[m].list[i] = mfq'[m].list[j], mfq'[m].list[i] # Null
                 PROVE  i = j
      BY DEF StandOnce
    <2>1. CASE m # l
      BY <2>1, <1>5 DEF QueueInv, StandOnce
    <2>2. CASE m = l /\ i # r /\ j # r
      BY <2>2, <1>2, <1>7, <1>8 DEF QueueInv, StandOnce
    <2>3. CASE m = l /\ (i = r \/ j = r)
      BY <2>3, <1>2, <1>7, <1>8, <1>10
    <2> QED
      BY <2>1, <2>2, <2>3
  <1>15. MarkedStand'
    <2> SUFFICES ASSUME NEW o \in Proc, inQ'[o]
                 PROVE  /\ state[o] = "RUNNABLE"
                        /\ \E j \in Occupied(mfq'[level[o]]) : mfq'[level[o]].list[j] = o
      BY DEF MarkedStand
    <2>1. CASE o = p
      BY <2>1, <1>1, <1>7, <1>8
    <2>2. CASE o # p
      <3>1. state[o] = "RUNNABLE"
        BY <2>2, <1>9 DEF QueueInv, MarkedStand
      <3>2. PICK j \in Occupied(mfq[level[o]]) : mfq[level[o]].list[j] = o
        BY <2>2, <1>9 DEF QueueInv, MarkedStand
      <3>3. level[o] \in Level
        BY DEF TypeOK
      <3>4. j \in Occupied(mfq'[level[o]]) /\ mfq'[level[o]].list[j] = o
        BY <3>2, <3>3, <1>2, <1>5, <1>7, <1>8
      <3> QED
        BY <3>1, <3>4
    <2> QED
      BY <2>1, <2>2
  <1>16. NoDummies => NoDummies'
    <2> SUFFICES ASSUME NoDummies, NEW m \in Level, NEW j \in Occupied(mfq'[m])
                 PROVE  mfq'[m].list[j] # Null
      BY DEF NoDummies
    <2>1. CASE m # l
      BY <2>1, <1>5 DEF NoDummies
    <2>2. CASE m = l
      BY <2>2, <1>2, <1>7, <1>8, <1>11 DEF NoDummies
    <2> QED
      BY <2>1, <2>2
  <1> QED
    BY <1>12, <1>13, <1>14, <1>15, <1>16 DEF QueueInv

\* The first element of level l, a process or a null element, leaves its ring.
LEMMA DequeueQueues ==
  ASSUME TypeOK, QueueInv, NEW l \in Level,
         mfq' = [mfq EXCEPT ![l] = Dequeue(@)],
         \A o \in Proc : inQ'[o] = (inQ[o] /\ o # First(mfq[l])),
         \A o \in Proc : inQ'[o] => state'[o] = state[o],
         UNCHANGED level
  PROVE  QueueInv' /\ (NoDummies => NoDummies')
  <1>1. PICK q : q = mfq[l]
    OBVIOUS
  <1>2. RingOK(q)
    BY <1>1 DEF QueueInv, Rings
  <1>3. /\ RingOK(Dequeue(q))
        /\ Occupied(Dequeue(q)) = Occupied(q) \ {q.front}
        /\ \A j \in Occupied(Dequeue(q)) : Dequeue(q).list[j] = q.list[j]
        /\ q.front # -1 => q.front \in Occupied(q)
        /\ q.front = -1 => Occupied(q) = {}
    BY <1>2, DequeueRing
  <1>4. /\ mfq'[l] = Dequeue(q)
        /\ \A m \in Level : m # l => mfq'[m] = mfq[m]
    BY <1>1 DEF TypeOK
  <1>5. \A m \in Level : \A j \in Occupied(mfq[m]) : mfq[m].list[j] \in Proc \cup {Null}
    BY OccupiedSlots DEF QueueInv, Rings
  <1>6. \A m \in Level : \A j \in Occupied(mfq'[m]) :
          j \in Occupied(mfq[m]) /\ mfq'[m].list[j] = mfq[m].list[j]
    BY <1>1, <1>3, <1>4
  <1>7. First(q) = q.list[q.front] \/ (q.front = -1 /\ First(q) = Null)
    BY DEF First
  <1>8. Rings'
    BY <1>3, <1>4 DEF QueueInv, Rings
  <1>9. \A m \in Level : \A j \in Occupied(mfq'[m]) :
          mfq[m].list[j] # Null => mfq[m].list[j] # First(q)
    <2> SUFFICES ASSUME NEW m \in Level, NEW j \in Occupied(mfq'[m]),
                        mfq[m].list[j] # Null, mfq[m].list[j] = First(q)
                 PROVE  FALSE
      OBVIOUS
    <2>1. j \in Occupied(mfq[m])
      BY <1>6
    <2>2. q.front # -1 /\ First(q) = q.list[q.front]
      BY <1>7 DEF First
    <2>3. q.front \in Occupied(mfq[l]) /\ mfq[l].list[q.front] = mfq[m].list[j]
      BY <1>1, <1>3, <2>2
    <2>4. m = l
      BY <2>1, <2>3 DEF QueueInv, StandersMarked
    <2>5. j # q.front
      BY <2>4, <1>3, <1>4
    <2> QED
      BY <2>1, <2>3, <2>4, <2>5 DEF QueueInv, StandOnce
  <1>10. StandersMarked'
    <2> SUFFICES ASSUME NEW m \in Level, NEW j \in Occupied(mfq'[m]), mfq'[m].list[j] # Null
                 PROVE  inQ'[mfq'[m].list[j]] /\ level[mfq'[m].list[j]] = m
      BY DEF StandersMarked
    <2>1. j \in Occupied(mfq[m]) /\ mfq'[m].list[j] = mfq[m].list[j]
      BY <1>6
    <2>2. mfq[m].list[j] \in Proc /\ mfq[m].list[j] # First(q)
      BY <2>1, <1>5, <1>9
    <2>3. inQ[mfq[m].list[j]] /\ level[mfq[m].list[j]] = m
      BY <2>1 DEF QueueInv, StandersMarked
    <2>4. inQ'[mfq[m].list[j]]
      BY <2>2, <2>3, <1>1
    <2> QED
      BY <2>1, <2>3, <2>4
  <1>11. StandOnce'
    BY <1>6 DEF QueueInv, StandOnce
  <1>12. MarkedStand'
    <2> SUFFICES ASSUME NEW o \in Proc, inQ'[o]
                 PROVE  /\ state'[o] = "RUNNABLE"
                        /\ \E j \in Occupied(mfq'[level[o]]) : mfq'[level[o]].list[j] = o
      BY DEF MarkedStand
    <2>1. inQ[o] /\ o # First(q) /\ state'[o] = state[o]
      BY <1>1
    <2>2. PICK j \in Occupied(mfq[level[o]]) : mfq[level[o]].list[j] = o
      BY <2>1 DEF QueueInv, MarkedStand
    <2>3. level[o] \in Level
      BY DEF TypeOK
    <2>4. CASE level[o] # l
      BY <2>1, <2>2, <2>3, <2>4, <1>4 DEF QueueInv, MarkedStand
    <2>5. CASE level[o] = l
      <3>1. j # q.front
        BY <2>1, <2>2, <2>5, <1>1, <1>3, <1>7
      <3>2. j \in Occupied(mfq'[l]) /\ mfq'[l].list[j] = o
        BY <3>1, <2>2, <2>5, <1>1, <1>3, <1>4
      <3> QED
        BY <2>1, <2>5, <3>2 DEF QueueInv, MarkedStand
    <2> QED
      BY <2>4, <2>5
  <1>13. NoDummies => NoDummies'
    BY <1>6 DEF NoDummies
  <1> QED
    BY <1>8, <1>10, <1>11, <1>12, <1>13 DEF QueueInv

(***************************************************************************)
(* The queues, until ProcQueueRemove() is called.                          *)
(***************************************************************************)

\* The ring that pq_init() makes: a null element in slot 0 and room for more.
LEMMA EmptyRingFacts ==
  /\ RingOK(EmptyRing)
  /\ Occupied(EmptyRing) = {0}
  /\ EmptyRing.front = 0 /\ EmptyRing.rear = 0 /\ EmptyRing.list[0] = Null
  /\ (EmptyRing.rear + 1) % NPROC # EmptyRing.front
  <1>1. 0 \in Index /\ -1 \notin Index
    BY MlfqAssumption DEF Index
  <1>2. RingOK(EmptyRing)
    BY <1>1 DEF EmptyRing, RingOK, Ring
  <1>3. EmptyRing.front = 0 /\ EmptyRing.rear = 0 /\ EmptyRing.list[0] = Null
    BY <1>1 DEF EmptyRing
  <1>4. Occupied(EmptyRing) = 0..0
    BY <1>3 DEF Occupied
  <1>5. (0 + 1) % NPROC = 0 + 1
    BY <1>1, Successor, MlfqAssumption
  <1> QED
    BY <1>2, <1>3, <1>4, <1>5

LEMMA InitQInv == Init => QInv
  <1> SUFFICES ASSUME Init PROVE QInv
    OBVIOUS
  <1>1. \A l \in Level : mfq[l] = EmptyRing
    BY DEF Init
  <1>2. \A p \in Proc : inQ[p] = FALSE
    BY DEF Init
  <1>3. QueueInv
    BY <1>1, <1>2, EmptyRingFacts DEF QueueInv, Rings, StandersMarked, StandOnce, MarkedStand
  <1>4. FirstPass
    BY <1>1, <1>2, Constants DEF Init, FirstPass
  <1> QED
    BY <1>3, <1>4 DEF QInv

\* A step that QueueInv survives by SameQueues, outside the first pass and with
\* the dequeueing loop where it was, if it runs at all.
LEMMA QuietStep ==
  ASSUME TypeOK, QInv, ~FirstPass, UNCHANGED <<mfq, inQ>>,
         \A p \in Proc : inQ[p] => state'[p] = state[p] /\ level'[p] = level[p],
         pc' = "dequeue" => (pc = "dequeue" /\ lev' = lev)
  PROVE  QInv'
  <1>1. QueueInv' /\ NoDummies'
    BY SameQueues DEF QInv
  <1>2. HigherEmpty'
    BY DEF QInv, HigherEmpty
  <1> QED
    BY <1>1, <1>2 DEF QInv

LEMMA AgeingQInv == TInv /\ QInv /\ Ageing /\ ~removed' => QInv'
  <1> SUFFICES ASSUME TInv, QInv, Ageing, ~removed' PROVE QInv'
    OBVIOUS
  <1>1. PICK p \in Proc : p = k
    BY Constants DEF Ageing, TypeOK, TInv
  <1>2. ~(TooOld(p) /\ inQ[p])
    BY <1>1 DEF Ageing
  <1>3. mfq' = mfq /\ pc' = pc /\ pc = "ageing" /\ UNCHANGED <<state, lev, low>>
    BY <1>1, <1>2 DEF Ageing
  <1>4. CASE TooOld(p)
    <2>1. /\ inQ' = [inQ EXCEPT ![p] = FALSE]
          /\ level' = [level EXCEPT ![p] = IF Promoted(p) THEN @ - 1 ELSE @]
      BY <1>1, <1>2, <1>4 DEF Ageing
    <2>2. inQ[p] = FALSE
      BY <1>2, <1>4, Zenon DEF TInv, TypeOK
    <2>3. inQ' = inQ
      BY <2>1, <2>2 DEF TInv, TypeOK
    <2>4. \A o \in Proc : inQ[o] => level'[o] = level[o]
      BY <2>1, <2>2 DEF TInv, TypeOK
    <2>5. ~FirstPass
      <3> SUFFICES ASSUME FirstPass PROVE FALSE
        OBVIOUS
      <3>1. age[p] = 0
        BY DEF FirstPass
      <3> QED
        BY <3>1, <1>4, Constants DEF TooOld
    <2> QED
      BY <1>3, <2>3, <2>4, <2>5, QuietStep DEF TInv
  <1>5. CASE ~TooOld(p)
    <2>1. UNCHANGED <<inQ, age, level, timeinQ>>
      BY <1>1, <1>5 DEF Ageing
    <2>2. CASE ~FirstPass
      BY <1>3, <2>1, <2>2, QuietStep DEF TInv
    <2>3. CASE FirstPass
      <3>1. QueueInv'
        BY <1>3, <2>1, SameQueues DEF QInv, TInv
      <3>2. FirstPass'
        BY <1>3, <2>1, <2>3 DEF FirstPass
      <3> QED
        BY <3>1, <3>2 DEF QInv
    <2> QED
      BY <2>2, <2>3
  <1> QED
    BY <1>4, <1>5

LEMMA AgeingDoneQInv == TInv /\ QInv /\ AgeingDone => QInv'
  <1> SUFFICES ASSUME TInv, QInv, AgeingDone PROVE QInv'
    OBVIOUS
  <1>1. UNCHANGED <<procVars, mfq, lev, low>> /\ pc = "ageing" /\ pc' = "enqueue" /\ k' = 1
    BY DEF AgeingDone
  <1>2. CASE ~FirstPass
    BY <1>1, <1>2, QuietStep DEF TInv, procVars
  <1>3. CASE FirstPass
    <2>1. QueueInv'
      BY <1>1, SameQueues DEF QInv, TInv, procVars
    <2>2. FirstPass'
      BY <1>1, <1>3 DEF FirstPass, procVars
    <2> QED
      BY <2>1, <2>2 DEF QInv
  <1> QED
    BY <1>2, <1>3

LEMMA EnqueueTurnQInv == TInv /\ QInv /\ EnqueueTurn => QInv'
  <1> SUFFICES ASSUME TInv, QInv, EnqueueTurn PROVE QInv'
    OBVIOUS
  <1>1. PICK p \in Proc : p = k
    BY Constants DEF EnqueueTurn, TypeOK, TInv
  <1>2. /\ UNCHANGED <<state, level, timeinQ, age, pc, lev, low>>
        /\ pc = "enqueue" /\ k' = k + 1
    BY DEF EnqueueTurn
  <1>3. CASE ~EnqueueNew(p)
    <2>1. UNCHANGED <<inQ, mfq>>
      BY <1>1, <1>3 DEF EnqueueTurn
    <2>2. CASE ~FirstPass
      BY <1>2, <2>1, <2>2, QuietStep DEF TInv
    <2>3. CASE FirstPass
      <3>1. QueueInv'
        BY <1>2, <2>1, SameQueues DEF QInv, TInv
      <3>2. k > 1
        <4>1. p # 1
          BY <1>1, <1>2, <1>3, <2>3, Constants DEF FirstPass, EnqueueNew
        <4> QED
          BY <4>1, <1>1, Constants
      <3>3. k' > 1 /\ k' # 1
        BY <1>2, <3>2, <1>1, Constants
      <3>4. FirstPass'
        BY <1>2, <2>1, <2>3, <3>2, <3>3 DEF FirstPass
      <3> QED
        BY <3>1, <3>4 DEF QInv
    <2> QED
      BY <2>2, <2>3
  <1>4. CASE EnqueueNew(p)
    <2>1. /\ inQ' = [inQ EXCEPT ![p] = TRUE]
          /\ mfq' = [mfq EXCEPT ![level[p]] = Enqueue(@, p)]
      BY <1>1, <1>4 DEF EnqueueTurn
    <2>2. state[p] = "RUNNABLE" /\ ~inQ[p]
      BY <1>4 DEF EnqueueNew
    <2>3. CASE FirstPass
      <3>1. p = 1
        BY <2>2, <2>3 DEF FirstPass
      <3>2. mfq[0] = EmptyRing /\ level[p] = 0 /\ 0 \in Level
        BY <1>1, <1>2, <2>3, <3>1, Constants DEF FirstPass
      <3>3. QueueInv'
        BY <1>2, <2>1, <2>2, <3>2, EmptyRingFacts, EnqueueQueues DEF QInv, TInv
      <3>4. /\ mfq'[0] = Enqueue(EmptyRing, 1)
            /\ \A l \in Level \ {0} : mfq'[l] = mfq[l]
        BY <2>1, <3>1, <3>2 DEF TInv, TypeOK
      <3>5. /\ inQ'[1]
            /\ \A o \in Proc : inQ'[o] => o = 1
        BY <2>1, <2>3, <3>1 DEF TInv, TypeOK, FirstPass
      <3>6. k' = 2
        BY <1>1, <1>2, <3>1
      <3>7. FirstPass'
        BY <1>2, <2>3, <3>4, <3>5, <3>6 DEF FirstPass
      <3> QED
        BY <3>3, <3>7 DEF QInv
    <2>4. CASE ~FirstPass
      <3>1. QueueInv /\ NoDummies
        BY <2>4 DEF QInv
      <3>2. PICK l \in Level : l = level[p]
        BY DEF TInv, TypeOK
      <3>3. mfq[l].front # -1 => (mfq[l].rear + 1) % NPROC # mfq[l].front
        <4>1. RingOK(mfq[l])
          BY <3>1 DEF QueueInv, Rings
        <4>2. \A j \in Occupied(mfq[l]) : mfq[l].list[j] \notin {Null, p}
          BY <2>2, <3>1 DEF QueueInv, StandersMarked, NoDummies
        <4>3. \A i, j \in Occupied(mfq[l]) : mfq[l].list[i] = mfq[l].list[j] => i = j
          BY <3>1 DEF QueueInv, StandOnce, NoDummies
        <4> QED
          BY <4>1, <4>2, <4>3, RoomInRing
      <3>4. QueueInv' /\ NoDummies'
        BY <1>2, <2>1, <2>2, <3>1, <3>2, <3>3, EnqueueQueues DEF TInv
      <3>5. HigherEmpty'
        BY <1>2 DEF HigherEmpty
      <3> QED
        BY <3>4, <3>5 DEF QInv
    <2> QED
      BY <2>3, <2>4
  <1> QED
    BY <1>3, <1>4

LEMMA EnqueueDoneQInv == TInv /\ QInv /\ EnqueueDone => QInv'
  <1> SUFFICES ASSUME TInv, QInv, EnqueueDone PROVE QInv'
    OBVIOUS
  <1>1. /\ UNCHANGED <<procVars, mfq, low>> /\ pc = "enqueue" /\ pc' = "dequeue"
        /\ lev' = 0 /\ k > NPROC
    BY DEF EnqueueDone
  <1>2. QueueInv' /\ (NoDummies => NoDummies')
    BY <1>1, SameQueues DEF QInv, TInv, procVars
  <1>3. CASE ~FirstPass
    <2>1. HigherEmpty'
      <3>1. \A p \in Proc : level[p] \in Level
        BY DEF TInv, TypeOK
      <3>2. \A p \in Proc : level[p] >= 0
        BY <3>1, Constants
      <3> QED
        BY <1>1, <3>2 DEF HigherEmpty, procVars
    <2> QED
      BY <1>2, <1>3, <2>1 DEF QInv
  <1>4. CASE FirstPass
    <2>1. k > 1
      BY <1>1, Constants DEF TInv, TypeOK
    <2>2. \A l \in Level : ~(l < 0)
      BY Constants
    <2>3. FirstPass'
      BY <1>1, <1>4, <2>1, <2>2 DEF FirstPass, procVars
    <2> QED
      BY <1>2, <2>3 DEF QInv
  <1> QED
    BY <1>3, <1>4

\* What the first pass takes from a level: the null element, with init left
\* behind it at level 0.
LEMMA FirstDequeues ==
  /\ First(EmptyRing) = Null
  /\ Dequeue(EmptyRing).front = -1
  /\ First(Enqueue(EmptyRing, 1)) = Null
  /\ \A j \in Occupied(Dequeue(Enqueue(EmptyRing, 1))) :
       Dequeue(Enqueue(EmptyRing, 1)).list[j] # Null
  <1>1. First(EmptyRing) = Null /\ Dequeue(EmptyRing).front = -1
    BY EmptyRingFacts DEF First, Dequeue
  <1>2. PICK r \in Index :
           /\ r \notin Occupied(EmptyRing)
           /\ RingOK(Enqueue(EmptyRing, 1))
           /\ Occupied(Enqueue(EmptyRing, 1)) = Occupied(EmptyRing) \cup {r}
           /\ Enqueue(EmptyRing, 1).list = [EmptyRing.list EXCEPT ![r] = 1]
    BY EmptyRingFacts, EnqueueRing, Constants
  <1>3. PICK q : q = Enqueue(EmptyRing, 1)
    OBVIOUS
  <1>4. q.front = 0
    BY <1>3, EmptyRingFacts DEF Enqueue
  <1>5. EmptyRing.list \in [Index -> Proc \cup {Null}] /\ 0 \in Index
    BY EmptyRingFacts, MlfqAssumption DEF RingOK, Ring, Index
  <1>6. r # 0 /\ q.list[0] = Null /\ q.list[r] = 1
    BY <1>2, <1>3, <1>5, EmptyRingFacts
  <1>7. First(q) = Null
    BY <1>4, <1>6 DEF First
  <1>8. /\ Occupied(Dequeue(q)) = Occupied(q) \ {q.front}
        /\ \A j \in Occupied(Dequeue(q)) : Dequeue(q).list[j] = q.list[j]
    BY <1>2, <1>3, DequeueRing
  <1>9. \A j \in Occupied(Dequeue(q)) : Dequeue(q).list[j] = 1
    BY <1>2, <1>3, <1>4, <1>6, <1>8, EmptyRingFacts
  <1> QED
    BY <1>1, <1>3, <1>7, <1>9, Constants DEF Null

LEMMA NextLevelQInv == TInv /\ QInv /\ NextLevel => QInv'
  <1> SUFFICES ASSUME TInv, QInv, NextLevel PROVE QInv'
    OBVIOUS
  <1>1. lev \in Level /\ lev \in Nat /\ lev' = lev + 1
    BY Constants DEF TInv, TypeOK, NextLevel
  <1>2. /\ pc = "dequeue" /\ First(mfq[lev]) = Null
        /\ mfq' = [mfq EXCEPT ![lev] = Dequeue(@)]
        /\ UNCHANGED <<state, level, inQ, age, pc, k, low>>
    BY DEF NextLevel, procVars
  <1>3. QueueInv' /\ (NoDummies => NoDummies')
    <2>1. \A o \in Proc : inQ'[o] = (inQ[o] /\ o # First(mfq[lev]))
      BY <1>2, Constants, Zenon DEF TInv, TypeOK, Null
    <2> QED
      BY <1>1, <1>2, <2>1, DequeueQueues DEF QInv, TInv
  <1>4. CASE ~FirstPass
    <2>1. Occupied(mfq[lev]) = {}
      <3>1. RingOK(mfq[lev]) /\ NoDummies
        BY <1>1, <1>4 DEF QInv, QueueInv, Rings
      <3>2. mfq[lev].front = -1
        BY <1>1, <1>2, <3>1, DequeueRing DEF First, NoDummies
      <3> QED
        BY <3>1, <3>2, DequeueRing
    <2>2. \A p \in Proc : inQ[p] => level[p] # lev
      BY <2>1 DEF QInv, QueueInv, MarkedStand
    <2>3. \A p \in Proc : inQ[p] => level[p] >= lev
      BY <1>2, <1>4 DEF QInv, HigherEmpty
    <2>4. \A p \in Proc : level[p] \in Nat
      BY Constants DEF TInv, TypeOK
    <2>5. \A p \in Proc : inQ[p] => level[p] >= lev + 1
      BY <1>1, <2>2, <2>3, <2>4
    <2>6. HigherEmpty'
      BY <1>1, <1>2, <2>5 DEF HigherEmpty
    <2> QED
      BY <1>3, <1>4, <2>6 DEF QInv
  <1>5. CASE FirstPass
    <2>1. /\ mfq'[lev] = Dequeue(mfq[lev])
          /\ \A l \in Level : l # lev => mfq'[l] = mfq[l]
      BY <1>1, <1>2 DEF TInv, TypeOK
    <2>2. lev' > 0 /\ lev' # 0
      BY <1>1
    <2>3. \A l \in Level \ {0} :
            IF l < lev' THEN mfq'[l].front = -1 ELSE mfq'[l] = EmptyRing
      <3> TAKE l \in Level \ {0}
      <3>1. l \in Nat
        BY Constants
      <3>2. IF l < lev THEN mfq[l].front = -1 ELSE mfq[l] = EmptyRing
        BY <1>2, <1>5 DEF FirstPass
      <3>3. CASE l = lev
        <4>1. mfq'[l] = Dequeue(EmptyRing)
          BY <1>1, <2>1, <3>2, <3>3
        <4> QED
          BY <1>1, <3>3, <4>1, FirstDequeues
      <3>4. CASE l # lev
        BY <1>1, <2>1, <3>1, <3>2, <3>4
      <3> QED
        BY <3>3, <3>4
    <2>4. \A j \in Occupied(mfq'[0]) : mfq'[0].list[j] # Null
      <3>1. CASE lev = 0
        <4>1. mfq'[0] = Dequeue(Enqueue(EmptyRing, 1))
          BY <1>2, <1>5, <2>1, <3>1 DEF FirstPass
        <4> QED
          BY <4>1, FirstDequeues
      <3>2. CASE lev # 0
        BY <1>1, <1>2, <1>5, <2>1, <3>2, Constants DEF FirstPass
      <3> QED
        BY <3>1, <3>2
    <2>5. FirstPass'
      BY <1>2, <1>5, <2>2, <2>3, <2>4 DEF FirstPass
    <2> QED
      BY <1>3, <2>5 DEF QInv
  <1> QED
    BY <1>4, <1>5

\* In its first pass scheduler() finds nothing.
LEMMA FirstPassRunsNobody == TInv /\ FirstPass => ~Dispatch
  <1> SUFFICES ASSUME TInv, FirstPass, Dispatch PROVE FALSE
    OBVIOUS
  <1>1. pc = "dequeue" /\ First(mfq[lev]) # Null
    BY DEF Dispatch
  <1>2. lev \in Level /\ lev \in Nat
    BY Constants DEF TInv, TypeOK, Dispatch
  <1>3. CASE lev = 0
    BY <1>1, <1>3, FirstDequeues DEF FirstPass
  <1>4. CASE lev # 0
    <2>1. mfq[lev] = EmptyRing
      BY <1>1, <1>2, <1>4 DEF FirstPass
    <2> QED
      BY <1>1, <2>1, FirstDequeues
  <1> QED
    BY <1>3, <1>4

\* What Dispatch finds is marked, RUNNABLE and on level lev.
LEMMA DispatchFinds ==
  ASSUME TInv, QInv, Dispatch
  PROVE  /\ lev \in Level /\ First(mfq[lev]) \in Proc
         /\ inQ[First(mfq[lev])] /\ level[First(mfq[lev])] = lev
         /\ state[First(mfq[lev])] = "RUNNABLE"
  <1>1. lev \in Level
    BY Constants DEF TInv, TypeOK, Dispatch
  <1>2. RingOK(mfq[lev])
    BY <1>1 DEF QInv, QueueInv, Rings
  <1>3. mfq[lev].front # -1 /\ First(mfq[lev]) = mfq[lev].list[mfq[lev].front]
    BY DEF Dispatch, First
  <1>4. mfq[lev].front \in Occupied(mfq[lev])
    BY <1>2, <1>3, DequeueRing
  <1>5. First(mfq[lev]) \in Proc
    BY <1>2, <1>3, <1>4, OccupiedSlots DEF Dispatch
  <1>6. inQ[First(mfq[lev])] /\ level[First(mfq[lev])] = lev
    BY <1>1, <1>3, <1>4 DEF QInv, QueueInv, StandersMarked, Dispatch
  <1>7. state[First(mfq[lev])] = "RUNNABLE"
    BY <1>5, <1>6 DEF QInv, QueueInv, MarkedStand
  <1> QED
    BY <1>1, <1>5, <1>6, <1>7

LEMMA DispatchQInv == TInv /\ QInv /\ Dispatch => QInv'
  <1> SUFFICES ASSUME TInv, QInv, Dispatch PROVE QInv'
    OBVIOUS
  <1>1. lev \in Level
    BY DispatchFinds
  <1>2. PICK p \in Proc : p = First(mfq[lev])
    BY DispatchFinds
  <1>3. state[p] = "RUNNABLE"
    BY <1>2, DispatchFinds
  <1>4. /\ mfq' = [mfq EXCEPT ![lev] = Dequeue(@)]
        /\ inQ' = [inQ EXCEPT ![p] = FALSE]
        /\ state' = [state EXCEPT ![p] = "RUNNING"]
        /\ pc' = "run" /\ UNCHANGED level
    BY <1>2, <1>3 DEF Dispatch
  <1>5. \A o \in Proc : inQ'[o] = (inQ[o] /\ o # p)
    BY <1>4, Zenon DEF TInv, TypeOK
  <1>6. \A o \in Proc : inQ'[o] => state'[o] = state[o]
    BY <1>4, <1>5 DEF TInv, TypeOK
  <1>7. QueueInv' /\ (NoDummies => NoDummies')
    <2>1. \A o \in Proc : inQ'[o] = (inQ[o] /\ o # First(mfq[lev]))
      BY <1>2, <1>5, Zenon
    <2> QED
      BY <1>1, <1>4, <1>6, <2>1, DequeueQueues DEF QInv, TInv
  <1>8. ~FirstPass
    BY FirstPassRunsNobody
  <1> QED
    BY <1>4, <1>7, <1>8 DEF QInv, HigherEmpty

LEMMA NothingToRunQInv == TInv /\ QInv /\ NothingToRun => QInv'
  <1> SUFFICES ASSUME TInv, QInv, NothingToRun PROVE QInv'
    OBVIOUS
  <1>1. /\ UNCHANGED <<state, level, inQ, mfq>>
        /\ pc = "dequeue" /\ pc' = "ageing" /\ lev = NLEVEL
    BY DEF NothingToRun, procVars
  <1>2. QueueInv' /\ (NoDummies => NoDummies')
    BY <1>1, SameQueues DEF QInv, TInv
  <1>3. NoDummies
    <2>1. CASE FirstPass
      <3>1. \A j \in Occupied(mfq[0]) : mfq[0].list[j] # Null
        BY <1>1, <2>1, Constants DEF FirstPass
      <3>2. \A l \in Level \ {0} : Occupied(mfq[l]) = {}
        <4> TAKE l \in Level \ {0}
        <4>1. mfq[l].front = -1
          BY <1>1, <2>1, Constants DEF FirstPass
        <4> QED
          BY <4>1 DEF Occupied
      <3> QED
        BY <3>1, <3>2 DEF NoDummies
    <2> QED
      BY <2>1 DEF QInv
  <1> QED
    BY <1>1, <1>2, <1>3 DEF QInv, HigherEmpty

\* A process that is not RUNNABLE is not marked.
LEMMA OthersUnmarked ==
  ASSUME QInv, NEW p \in Proc, state[p] # "RUNNABLE"
  PROVE  ~inQ[p]
  BY DEF QInv, QueueInv, MarkedStand

\* The steps of processes and interrupts.
LEMMA OutsideQInv ==
  ASSUME TInv, QInv,
         \/ Sleep \/ Exit \/ Tick \/ TickKilled \/ IdleTick
         \/ \E c \in Proc : Fork(c)
         \/ \E p \in Proc : Wakeup(p)
         \/ \E p \in Proc : Kill(p)
  PROVE  QInv'
  <1>1. CASE Sleep
    <2>1. low \in Proc /\ ~inQ[low] /\ ~FirstPass
      BY <1>1, OthersUnmarked DEF Sleep, TInv, CpuOK, FirstPass
    <2>2. \A p \in Proc : inQ[p] => state'[p] = state[p]
      BY <1>1, <2>1 DEF Sleep, SwitchOut, TInv, TypeOK
    <2> QED
      BY <1>1, <2>1, <2>2, QuietStep DEF Sleep, SwitchOut, TInv
  <1>2. CASE Exit
    <2>1. low \in Proc /\ ~inQ[low] /\ ~FirstPass
      BY <1>2, OthersUnmarked DEF Exit, TInv, CpuOK, FirstPass
    <2>2. \A p \in Proc : inQ[p] => state'[p] = state[p] /\ level'[p] = level[p]
      BY <1>2, <2>1 DEF Exit, SwitchOut, TInv, TypeOK
    <2> QED
      BY <1>2, <2>1, <2>2, QuietStep DEF Exit, SwitchOut, TInv
  <1>3. CASE Tick
    <2>1. low \in Proc /\ ~inQ[low] /\ ~FirstPass
      BY <1>3, OthersUnmarked DEF Tick, TInv, CpuOK, FirstPass
    <2>2. UNCHANGED <<inQ, mfq, lev>> /\ pc = "run" /\ pc' # "dequeue"
      BY <1>3 DEF Tick, SwitchOut
    <2>3. \A p \in Proc : inQ[p] => state'[p] = state[p]
      BY <1>3, <2>1 DEF Tick, SwitchOut, TInv, TypeOK
    <2>4. \A p \in Proc : inQ[p] => level'[p] = level[p]
      BY <1>3, <2>1 DEF Tick, TInv, TypeOK
    <2> QED
      BY <2>1, <2>2, <2>3, <2>4, QuietStep DEF TInv
  <1>4. CASE IdleTick
    <2>1. ~FirstPass
      BY <1>4, Constants DEF IdleTick, FirstPass
    <2> QED
      BY <1>4, <2>1, QuietStep DEF IdleTick, TInv
  <1>5. ASSUME NEW c \in Proc, Fork(c) PROVE QInv'
    <2>1. ~inQ[c] /\ ~FirstPass
      BY <1>5, OthersUnmarked DEF Fork, FirstPass
    <2>2. inQ' = inQ
      <3>1. inQ[c] = FALSE
        BY <2>1, Zenon DEF TInv, TypeOK
      <3> QED
        BY <1>5, <3>1 DEF Fork, TInv, TypeOK
    <2>3. \A p \in Proc : inQ[p] => state'[p] = state[p] /\ level'[p] = level[p]
      BY <1>5, <2>1 DEF Fork, TInv, TypeOK
    <2> QED
      BY <1>5, <2>1, <2>2, <2>3, QuietStep DEF Fork, TInv
  <1>6. ASSUME NEW p \in Proc, Wakeup(p) PROVE QInv'
    <2>1. ~inQ[p]
      BY <1>6, OthersUnmarked DEF Wakeup
    <2>2. ~FirstPass
      BY <1>6 DEF Wakeup, FirstPass
    <2>3. \A o \in Proc : inQ[o] => state'[o] = state[o]
      BY <1>6, <2>1 DEF Wakeup, TInv, TypeOK
    <2> QED
      BY <1>6, <2>2, <2>3, QuietStep DEF Wakeup, TInv
  <1>7. ASSUME NEW p \in Proc, Kill(p) PROVE QInv'
    <2>1. ~FirstPass
      BY <1>7 DEF Kill, FirstPass
    <2>2. \A o \in Proc : inQ[o] => state[o] = "RUNNABLE"
      BY DEF QInv, QueueInv, MarkedStand
    <2>3. \A o \in Proc : inQ[o] => state'[o] = state[o]
      BY <1>7, <2>2 DEF Kill, TInv, TypeOK
    <2> QED
      BY <1>7, <2>1, <2>3, QuietStep DEF Kill, TInv
  <1>8. CASE TickKilled
    <2>1. ~FirstPass
      BY <1>8 DEF TickKilled, FirstPass
    <2> QED
      BY <1>8, <2>1, QuietStep DEF TickKilled, TInv
  <1> QED
    BY <1>1, <1>2, <1>3, <1>4, <1>5, <1>6, <1>7, <1>8

LEMMA StutterQInv == TInv /\ QInv /\ UNCHANGED vars => QInv'
  <1> SUFFICES ASSUME TInv, QInv, UNCHANGED vars PROVE QInv'
    OBVIOUS
  <1>1. CASE ~FirstPass
    BY <1>1, QuietStep DEF vars, procVars, TInv
  <1>2. CASE FirstPass
    <2>1. QueueInv'
      BY SameQueues DEF vars, procVars, QInv, TInv
    <2>2. FirstPass'
      BY <1>2 DEF vars, procVars, FirstPass
    <2> QED
      BY <2>1, <2>2 DEF QInv
  <1> QED
    BY <1>1, <1>2

LEMMA NextIInv == IInv /\ [Next]_vars => IInv'
  <1> SUFFICES ASSUME IInv, [Next]_vars PROVE IInv'
    OBVIOUS
  <1>1. TInv'
    BY NextTInv DEF IInv
  <1>2. removed => removed'
    BY DEF Next, SchedulerStep, Ageing, AgeingDone, EnqueueTurn, EnqueueDone, NextLevel,
           Dispatch, NothingToRun, Sleep, Exit, Fork, Wakeup, Kill, Tick, TickKilled,
           IdleTick, vars
  <1>3. ASSUME ~removed' PROVE QInv'
    <2>1. TInv /\ QInv
      BY <1>2, <1>3 DEF IInv
    <2> QED
      BY <1>3, <2>1, AgeingQInv, AgeingDoneQInv, EnqueueTurnQInv, EnqueueDoneQInv,
         NextLevelQInv, DispatchQInv, NothingToRunQInv, OutsideQInv, StutterQInv
      DEF Next, SchedulerStep
  <1> QED
    BY <1>1, <1>3 DEF IInv

(***************************************************************************)
(* The theorems.                                                           *)
(***************************************************************************)

\* IInv is an invariant of the scheduler.
THEOREM Invariance == Spec => []IInv
  <1>1. Init => IInv
    BY InitTInv, InitQInv DEF IInv
  <1> QED
    BY <1>1, NextIInv, PTL DEF Spec

\* Every variable keeps its type, after ProcQueueRemove() as well.
THEOREM TypeCorrect == Spec => []TypeOK
  <1>1. IInv => TypeOK
    BY DEF IInv, TInv
  <1> QED
    BY <1>1, Invariance, PTL

\* The unsigned timeinQ never underflows and never exceeds the slice of the
\* process's level, and only a killed process in its exit() has none of its slice
\* left (trap.c:76-98, proc.c:487).
THEOREM SlicesBounded == Spec => []SliceBounded
  <1>1. IInv => SliceBounded
    BY DEF IInv, TInv
  <1> QED
    BY <1>1, Invariance, PTL

\* Until ProcQueueRemove() is called, a process marked inQ is RUNNABLE and
\* stands exactly once, in the ring of its level, and any other in none.
THEOREM QueuesHold == Spec => []QueuesHoldWaiting
  <1>1. IInv => QueuesHoldWaiting
    <2> SUFFICES ASSUME TypeOK, QueueInv, NEW p \in Proc
                 PROVE  IF inQ[p]
                        THEN /\ state[p] = "RUNNABLE"
                             /\ \E j \in Index : Places(p) = {<<level[p], j>>}
                        ELSE Places(p) = {}
      BY DEF QueuesHoldWaiting, IInv, TInv, QInv
    <2>1. p # Null
      BY Constants DEF Null
    <2>2. \A s \in Places(p) : /\ s \in Level \X Index /\ s = <<s[1], s[2]>>
                               /\ s[2] \in Occupied(mfq[s[1]])
                               /\ mfq[s[1]].list[s[2]] = p
      BY DEF Places
    <2>3. \A s \in Places(p) : inQ[p] /\ level[p] = s[1]
      BY <2>1, <2>2 DEF QueueInv, StandersMarked
    <2>4. CASE ~inQ[p]
      BY <2>3, <2>4
    <2>5. CASE inQ[p]
      <3>1. state[p] = "RUNNABLE"
        BY <2>5 DEF QueueInv, MarkedStand
      <3>2. PICK j \in Occupied(mfq[level[p]]) : mfq[level[p]].list[j] = p
        BY <2>5 DEF QueueInv, MarkedStand
      <3>3. level[p] \in Level /\ j \in Index
        BY <3>2, OccupiedSlots DEF TypeOK, QueueInv, Rings
      <3>4. <<level[p], j>> \in Places(p)
        BY <3>2, <3>3 DEF Places
      <3>5. \A s \in Places(p) : s[2] = j
        BY <2>1, <2>2, <2>3, <3>2, <3>3 DEF QueueInv, StandOnce
      <3>6. \A s \in Places(p) : s = <<level[p], j>>
        BY <2>2, <2>3, <3>5
      <3> QED
        BY <2>5, <3>1, <3>3, <3>4, <3>6
    <2> QED
      BY <2>4, <2>5
  <1> QED
    BY <1>1, Invariance, PTL

\* Until ProcQueueRemove() is called, scheduler() runs a process of the first
\* level that has one waiting, in spite of the null elements of pq_init().
THEOREM HighestFirst == Spec => DispatchesHighest
  <1>1. IInv /\ [Next]_vars =>
          (low' \notin {low, Null} /\ ~removed =>
             \A p \in Proc : inQ[p] => level[p] >= level[low'])
    <2> SUFFICES ASSUME IInv, [Next]_vars, low' \notin {low, Null}, ~removed,
                        NEW p \in Proc, inQ[p]
                 PROVE  level[p] >= level[low']
      OBVIOUS
    <2>1. Dispatch
      BY DEF Next, SchedulerStep, Ageing, AgeingDone, EnqueueTurn, EnqueueDone, NextLevel,
             NothingToRun, Sleep, Exit, Fork, Wakeup, Kill, Tick, TickKilled, IdleTick,
             SwitchOut, vars
    <2>2. TInv /\ QInv
      BY DEF IInv
    <2>3. HigherEmpty
      BY <2>1, <2>2, FirstPassRunsNobody DEF QInv
    <2>4. level[p] >= lev
      BY <2>1, <2>3 DEF HigherEmpty, Dispatch
    <2>5. low' = First(mfq[lev])
      BY <2>1 DEF Dispatch
    <2>6. level[First(mfq[lev])] = lev
      BY <2>1, <2>2, DispatchFinds
    <2> QED
      BY <2>4, <2>5, <2>6
  <1> QED
    BY <1>1, Invariance, PTL DEF Spec, DispatchesHighest
=============================================================================
