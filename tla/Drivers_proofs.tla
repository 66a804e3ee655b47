--------------------------- MODULE Drivers_proofs ---------------------------
(***************************************************************************)
(* Proofs about the two device drivers.                                    *)
(*                                                                         *)
(* Disk, for every number of processes, blocks, buffers and descriptors,   *)
(* and whatever second block a process may ask for: the cache is coherent, *)
(* buffers and descriptors are accounted for, and no completion and no     *)
(* wakeup is lost.                                                         *)
(*                                                                         *)
(* Console, for any number of readers and writers, rings of any size and   *)
(* indices that wrap at any multiple of it: input that may be read, that   *)
(* is edited and that is free do not overlap, and nobody sleeps on input   *)
(* that is there or on output that has no interrupt to come.               *)
(***************************************************************************)
EXTENDS Disk, Console, FiniteSetTheorems, SequenceTheorems,
        WellFoundedInduction, TLAPS

-----------------------------------------------------------------------------
(***************************************************************************)
(* The buffer cache and the disk driver.                                   *)
(***************************************************************************)

(***************************************************************************)
(* The inductive invariant.                                                *)
(***************************************************************************)

\* Labels in virtio_disk_rw() before and after alloc3_desc(), and behind bread()
\* and bwrite(): at all of these a process holds the lock of that buffer.
Waiting == {"rw", "desc_sleep"}
Submitted == {"rw_sleep", "rw_woken"}
Behind == {"held", "written", "done"}
Holding == Waiting \cup Submitted \cup Behind

\* Types, in parts.
BufTypes ==
  /\ blockno \in [Buffer -> Blocks \cup {NoBlock}]
  /\ locked \in [Buffer -> Hand \cup {Nobody}]
  /\ latest \subseteq Buffer

BoolTypes ==
  /\ valid \in [Buffer -> BOOLEAN] /\ disk \in [Buffer -> BOOLEAN]
  /\ write \in [Hand -> BOOLEAN]
  /\ isr \in BOOLEAN /\ vdisk_lock \in BOOLEAN /\ panicked \in BOOLEAN

LruOK ==
  /\ refcnt \in [Buffer -> Nat]
  /\ lru \in Seq(Buffer) /\ IsInjective(lru)
  /\ Range(lru) = {b \in Buffer : refcnt[b] = 0}

DevTypes ==
  /\ free \subseteq Desc
  /\ info \in [DOMAIN info -> Request] /\ DOMAIN info \subseteq Desc
  /\ avail \subseteq Desc /\ used \in Seq(Desc)
  /\ platter \subseteq Blocks /\ pinned \subseteq Blocks

ProcTypes ==
  /\ pc \in [Hand -> Labels]
  /\ buf \in [Hand -> Buffer \cup {None}]
  /\ chain \in [Hand -> Seq(Desc)]

\* What a variable of a process has at each label.
AtLabels ==
  \A p \in Hand :
    /\ pc[p] = "idle" <=> buf[p] = None
    /\ pc[p] \in Submitted <=> chain[p] # << >>
    /\ write[p] => pc[p] \in Waiting \cup Submitted
    /\ buf[p] # None => blockno[buf[p]] \in Blocks

\* A lock belongs to the process that is at a label behind acquiresleep().
Locks ==
  \A b \in Buffer, p \in Hand : locked[b] = p <=> pc[p] \in Holding /\ buf[p] = b

\* The head of a chain describes the request.
Chains ==
  \A p \in Hand : chain[p] # << >> =>
    /\ chain[p][1] \in DOMAIN info /\ chain[p][1] \in Range(chain[p])
    /\ info[chain[p][1]].b = buf[p] /\ (info[chain[p][1]].write <=> write[p])

\* Where a request is, from the time it is published until it is freed: with the
\* device, on the used ring, or seen by virtio_disk_intr().
InFlight ==
  \A p \in Hand : chain[p] # << >> =>
    /\ chain[p][1] \in avail <=> info[chain[p][1]].status # "ok"
    /\ disk[buf[p]] <=> chain[p][1] \in avail \cup Range(used)

\* The rings hold requests that somebody waits for, each once.
Owned ==
  \A d \in avail \cup Range(used) : \E p \in Hand : chain[p] # << >> /\ chain[p][1] = d
UsedOK == IsInjective(used) /\ avail \cap Range(used) = {}

\* What is on the used ring has an interrupt to come.
IntrToCome == used # << >> => isr \/ vdisk_lock

\* A valid buffer is the latest version.
ValidLatest == \A b \in Buffer : valid[b] => b \in latest

\* Only what is not valid is read, and only what is valid is written.
ValidAt ==
  \A p \in Hand :
    /\ pc[p] \in Waiting \cup Submitted => (valid[buf[p]] <=> write[p])
    /\ pc[p] \in Behind => valid[buf[p]]

\* A request ends with the latest version in the buffer and on the disk.
Completed ==
  \A p \in Hand : pc[p] \in Submitted /\ info[chain[p][1]].status = "ok" =>
    buf[p] \in latest /\ blockno[buf[p]] \in platter

WrittenBack ==
  \A p \in Hand : pc[p] = "written" =>
    blockno[buf[p]] \in pinned /\ blockno[buf[p]] \in platter

\* A block that is not on the disk is in a valid buffer, pinned or on its way.
Unwritten ==
  \A k \in Blocks \ platter : \E b \in Buffer :
    /\ blockno[b] = k /\ valid[b]
    /\ k \in pinned \/ \E p \in Hand : buf[p] = b /\ write[p]

\* A pinned block is cached.
PinnedCached ==
  /\ IsFiniteSet(pinned)
  /\ \A k \in pinned : \E b \in Buffer : blockno[b] = k

\* What SleepersHaveWaker says, but that the lock may be the process's own.
Sleepers ==
  \A p \in Hand :
    /\ pc[p] = "lock_sleep" => locked[buf[p]] \notin {Nobody, p}
    /\ pc[p] = "desc_sleep" => \E q \in Hand : chain[q] # << >>
    /\ pc[p] = "rw_sleep" => chain[p] # << >> /\ disk[buf[p]]

IInv ==
  /\ BufTypes /\ BoolTypes /\ LruOK /\ DevTypes /\ ProcTypes
  /\ AtLabels /\ Locks /\ Chains /\ InFlight /\ Owned /\ UsedOK /\ IntrToCome
  /\ ValidLatest /\ ValidAt /\ Completed /\ WrittenBack /\ Unwritten
  /\ PinnedCached /\ OneBufferPerBlock /\ References /\ PanicsOnlyWhenFull
  /\ DescriptorsOwned /\ Sleepers

\* A process does not have one buffer twice.
TwoBuffers ==
  \A p \in Hand : buf[p] # None => buf[Other(p)] # buf[p]

\* The hands that have a buffer, and its pin.
Users(b) == {p \in Hand : buf[p] = b}
Pins(b) == IF blockno[b] \in pinned THEN 1 ELSE 0

-----------------------------------------------------------------------------
(***************************************************************************)
(* Constants, sequences and descriptors.                                   *)
(***************************************************************************)

LEMMA Constants ==
  /\ NBUF \in Nat /\ NBUF > 0 /\ NUM \in Nat /\ NUM >= 3
  /\ Cardinality(Procs) \in Nat
  /\ IsFiniteSet(Hand) /\ Cardinality(Hand) = 2 * Cardinality(Procs)
  /\ Cardinality(Hand) \in Nat
  /\ Nobody \notin Hand /\ None \notin Buffer /\ NoBlock \notin Blocks
  /\ IsFiniteSet(Buffer) /\ Cardinality(Buffer) = NBUF
  /\ Desc \subseteq Nat /\ IsFiniteSet(Desc) /\ Cardinality(Desc) = NUM
<1>1. NBUF \in Nat /\ NBUF > 0 /\ NUM \in Nat /\ NUM >= 3
  BY DiskAssumption
<1>2. /\ Cardinality(Procs) \in Nat /\ Cardinality(Hand) \in Nat
      /\ IsFiniteSet(Hand) /\ Cardinality(Hand) = 2 * Cardinality(Procs)
  <2>1. IsFiniteSet(Procs) /\ Cardinality(Procs) \in Nat
    BY DiskAssumption, FS_CardinalityType
  <2>2. IsFiniteSet({1, 2}) /\ Cardinality({1, 2}) = 2
    <3>1. IsFiniteSet({1}) /\ Cardinality({1}) = 1
      BY FS_Singleton, Zenon
    <3>2. /\ IsFiniteSet({1} \cup {2})
          /\ Cardinality({1} \cup {2}) = IF 2 \in {1} THEN Cardinality({1}) ELSE Cardinality({1}) + 1
      BY <3>1, FS_AddElement, Zenon
    <3>3. {1} \cup {2} = {1, 2} /\ 2 \notin {1}
      OBVIOUS
    <3> QED
      BY <3>1, <3>2, <3>3
  <2>3. IsFiniteSet(Hand) /\ Cardinality(Hand) = Cardinality(Procs) * 2
    BY <2>1, <2>2, FS_Product DEF Hand
  <2> QED
    BY <2>1, <2>3
<1>3. Nobody \notin Hand /\ None \notin Buffer /\ NoBlock \notin Blocks
  BY <1>1, DiskAssumption DEF Buffer, None
<1>4. IsFiniteSet(Buffer) /\ Cardinality(Buffer) = NBUF
  BY <1>1, FS_Interval DEF Buffer
<1>5. Desc \subseteq Nat /\ IsFiniteSet(Desc) /\ Cardinality(Desc) = NUM
  BY <1>1, FS_Interval DEF Desc
<1> QED
  BY <1>1, <1>2, <1>3, <1>4, <1>5

\* A set of naturals that is not empty has a least element.
LEMMA MinInSet ==
  ASSUME NEW S, S \subseteq Nat, S # {}
  PROVE  Min(S) \in S /\ \A y \in S : Min(S) <= y
<1> DEFINE R == {ss \in Nat \X Nat : ss[1] < ss[2]}
<1>1. IsWellFoundedOn(R, Nat)
  BY NatLessThanWellFounded, Zenon DEF OpToRel
<1>2. PICK x \in S : \A y \in S : ~(<<y, x>> \in R)
  BY <1>1, WFMin, Zenon
<1>3. \A y \in S : x <= y
  <2> TAKE y \in S
  <2>1. x \in Nat /\ y \in Nat
    OBVIOUS
  <2>2. ~(y < x)
    BY <1>2, <2>1
  <2> QED
    BY <2>1, <2>2
<1> QED
  BY <1>3 DEF Min

LEMMA Prepended ==
  ASSUME NEW S, NEW s \in Seq(S), IsInjective(s), NEW b \in S, b \notin Range(s)
  PROVE  LET t == <<b>> \o s
         IN t \in Seq(S) /\ Range(t) = Range(s) \cup {b} /\ IsInjective(t)
<1> DEFINE t == <<b>> \o s
<1>1. Len(s) \in Nat /\ DOMAIN s = 1..Len(s)
  OBVIOUS
<1>2. /\ t \in Seq(S) /\ Len(t) = Len(s) + 1 /\ t[1] = b
      /\ \A i \in 2..(Len(s) + 1) : t[i] = s[i - 1]
  OBVIOUS
<1> HIDE DEF t
<1>3. DOMAIN t = 1..(Len(s) + 1)
  BY <1>1, <1>2
<1>4. Range(t) = Range(s) \cup {b}
  <2>1. \A i \in 1..Len(s) : i + 1 \in 2..(Len(s) + 1) /\ t[i + 1] = s[i]
    BY <1>1, <1>2
  <2>2. \A i \in 1..(Len(s) + 1) : i = 1 \/ (i - 1 \in 1..Len(s) /\ t[i] = s[i - 1])
    BY <1>1, <1>2
  <2>3. \A x \in Range(t) : x \in Range(s) \cup {b}
    BY <1>1, <1>2, <1>3, <2>2 DEF Range
  <2>4. \A x \in Range(s) : x \in Range(t)
    BY <1>1, <1>3, <2>1 DEF Range
  <2>5. b \in Range(t)
    BY <1>1, <1>2, <1>3 DEF Range
  <2> QED
    BY <2>3, <2>4, <2>5
<1>5. IsInjective(t)
  <2> SUFFICES ASSUME NEW i \in 1..(Len(s) + 1), NEW j \in 1..(Len(s) + 1),
                      t[i] = t[j], i # j
               PROVE  FALSE
    BY <1>3 DEF IsInjective
  <2>1. ASSUME NEW k \in 2..(Len(s) + 1)
        PROVE  k - 1 \in DOMAIN s /\ t[k] = s[k - 1] /\ t[k] # b
    <3>1. k - 1 \in DOMAIN s /\ t[k] = s[k - 1]
      BY <1>1, <1>2
    <3> QED
      BY <3>1 DEF Range
  <2>2. i = 1 \/ i \in 2..(Len(s) + 1)
    BY <1>1
  <2>3. j = 1 \/ j \in 2..(Len(s) + 1)
    BY <1>1
  <2>4. i # 1 /\ j # 1
    BY <1>2, <2>1, <2>2, <2>3
  <2>5. i - 1 = j - 1
    BY <2>1, <2>2, <2>3, <2>4 DEF IsInjective
  <2> QED
    BY <1>1, <2>5
<1> QED
  BY <1>2, <1>4, <1>5 DEF t

LEMMA Appended ==
  ASSUME NEW S, NEW s \in Seq(S), IsInjective(s), NEW d \in S, d \notin Range(s)
  PROVE  LET t == Append(s, d)
         IN t \in Seq(S) /\ Range(t) = Range(s) \cup {d} /\ IsInjective(t)
<1> DEFINE t == Append(s, d)
<1>1. Len(s) \in Nat /\ DOMAIN s = 1..Len(s)
  OBVIOUS
<1>2. /\ t \in Seq(S) /\ Len(t) = Len(s) + 1 /\ t[Len(s) + 1] = d
      /\ \A i \in 1..Len(s) : t[i] = s[i]
  OBVIOUS
<1> HIDE DEF t
<1>3. DOMAIN t = 1..(Len(s) + 1)
  BY <1>1, <1>2
<1>4. \A i \in 1..(Len(s) + 1) : i = Len(s) + 1 \/ i \in 1..Len(s)
  BY <1>1
<1>5. Range(t) = Range(s) \cup {d}
  <2>1. \A x \in Range(t) : x \in Range(s) \cup {d}
    BY <1>1, <1>2, <1>3, <1>4 DEF Range
  <2>2. \A x \in Range(s) : x \in Range(t)
    BY <1>1, <1>2, <1>3 DEF Range
  <2>3. d \in Range(t)
    BY <1>1, <1>2, <1>3 DEF Range
  <2> QED
    BY <2>1, <2>2, <2>3
<1>6. IsInjective(t)
  BY <1>1, <1>2, <1>3, <1>4 DEF IsInjective, Range
<1> QED
  BY <1>2, <1>5, <1>6 DEF t

LEMMA Tailed ==
  ASSUME NEW S, NEW s \in Seq(S), IsInjective(s), s # << >>
  PROVE  /\ Head(s) \in S /\ Head(s) \in Range(s)
         /\ Tail(s) \in Seq(S) /\ Range(Tail(s)) = Range(s) \ {Head(s)}
         /\ IsInjective(Tail(s))
<1> DEFINE t == Tail(s)
<1>1. Len(s) \in Nat /\ Len(s) > 0 /\ DOMAIN s = 1..Len(s) /\ Head(s) = s[1]
  OBVIOUS
<1>2. t \in Seq(S) /\ Len(t) = Len(s) - 1 /\ \A i \in 1..(Len(s) - 1) : t[i] = s[i + 1]
  BY <1>1
<1> HIDE DEF t
<1>3. DOMAIN t = 1..(Len(s) - 1)
  BY <1>1, <1>2
<1>4. \A i \in 1..(Len(s) - 1) : i + 1 \in DOMAIN s /\ i + 1 # 1
  BY <1>1
<1>5. \A i \in DOMAIN s : i = 1 \/ (i - 1 \in DOMAIN t /\ t[i - 1] = s[i])
  BY <1>1, <1>2, <1>3
<1>6. Head(s) \in S /\ Head(s) \in Range(s)
  BY <1>1 DEF Range
<1>7. Range(t) = Range(s) \ {Head(s)}
  <2>1. ASSUME NEW x \in Range(t) PROVE x \in Range(s) /\ x # Head(s)
    <3>1. PICK i \in 1..(Len(s) - 1) : x = s[i + 1]
      BY <1>2, <1>3 DEF Range
    <3> QED
      BY <1>1, <1>4, <3>1 DEF Range, IsInjective
  <2>2. ASSUME NEW x \in Range(s), x # Head(s) PROVE x \in Range(t)
    <3>1. PICK i \in DOMAIN s : x = s[i]
      BY DEF Range
    <3> QED
      BY <1>1, <1>5, <2>2, <3>1 DEF Range
  <2> QED
    BY <2>1, <2>2
<1>8. IsInjective(t)
  <2> SUFFICES ASSUME NEW i \in 1..(Len(s) - 1), NEW j \in 1..(Len(s) - 1), t[i] = t[j]
               PROVE  i = j
    BY <1>3 DEF IsInjective
  <2>1. i + 1 = j + 1
    BY <1>2, <1>4 DEF IsInjective
  <2> QED
    BY <1>1, <2>1
<1> QED
  BY <1>2, <1>6, <1>7, <1>8 DEF t

LEMMA CutLengths ==
  ASSUME NEW l \in Nat, NEW k \in 1..l
  PROVE  /\ (IF k + 1 <= l THEN l - (k + 1) + 1 ELSE 0) = l - k
         /\ l - (k + 1) + 1 = l - k
         /\ l - k \in Nat /\ k - 1 \in Nat
         /\ (k - 1) + (l - k) = l - 1
<1>1. CASE k + 1 <= l
  BY <1>1
<1>2. CASE k = l
  BY <1>2
<1> QED
  BY <1>1, <1>2

\* A list in which every buffer stands once loses the one that is taken out.
LEMMA Removed ==
  ASSUME NEW S, NEW s \in Seq(S), IsInjective(s), NEW e
  PROVE  LET t == RemoveFirst(s, e)
         IN t \in Seq(S) /\ Range(t) = Range(s) \ {e} /\ IsInjective(t)
<1>1. Len(s) \in Nat /\ DOMAIN s = 1..Len(s)
  OBVIOUS
<1>2. CASE ~ \E i \in 1..Len(s) : s[i] = e
  <2>1. RemoveFirst(s, e) = s
    BY <1>2 DEF RemoveFirst
  <2>2. e \notin Range(s)
    BY <1>1, <1>2 DEF Range
  <2> QED
    BY <2>1, <2>2
<1>3. CASE \E i \in 1..Len(s) : s[i] = e
  <2> DEFINE I == {i \in 1..Len(s) : s[i] = e}
  <2>1. PICK k \in 1..Len(s) : k = Min(I) /\ s[k] = e
    <3>1. I \subseteq Nat /\ I # {}
      BY <1>1, <1>3
    <3>2. Min(I) \in I
      BY <3>1, MinInSet
    <3> QED
      BY <3>2
  <2>2. RemoveFirst(s, e) = SubSeq(s, 1, k - 1) \o SubSeq(s, k + 1, Len(s))
    <3>1. I # {}
      BY <1>3
    <3> QED
      BY <1>3, <2>1, <3>1 DEF RemoveFirst, RemoveAt, SelectInSeq
  <2> HIDE DEF I
  <2> DEFINE a == SubSeq(s, 1, k - 1)
             b == SubSeq(s, k + 1, Len(s))
             t == a \o b
             n == Len(s) - 1
  <2>3. /\ a \in Seq(S) /\ Len(a) = k - 1
        /\ \A i \in 1..(k - 1) : a[i] = s[i]
    BY <1>1, <2>1
  <2>4. /\ b \in Seq(S) /\ Len(b) = Len(s) - k
        /\ \A i \in 1..(Len(s) - k) : b[i] = s[i + k]
    <3>1. \A i \in (k + 1)..Len(s) : s[i] \in S
      BY <1>1, <2>1
    <3>2. /\ b \in Seq(S) /\ Len(b) = IF k + 1 <= Len(s) THEN Len(s) - (k + 1) + 1 ELSE 0
          /\ \A i \in 1..(Len(s) - (k + 1) + 1) : b[i] = s[k + 1 + i - 1]
      BY <1>1, <2>1, <3>1, SubSeqProperties
    <3> HIDE DEF b
    <3>3. Len(b) = Len(s) - k /\ Len(s) - (k + 1) + 1 = Len(s) - k
      BY <1>1, <3>2, CutLengths
    <3>4. \A i \in 1..(Len(s) - k) : k + 1 + i - 1 = i + k
      BY <1>1, <2>1
    <3> QED
      BY <3>2, <3>3, <3>4
  <2> HIDE DEF a, b
  <2>5. /\ t \in Seq(S) /\ Len(t) = n
        /\ \A i \in 1..n : t[i] = IF i < k THEN s[i] ELSE s[i + 1]
    <3>1. t \in Seq(S) /\ Len(t) = n
      <4>1. t \in Seq(S) /\ Len(t) = Len(a) + Len(b)
        BY <2>3, <2>4, ConcatProperties
      <4> HIDE DEF t
      <4> QED
        BY <1>1, <2>3, <2>4, <4>1, CutLengths
    <3>2. ASSUME NEW i \in 1..n PROVE t[i] = IF i < k THEN s[i] ELSE s[i + 1]
      <4>1. t[i] = IF i <= k - 1 THEN a[i] ELSE b[i - (k - 1)]
        <5>1. \A j \in 1..(Len(a) + Len(b)) :
                t[j] = IF j <= Len(a) THEN a[j] ELSE b[j - Len(a)]
          BY <2>3, <2>4, ConcatProperties
        <5>2. Len(a) = k - 1 /\ Len(a) + Len(b) = n
          BY <1>1, <2>3, <2>4, CutLengths
        <5> HIDE DEF t
        <5> QED
          BY <5>1, <5>2
      <4>2. CASE i < k
        BY <1>1, <2>1, <2>3, <4>1, <4>2
      <4>3. CASE ~(i < k)
        <5>1. /\ i - (k - 1) \in 1..(Len(s) - k) /\ i - (k - 1) + k = i + 1
              /\ ~(i <= k - 1)
          BY <1>1, <2>1, <4>3
        <5>2. b[i - (k - 1)] = s[i - (k - 1) + k]
          BY <2>4, <5>1
        <5> QED
          BY <4>1, <4>3, <5>1, <5>2
      <4> QED
        BY <4>2, <4>3
    <3> QED
      BY <1>1, <2>1, <3>1, <3>2
  <2> HIDE DEF t
  <2>6. DOMAIN t = 1..n /\ n \in Nat
    BY <1>1, <2>1, <2>5
  <2>7. \A i \in 1..n : \E j \in 1..Len(s) : j # k /\ t[i] = s[j]
    <3> TAKE i \in 1..n
    <3>1. CASE i < k
      BY <1>1, <2>1, <2>5, <3>1
    <3>2. CASE ~(i < k)
      <4>1. i + 1 \in 1..Len(s) /\ i + 1 # k
        BY <1>1, <2>1, <3>2
      <4> QED
        BY <2>5, <3>2, <4>1
    <3> QED
      BY <3>1, <3>2
  <2>8. \A j \in 1..Len(s) : j # k => \E i \in 1..n : t[i] = s[j]
    <3> SUFFICES ASSUME NEW j \in 1..Len(s), j # k PROVE \E i \in 1..n : t[i] = s[j]
      OBVIOUS
    <3>1. CASE j < k
      <4>1. j \in 1..n
        BY <1>1, <2>1, <3>1
      <4> QED
        BY <2>5, <3>1, <4>1
    <3>2. CASE j > k
      <4>1. j - 1 \in 1..n /\ ~(j - 1 < k) /\ (j - 1) + 1 = j
        BY <1>1, <2>1, <3>2
      <4>2. t[j - 1] = s[j]
        BY <2>5, <4>1
      <4> QED
        BY <4>1, <4>2
    <3> QED
      BY <1>1, <2>1, <3>1, <3>2
  <2>9. Range(t) = Range(s) \ {e}
    <3>1. ASSUME NEW x \in Range(t) PROVE x \in Range(s) /\ x # e
      <4>1. PICK i \in 1..n : x = t[i]
        BY <2>6 DEF Range
      <4>2. PICK j \in 1..Len(s) : j # k /\ x = s[j]
        BY <2>7, <4>1
      <4> QED
        BY <1>1, <2>1, <4>2 DEF Range, IsInjective
    <3>2. ASSUME NEW x \in Range(s), x # e PROVE x \in Range(t)
      <4>1. PICK j \in 1..Len(s) : x = s[j]
        BY <1>1 DEF Range
      <4>2. PICK i \in 1..n : t[i] = x
        BY <2>1, <2>8, <3>2, <4>1
      <4> QED
        BY <2>6, <4>2 DEF Range
    <3> QED
      BY <3>1, <3>2
  <2>10. IsInjective(t)
    <3> SUFFICES ASSUME NEW i \in 1..n, NEW j \in 1..n, t[i] = t[j] PROVE i = j
      BY <2>6 DEF IsInjective
    <3> DEFINE At(m) == IF m < k THEN m ELSE m + 1
    <3>1. \A m \in 1..n : At(m) \in 1..Len(s) /\ t[m] = s[At(m)]
      <4> TAKE m \in 1..n
      <4>1. CASE m < k
        BY <1>1, <2>1, <2>5, <4>1
      <4>2. CASE ~(m < k)
        BY <1>1, <2>1, <2>5, <4>2
      <4> QED
        BY <4>1, <4>2
    <3>2. At(i) = At(j)
      BY <1>1, <3>1 DEF IsInjective
    <3> QED
      BY <1>1, <2>1, <3>2
  <2> QED
    BY <2>2, <2>5, <2>9, <2>10 DEF t, a, b
<1> QED
  BY <1>2, <1>3

\* alloc3_desc() takes three free descriptors.
LEMMA Allocated ==
  ASSUME free \subseteq Desc, Cardinality(free) >= 3
  PROVE  /\ Alloc3 \in Seq(Desc) /\ Len(Alloc3) = 3 /\ Alloc3 # << >>
         /\ Alloc3[1] \in Range(Alloc3) /\ Range(Alloc3) \subseteq free
         /\ Alloc3[1] \in free
<1>1. IsFiniteSet(free) /\ Cardinality(free) \in Nat /\ free \subseteq Nat
  BY Constants, FS_Subset, FS_CardinalityType
<1> DEFINE i == Min(free)
           f1 == free \ {i}
           j == Min(f1)
           f2 == free \ {i, j}
           k == Min(f2)
<1>2. i \in free
  <2>1. free # {}
    BY <1>1, FS_EmptySet
  <2> QED
    BY <1>1, <2>1, MinInSet
<1>3. IsFiniteSet(f1) /\ Cardinality(f1) = Cardinality(free) - 1
  BY <1>1, <1>2, FS_RemoveElement
<1>4. j \in f1
  <2>1. f1 \subseteq Nat /\ Cardinality(f1) # 0
    <3>1. f1 \subseteq Nat
      BY <1>1
    <3> HIDE DEF f1
    <3> QED
      BY <1>1, <1>3, <3>1
  <2> HIDE DEF f1
  <2>2. f1 # {}
    BY <2>1, FS_EmptySet
  <2> QED
    BY <2>1, <2>2, MinInSet
<1>5. Cardinality(f2) = Cardinality(f1) - 1 /\ IsFiniteSet(f2)
  <2>1. f2 = f1 \ {j}
    OBVIOUS
  <2> HIDE DEF f1, f2, j
  <2> QED
    BY <1>3, <1>4, <2>1, FS_RemoveElement
<1>6. k \in f2
  <2>1. f2 \subseteq Nat /\ Cardinality(f2) # 0
    <3>1. f2 \subseteq Nat
      BY <1>1
    <3> HIDE DEF f1, f2
    <3> QED
      BY <1>1, <1>3, <1>5, <3>1
  <2> HIDE DEF f2
  <2>2. f2 # {}
    BY <2>1, FS_EmptySet
  <2> QED
    BY <2>1, <2>2, MinInSet
<1>7. Alloc3 = <<i, j, k>> /\ j \in free /\ k \in free
  BY <1>4, <1>6 DEF Alloc3
<1> HIDE DEF i, j, k
<1> DEFINE t == <<i, j, k>>
<1>8. t \in Seq(free) /\ Len(t) = 3 /\ t[1] = i /\ t[2] = j /\ t[3] = k
  BY <1>2, <1>7
<1> HIDE DEF t
<1>9. DOMAIN t = 1..3
  BY <1>8
<1>10. t[1] \in Range(t) /\ Range(t) \subseteq free
  <2>1. \A m \in 1..3 : t[m] \in free
    BY <1>8
  <2> QED
    BY <1>9, <2>1 DEF Range
<1>11. t \in Seq(Desc) /\ t # << >>
  BY <1>8
<1> QED
  BY <1>2, <1>7, <1>8, <1>10, <1>11 DEF t

\* State facts of several steps.
LEMMA UsersFinite ==
  ASSUME NEW b
  PROVE  IsFiniteSet(Users(b)) /\ Cardinality(Users(b)) \in Nat
         /\ Cardinality(Users(b)) <= Cardinality(Hand)
<1>1. Users(b) \in SUBSET Hand
  BY DEF Users
<1> QED
  BY <1>1, Constants, FS_Subset, FS_CardinalityType

LEMMA Counts ==
  ASSUME References, NEW b \in Buffer
  PROVE  refcnt[b] = Cardinality(Users(b)) + Pins(b)
BY DEF References, Users, Pins

\* A buffer that bget() recycles is not in use.
LEMMA UnusedBuffer ==
  ASSUME IInv, NEW b \in Buffer, refcnt[b] = 0
  PROVE  /\ \A p \in Hand : buf[p] # b
         /\ blockno[b] \notin pinned
<1>1. refcnt[b] = Cardinality(Users(b)) + Pins(b)
  BY Counts DEF IInv
<1>2. Cardinality(Users(b)) = 0 /\ Pins(b) = 0
  BY <1>1, UsersFinite DEF Pins
<1>3. Users(b) = {}
  BY <1>2, UsersFinite, FS_EmptySet
<1> QED
  BY <1>2, <1>3 DEF Pins, Users

\* A variable that is not idle has a buffer with a block and a reference.
LEMMA HasBuffer ==
  ASSUME IInv, NEW p \in Hand, pc[p] # "idle"
  PROVE  /\ buf[p] \in Buffer /\ buf[p] # None /\ blockno[buf[p]] \in Blocks
         /\ refcnt[buf[p]] \in Nat /\ refcnt[buf[p]] > 0
<1>1. buf[p] \in Buffer /\ buf[p] # None /\ blockno[buf[p]] \in Blocks
  BY DEF IInv, AtLabels, ProcTypes
<1>2. refcnt[buf[p]] \in Nat /\ refcnt[buf[p]] # 0
  BY <1>1, UnusedBuffer DEF IInv, LruOK
<1> QED
  BY <1>1, <1>2

\* Two variables behind acquiresleep() have different buffers.
LEMMA OneHolder ==
  ASSUME IInv, NEW p \in Hand, NEW q \in Hand,
         pc[p] \in Holding, pc[q] \in Holding, buf[p] = buf[q]
  PROVE  p = q
<1>1. buf[p] \in Buffer
  BY HasBuffer DEF Holding, Waiting, Submitted, Behind
<1> QED
  BY <1>1 DEF IInv, Locks

\* So have two requests.
LEMMA OneRequest ==
  ASSUME IInv, NEW p \in Hand, NEW q \in Hand, p # q,
         chain[p] # << >>, chain[q] # << >>
  PROVE  buf[p] # buf[q] /\ chain[p][1] # chain[q][1]
<1>1. pc[p] \in Holding /\ pc[q] \in Holding
  BY DEF IInv, AtLabels, Holding
<1>2. buf[p] # buf[q]
  BY <1>1, OneHolder
<1>3. chain[p][1] \in Range(chain[p]) /\ chain[q][1] \in Range(chain[q])
  BY DEF IInv, Chains
<1> QED
  BY <1>2, <1>3 DEF IInv, DescriptorsOwned

LEMMA IntrAckIInv ==
  ASSUME IInv, ~panicked, IntrAck
  PROVE  IInv'
<1>1. UNCHANGED <<blockno, valid, refcnt, locked, latest, lru, free, info, avail, used, platter, disk, pinned, pc, buf, write, chain, panicked>>
  BY DEF IntrAck, bufVars, devVars, procVars
<1>2. BufTypes' /\ LruOK' /\ DevTypes'
  BY <1>1 DEF IInv, BufTypes, LruOK, DevTypes
<1>3. ProcTypes' /\ AtLabels' /\ Locks'
  BY <1>1 DEF IInv, ProcTypes, AtLabels, Locks
<1>4. Chains' /\ InFlight' /\ Owned'
  BY <1>1 DEF IInv, Chains, InFlight, Owned
<1>5. UsedOK' /\ ValidLatest' /\ ValidAt'
  BY <1>1 DEF IInv, UsedOK, ValidLatest, ValidAt
<1>6. Completed' /\ WrittenBack' /\ Unwritten'
  BY <1>1 DEF IInv, Completed, WrittenBack, Unwritten
<1>7. PinnedCached' /\ OneBufferPerBlock'
  BY <1>1 DEF IInv, PinnedCached, OneBufferPerBlock
<1>8. References'
  BY <1>1 DEF IInv, References
<1>9. DescriptorsOwned'
  BY <1>1 DEF IInv, DescriptorsOwned
<1>10. Sleepers'
  BY <1>1 DEF IInv, Sleepers
<1>11. BoolTypes'
  BY <1>1, Constants DEF IntrAck, IInv, BoolTypes
<1>12. IntrToCome'
  BY <1>1, Constants DEF IntrAck, IInv, IntrToCome
<1>13. PanicsOnlyWhenFull'
  BY DEF IntrAck, PanicsOnlyWhenFull
<1> QED
  BY <1>2, <1>3, <1>4, <1>5, <1>6, <1>7, <1>8, <1>9, <1>10, <1>11, <1>12, <1>13
     DEF IInv

LEMMA IntrDoneIInv ==
  ASSUME IInv, ~panicked, IntrDone
  PROVE  IInv'
<1>1. UNCHANGED <<blockno, valid, refcnt, locked, latest, lru, free, info, avail, used, isr, platter, disk, pinned, pc, buf, write, chain, panicked>>
  BY DEF IntrDone, bufVars, devVars, procVars
<1>2. BufTypes' /\ LruOK' /\ DevTypes'
  BY <1>1 DEF IInv, BufTypes, LruOK, DevTypes
<1>3. ProcTypes' /\ AtLabels' /\ Locks'
  BY <1>1 DEF IInv, ProcTypes, AtLabels, Locks
<1>4. Chains' /\ InFlight' /\ Owned'
  BY <1>1 DEF IInv, Chains, InFlight, Owned
<1>5. UsedOK' /\ ValidLatest' /\ ValidAt'
  BY <1>1 DEF IInv, UsedOK, ValidLatest, ValidAt
<1>6. Completed' /\ WrittenBack' /\ Unwritten'
  BY <1>1 DEF IInv, Completed, WrittenBack, Unwritten
<1>7. PinnedCached' /\ OneBufferPerBlock'
  BY <1>1 DEF IInv, PinnedCached, OneBufferPerBlock
<1>8. References'
  BY <1>1 DEF IInv, References
<1>9. DescriptorsOwned'
  BY <1>1 DEF IInv, DescriptorsOwned
<1>10. Sleepers'
  BY <1>1 DEF IInv, Sleepers
<1>11. BoolTypes'
  BY <1>1, Constants DEF IntrDone, IInv, BoolTypes
<1>12. IntrToCome'
  BY <1>1, Constants DEF IntrDone, IInv, IntrToCome
<1>13. PanicsOnlyWhenFull'
  BY DEF IntrDone, PanicsOnlyWhenFull
<1> QED
  BY <1>2, <1>3, <1>4, <1>5, <1>6, <1>7, <1>8, <1>9, <1>10, <1>11, <1>12, <1>13
     DEF IInv

LEMMA SleepAgainIInv ==
  ASSUME IInv, ~panicked, NEW p \in Hand, SleepAgain(p)
  PROVE  IInv'
<1>1. UNCHANGED <<blockno, valid, refcnt, locked, latest, lru, free, info, avail, used, isr, vdisk_lock, platter, disk, pinned, buf, write, chain, panicked>>
  BY DEF SleepAgain, Goto, RequestDone, bufVars, devVars, procVars
<1>2. /\ pc[p] = "rw_woken" /\ pc'[p] = "rw_sleep" /\ pc' \in [Hand -> Labels]
      /\ \A q \in Hand : q # p => pc'[q] = pc[q]
  BY DEF SleepAgain, Goto, RequestDone, Labels, Asleep, IInv, ProcTypes
<1>3. BufTypes' /\ BoolTypes' /\ LruOK'
  BY <1>1 DEF IInv, BufTypes, BoolTypes, LruOK
<1>4. DevTypes' /\ Chains' /\ InFlight'
  BY <1>1 DEF IInv, DevTypes, Chains, InFlight
<1>5. Owned' /\ UsedOK' /\ IntrToCome'
  BY <1>1 DEF IInv, Owned, UsedOK, IntrToCome
<1>6. ValidLatest' /\ Unwritten' /\ PinnedCached'
  BY <1>1 DEF IInv, ValidLatest, Unwritten, PinnedCached
<1>7. OneBufferPerBlock'
  BY <1>1 DEF IInv, OneBufferPerBlock
<1>8. References'
  BY <1>1 DEF IInv, References
<1>9. DescriptorsOwned'
  BY <1>1 DEF IInv, DescriptorsOwned
<1>10. ProcTypes'
  BY <1>1, <1>2 DEF IInv, ProcTypes
<1>11. AtLabels'
  BY <1>1, <1>2, Constants DEF IInv, AtLabels, Holding, Waiting, Submitted,
     Behind
<1>12. Locks'
  BY <1>1, <1>2, Constants DEF IInv, Locks, Holding, Waiting, Submitted, Behind
<1>13. ValidAt'
  BY <1>1, <1>2, Constants DEF IInv, ValidAt, Holding, Waiting, Submitted,
     Behind
<1>14. Completed'
  BY <1>1, <1>2, Constants DEF IInv, Completed, Holding, Waiting, Submitted,
     Behind
<1>15. WrittenBack'
  BY <1>1, <1>2, Constants DEF IInv, WrittenBack
<1>16. PanicsOnlyWhenFull'
  BY DEF SleepAgain, Goto, RequestDone, PanicsOnlyWhenFull
<1>17. Sleepers'
  <2>1. disk[buf[p]] /\ chain[p] # << >>
    BY <1>2 DEF SleepAgain, RequestDone, IInv, AtLabels, Submitted
  <2> QED
    BY <1>1, <1>2, <2>1 DEF IInv, Sleepers
<1> QED
  BY <1>3, <1>4, <1>5, <1>6, <1>7, <1>8, <1>9, <1>10, <1>11, <1>12, <1>13,
     <1>14, <1>15, <1>16, <1>17 DEF IInv

LEMMA KillWakesIInv ==
  ASSUME IInv, ~panicked, NEW p \in Hand, KillWakes(p)
  PROVE  IInv'
<1>1. UNCHANGED <<blockno, valid, refcnt, locked, latest, lru, free, info, avail, used, isr, vdisk_lock, platter, disk, pinned, buf, write, chain, panicked>>
  BY DEF KillWakes, Goto, bufVars, devVars, procVars
<1>2. /\ \/ pc[p] = "lock_sleep" /\ pc'[p] = "lock"
         \/ pc[p] = "desc_sleep" /\ pc'[p] = "rw"
         \/ pc[p] = "rw_sleep" /\ pc'[p] = "rw_woken"
      /\ pc' \in [Hand -> Labels]
      /\ \A q \in Hand : q # p => pc'[q] = pc[q]
  BY DEF KillWakes, Goto, Labels, Asleep, IInv, ProcTypes
<1>3. BufTypes' /\ BoolTypes' /\ LruOK'
  BY <1>1 DEF IInv, BufTypes, BoolTypes, LruOK
<1>4. DevTypes' /\ Chains' /\ InFlight'
  BY <1>1 DEF IInv, DevTypes, Chains, InFlight
<1>5. Owned' /\ UsedOK' /\ IntrToCome'
  BY <1>1 DEF IInv, Owned, UsedOK, IntrToCome
<1>6. ValidLatest' /\ Unwritten' /\ PinnedCached'
  BY <1>1 DEF IInv, ValidLatest, Unwritten, PinnedCached
<1>7. OneBufferPerBlock'
  BY <1>1 DEF IInv, OneBufferPerBlock
<1>8. References'
  BY <1>1 DEF IInv, References
<1>9. DescriptorsOwned'
  BY <1>1 DEF IInv, DescriptorsOwned
<1>10. ProcTypes'
  BY <1>1, <1>2 DEF IInv, ProcTypes
<1>11. AtLabels'
  BY <1>1, <1>2, Constants DEF IInv, AtLabels, Holding, Waiting, Submitted,
     Behind
<1>12. Locks'
  BY <1>1, <1>2, Constants DEF IInv, Locks, Holding, Waiting, Submitted, Behind
<1>13. ValidAt'
  BY <1>1, <1>2, Constants DEF IInv, ValidAt, Holding, Waiting, Submitted,
     Behind
<1>14. Completed'
  BY <1>1, <1>2, Constants DEF IInv, Completed, Holding, Waiting, Submitted,
     Behind
<1>15. WrittenBack'
  BY <1>1, <1>2, Constants DEF IInv, WrittenBack
<1>16. PanicsOnlyWhenFull'
  BY DEF KillWakes, Goto, PanicsOnlyWhenFull
<1>17. Sleepers'
  BY <1>1, <1>2, Constants DEF IInv, Sleepers
<1> QED
  BY <1>3, <1>4, <1>5, <1>6, <1>7, <1>8, <1>9, <1>10, <1>11, <1>12, <1>13,
     <1>14, <1>15, <1>16, <1>17 DEF IInv

LEMMA AcquireSleepIInv ==
  ASSUME IInv, ~panicked, NEW p \in Hand, AcquireSleep(p)
  PROVE  IInv'
<1>1. UNCHANGED <<blockno, valid, refcnt, latest, lru, free, info, avail, used, isr, vdisk_lock, platter, disk, pinned, buf, write, chain, panicked>>
  BY DEF AcquireSleep, Goto, bufVars, devVars, procVars
<1>2. buf[p] \in Buffer /\ pc[p] = "lock"
  BY HasBuffer DEF AcquireSleep
<1>3. /\ \/ locked[buf[p]] # Nobody /\ pc'[p] = "lock_sleep" /\ locked' = locked
         \/ /\ locked[buf[p]] = Nobody /\ locked' = [locked EXCEPT ![buf[p]] = p]
            /\ pc'[p] = IF valid[buf[p]] THEN "held" ELSE "rw"
      /\ pc' \in [Hand -> Labels]
      /\ \A q \in Hand : q # p => pc'[q] = pc[q]
  BY DEF AcquireSleep, Goto, Labels, Asleep, IInv, ProcTypes
<1>4. BoolTypes' /\ LruOK' /\ DevTypes'
  BY <1>1 DEF IInv, BoolTypes, LruOK, DevTypes
<1>5. Chains' /\ InFlight' /\ Owned'
  BY <1>1 DEF IInv, Chains, InFlight, Owned
<1>6. UsedOK' /\ IntrToCome' /\ ValidLatest'
  BY <1>1 DEF IInv, UsedOK, IntrToCome, ValidLatest
<1>7. Unwritten' /\ PinnedCached' /\ OneBufferPerBlock'
  BY <1>1 DEF IInv, Unwritten, PinnedCached, OneBufferPerBlock
<1>8. References'
  BY <1>1 DEF IInv, References
<1>9. DescriptorsOwned'
  BY <1>1 DEF IInv, DescriptorsOwned
<1>10. BufTypes'
  BY <1>1, <1>2, <1>3 DEF IInv, BufTypes
<1>11. ProcTypes'
  BY <1>1, <1>3 DEF IInv, ProcTypes
<1>12. AtLabels'
  BY <1>1, <1>2, <1>3, Constants DEF IInv, AtLabels, Holding, Waiting,
     Submitted, Behind
<1>13. Locks'
  <2>1. \A q \in Hand : locked[buf[p]] = q => q # p
    BY <1>2, <1>3 DEF IInv, Locks, Holding, Waiting, Submitted, Behind
  <2>2. \A c \in Buffer : c # buf[p] => locked'[c] = locked[c]
    BY <1>2, <1>3 DEF IInv, BufTypes
  <2>3. CASE locked[buf[p]] # Nobody
    BY <1>1, <1>2, <1>3, <2>1, <2>3, Constants DEF IInv, Locks, Holding,
       Waiting, Submitted, Behind
  <2>4. CASE locked[buf[p]] = Nobody
    <3>1. locked[buf[p]] = Nobody /\ locked'[buf[p]] = p /\ pc'[p] \in Holding
      BY <1>2, <1>3, <2>4 DEF IInv, BufTypes, Holding, Waiting, Submitted,
         Behind
    <3>2. pc[p] \notin Holding
      BY <1>2 DEF Holding, Waiting, Submitted, Behind
    <3>3. \A q \in Hand : q # p => ~(pc[q] \in Holding /\ buf[q] = buf[p])
      BY <1>2, <3>1, Constants DEF IInv, Locks
    <3> QED
      BY <1>1, <1>2, <1>3, <2>2, <3>1, <3>2, <3>3, Constants DEF IInv, Locks
  <2> QED
    BY <2>3, <2>4
<1>14. ValidAt'
  <2>1. ~write[p]
    BY <1>2 DEF IInv, AtLabels, Waiting, Submitted
  <2> QED
    BY <1>1, <1>3, <2>1 DEF IInv, ValidAt, Waiting, Submitted, Behind
<1>15. Completed'
  BY <1>1, <1>2, <1>3, Constants DEF IInv, Completed, Holding, Waiting,
     Submitted, Behind
<1>16. WrittenBack'
  BY <1>1, <1>2, <1>3, Constants DEF IInv, WrittenBack
<1>17. PanicsOnlyWhenFull'
  BY DEF AcquireSleep, Goto, PanicsOnlyWhenFull
<1>18. Sleepers'
  <2>1. locked[buf[p]] # p
    BY <1>2 DEF IInv, Locks, Holding, Waiting, Submitted, Behind
  <2>2. \A c \in Buffer : locked[c] # Nobody => locked'[c] = locked[c]
    BY <1>2, <1>3 DEF IInv, BufTypes
  <2>3. \A q \in Hand : pc[q] = "lock_sleep" => buf[q] \in Buffer
    BY HasBuffer
  <2> QED
    BY <1>1, <1>3, <2>1, <2>2, <2>3 DEF IInv, Sleepers
<1> QED
  BY <1>4, <1>5, <1>6, <1>7, <1>8, <1>9, <1>10, <1>11, <1>12, <1>13, <1>14,
     <1>15, <1>16, <1>17, <1>18 DEF IInv

LEMMA BrelseIInv ==
  ASSUME IInv, ~panicked, NEW p \in Hand, Brelse(p)
  PROVE  IInv'
<1>1. UNCHANGED <<blockno, valid, refcnt, latest, lru, free, info, avail, used, isr, vdisk_lock, platter, disk, pinned, buf, write, chain>>
  BY DEF Brelse, Wake, LockSleepers, bufVars, devVars, procVars
<1>2. buf[p] \in Buffer /\ pc[p] \in {"held", "done"} /\ locked[buf[p]] = p
  <2>1. buf[p] \in Buffer /\ pc[p] \in {"held", "done"}
    BY HasBuffer DEF Brelse
  <2> QED
    BY <2>1 DEF IInv, Locks, Holding, Waiting, Submitted, Behind
<1>3. panicked' = panicked /\ locked' = [locked EXCEPT ![buf[p]] = Nobody]
  BY <1>2 DEF Brelse
<1>4. /\ pc'[p] = "deref" /\ pc' \in [Hand -> Labels]
      /\ \A q \in Hand : q # p =>
           pc'[q] = IF pc[q] = "lock_sleep" /\ buf[q] = buf[p] THEN "lock" ELSE pc[q]
  BY <1>2 DEF Brelse, Wake, LockSleepers, Labels, Asleep, IInv, ProcTypes
<1>5. LruOK' /\ DevTypes' /\ Chains'
  BY <1>1 DEF IInv, LruOK, DevTypes, Chains
<1>6. InFlight' /\ Owned' /\ UsedOK'
  BY <1>1 DEF IInv, InFlight, Owned, UsedOK
<1>7. IntrToCome' /\ ValidLatest' /\ Unwritten'
  BY <1>1 DEF IInv, IntrToCome, ValidLatest, Unwritten
<1>8. PinnedCached' /\ OneBufferPerBlock'
  BY <1>1 DEF IInv, PinnedCached, OneBufferPerBlock
<1>9. References'
  BY <1>1 DEF IInv, References
<1>10. DescriptorsOwned'
  BY <1>1 DEF IInv, DescriptorsOwned
<1>11. BufTypes'
  BY <1>1, <1>2, <1>3, <1>4, Constants DEF IInv, BufTypes
<1>12. BoolTypes'
  BY <1>1, <1>3 DEF IInv, BoolTypes
<1>13. ProcTypes'
  BY <1>1, <1>4 DEF IInv, ProcTypes
<1>14. AtLabels'
  BY <1>1, <1>2, <1>3, <1>4, Constants DEF IInv, AtLabels, Holding, Waiting,
     Submitted, Behind
<1>15. Locks'
  <2>1. \A c \in Buffer : c # buf[p] => locked'[c] = locked[c]
    BY <1>2, <1>3 DEF IInv, BufTypes
  <2>2. locked'[buf[p]] = Nobody
    BY <1>2, <1>3 DEF IInv, BufTypes
  <2>3. pc'[p] \notin Holding /\ \A q \in Hand : q # p => (pc'[q] \in Holding <=> pc[q] \in Holding)
    BY <1>4 DEF Holding, Waiting, Submitted, Behind
  <2>4. \A q \in Hand : q # p => ~(pc[q] \in Holding /\ buf[q] = buf[p])
    BY <1>2 DEF IInv, Locks
  <2> QED
    BY <1>1, <1>2, <2>1, <2>2, <2>3, <2>4, Constants DEF IInv, Locks
<1>16. ValidAt'
  BY <1>1, <1>2, <1>3, <1>4, Constants DEF IInv, ValidAt, Holding, Waiting,
     Submitted, Behind
<1>17. Completed'
  BY <1>1, <1>2, <1>3, <1>4, Constants DEF IInv, Completed, Holding, Waiting,
     Submitted, Behind
<1>18. WrittenBack'
  BY <1>1, <1>2, <1>3, <1>4, Constants DEF IInv, WrittenBack
<1>19. PanicsOnlyWhenFull'
  BY <1>3 DEF PanicsOnlyWhenFull
<1>20. Sleepers'
  <2>1. \A c \in Buffer : c # buf[p] => locked'[c] = locked[c]
    BY <1>2, <1>3 DEF IInv, BufTypes
  <2>3. \A q \in Hand : pc[q] = "lock_sleep" => buf[q] \in Buffer
    BY HasBuffer
  <2> QED
    BY <1>1, <1>4, <2>1, <2>3 DEF IInv, Sleepers
<1> QED
  BY <1>5, <1>6, <1>7, <1>8, <1>9, <1>10, <1>11, <1>12, <1>13, <1>14, <1>15,
     <1>16, <1>17, <1>18, <1>19, <1>20 DEF IInv

LEMMA NoDescriptorsIInv ==
  ASSUME IInv, ~panicked, NEW p \in Hand, NoDescriptors(p)
  PROVE  IInv'
<1>1. UNCHANGED <<blockno, valid, refcnt, locked, latest, lru, free, info, avail, used, isr, vdisk_lock, platter, disk, pinned, buf, write, chain, panicked>>
  BY DEF NoDescriptors, Wake, DescSleepers, bufVars, devVars, procVars
<1>2. /\ pc[p] = "rw" /\ pc'[p] = "desc_sleep" /\ pc' \in [Hand -> Labels]
      /\ \A q \in Hand : q # p =>
           pc'[q] = pc[q] \/ (pc[q] = "desc_sleep" /\ pc'[q] = "rw")
  BY DEF NoDescriptors, Wake, DescSleepers, Labels, Asleep, IInv, ProcTypes
<1>3. BufTypes' /\ BoolTypes' /\ LruOK'
  BY <1>1 DEF IInv, BufTypes, BoolTypes, LruOK
<1>4. DevTypes' /\ Chains' /\ InFlight'
  BY <1>1 DEF IInv, DevTypes, Chains, InFlight
<1>5. Owned' /\ UsedOK' /\ IntrToCome'
  BY <1>1 DEF IInv, Owned, UsedOK, IntrToCome
<1>6. ValidLatest' /\ Unwritten' /\ PinnedCached'
  BY <1>1 DEF IInv, ValidLatest, Unwritten, PinnedCached
<1>7. OneBufferPerBlock'
  BY <1>1 DEF IInv, OneBufferPerBlock
<1>8. References'
  BY <1>1 DEF IInv, References
<1>9. DescriptorsOwned'
  BY <1>1 DEF IInv, DescriptorsOwned
<1>10. ProcTypes'
  BY <1>1, <1>2 DEF IInv, ProcTypes
<1>11. AtLabels'
  BY <1>1, <1>2, Constants DEF IInv, AtLabels, Holding, Waiting, Submitted,
     Behind
<1>12. Locks'
  BY <1>1, <1>2, Constants DEF IInv, Locks, Holding, Waiting, Submitted, Behind
<1>13. ValidAt'
  BY <1>1, <1>2, Constants DEF IInv, ValidAt, Holding, Waiting, Submitted,
     Behind
<1>14. Completed'
  BY <1>1, <1>2, Constants DEF IInv, Completed, Holding, Waiting, Submitted,
     Behind
<1>15. WrittenBack'
  BY <1>1, <1>2, Constants DEF IInv, WrittenBack
<1>16. PanicsOnlyWhenFull'
  BY DEF NoDescriptors, Wake, DescSleepers, PanicsOnlyWhenFull
<1>17. Sleepers'
  <2>1. \E q \in Hand : chain[q] # << >>
    <3>1. free # Desc
      BY Constants DEF NoDescriptors
    <3>2. PICK q \in Hand : Range(chain[q]) # {}
      BY <3>1, Zenon DEF IInv, DescriptorsOwned
    <3>3. Range(<< >>) = {}
      BY DEF Range
    <3> QED
      BY <3>2, <3>3
  <2> QED
    BY <1>1, <1>2, <2>1 DEF IInv, Sleepers
<1> QED
  BY <1>3, <1>4, <1>5, <1>6, <1>7, <1>8, <1>9, <1>10, <1>11, <1>12, <1>13,
     <1>14, <1>15, <1>16, <1>17 DEF IInv

LEMMA BpinModifiedIInv ==
  ASSUME IInv, ~panicked, NEW p \in Hand, BpinModified(p)
  PROVE  IInv'
<1>1. UNCHANGED <<blockno, valid, locked, lru, free, info, avail, used, isr, vdisk_lock, disk, buf, write, chain, panicked>>
  BY DEF BpinModified, Goto, bufVars, devVars, procVars
<1>2. /\ pc[p] = "held" /\ buf[p] \in Buffer /\ blockno[buf[p]] \in Blocks
      /\ \A q \in Hand : q # p /\ pc[q] \in Holding => buf[q] # buf[p]
      /\ valid[buf[p]] /\ buf[p] \in latest
  <2>1. pc[p] = "held"
    BY DEF BpinModified
  <2>2. buf[p] \in Buffer /\ blockno[buf[p]] \in Blocks
    BY <2>1, HasBuffer
  <2>3. pc[p] \in Holding
    BY <2>1 DEF Holding, Behind
  <2> QED
    BY <2>1, <2>2, <2>3, OneHolder DEF IInv, ValidAt, ValidLatest, Behind
<1>3. \A c \in Buffer : blockno[c] = blockno[buf[p]] => c = buf[p]
  <2>1. blockno[buf[p]] # NoBlock
    BY <1>2, Constants
  <2> QED
    BY <1>2, <2>1 DEF IInv, OneBufferPerBlock
<1>4. /\ pc'[p] = "done" /\ pc' \in [Hand -> Labels]
      /\ \A q \in Hand : q # p => pc'[q] = pc[q]
  BY DEF BpinModified, Goto, Labels, Asleep, IInv, ProcTypes
<1>5. /\ latest' = latest \cup {buf[p]} /\ platter' = platter \ {blockno[buf[p]]}
      /\ pinned' = pinned \cup {blockno[buf[p]]}
      /\ refcnt' = [refcnt EXCEPT ![buf[p]] =
                      IF blockno[buf[p]] \in pinned THEN @ ELSE @ + 1]
  BY DEF BpinModified
<1>6. \A q \in Hand : q # p /\ pc[q] \in Holding => blockno[buf[q]] # blockno[buf[p]]
  <2>1. \A q \in Hand : q # p /\ pc[q] \in Holding => blockno[buf[q]] # blockno[buf[p]]
    <3> SUFFICES ASSUME NEW q \in Hand, q # p, pc[q] \in Holding
                 PROVE  blockno[buf[q]] # blockno[buf[p]]
      OBVIOUS
    <3>1. buf[q] \in Buffer /\ buf[q] # buf[p]
      BY <1>2, HasBuffer DEF Holding, Waiting, Submitted, Behind
    <3> QED
      BY <1>3, <3>1
  <2> QED
    BY <2>1
<1>7. BoolTypes' /\ Chains' /\ InFlight'
  BY <1>1 DEF IInv, BoolTypes, Chains, InFlight
<1>8. Owned' /\ UsedOK' /\ IntrToCome'
  BY <1>1 DEF IInv, Owned, UsedOK, IntrToCome
<1>9. OneBufferPerBlock'
  BY <1>1 DEF IInv, OneBufferPerBlock
<1>10. DescriptorsOwned'
  BY <1>1 DEF IInv, DescriptorsOwned
<1>11. BufTypes'
  BY <1>1, <1>2, <1>3, <1>4, <1>5, <1>6, Constants DEF IInv, BufTypes
<1>12. LruOK'
  <2>1. /\ refcnt' \in [Buffer -> Nat]
        /\ \A b \in Buffer : refcnt'[b] = 0 <=> refcnt[b] = 0
    <3>1. refcnt[buf[p]] \in Nat /\ refcnt[buf[p]] > 0
      BY <1>2, HasBuffer
    <3> QED
      BY <1>2, <1>5, <3>1 DEF IInv, LruOK
  <2> QED
    BY <1>1, <2>1 DEF IInv, LruOK
<1>13. DevTypes'
  BY <1>1, <1>2, <1>3, <1>4, <1>5, <1>6, Constants DEF IInv, DevTypes
<1>14. ProcTypes'
  BY <1>1, <1>4 DEF IInv, ProcTypes
<1>15. AtLabels'
  BY <1>1, <1>2, <1>3, <1>4, <1>5, <1>6, Constants DEF IInv, AtLabels, Holding,
     Waiting, Submitted, Behind
<1>16. Locks'
  BY <1>1, <1>2, <1>3, <1>4, <1>5, <1>6, Constants DEF IInv, Locks, Holding,
     Waiting, Submitted, Behind
<1>17. ValidLatest'
  BY <1>1, <1>2, <1>3, <1>4, <1>5, <1>6, Constants DEF IInv, ValidLatest
<1>18. ValidAt'
  BY <1>1, <1>2, <1>3, <1>4, <1>5, <1>6, Constants DEF IInv, ValidAt, Holding,
     Waiting, Submitted, Behind
<1>19. Completed'
  <2>1. \A q \in Hand : pc'[q] \in Submitted => q # p /\ pc[q] \in Submitted /\ pc[q] \in Holding
    BY <1>4 DEF Submitted, Holding
  <2>2. \A q \in Hand : pc[q] \in Submitted /\ info[chain[q][1]].status = "ok" =>
          buf[q] \in latest /\ blockno[buf[q]] \in platter
    BY DEF IInv, Completed
  <2> QED
    BY <1>1, <1>5, <1>6, <2>1, <2>2 DEF Completed
<1>20. WrittenBack'
  <2>1. \A q \in Hand : pc'[q] = "written" => q # p /\ pc[q] = "written" /\ pc[q] \in Holding
    BY <1>4 DEF Holding, Behind
  <2> QED
    BY <1>1, <1>5, <1>6, <2>1 DEF IInv, WrittenBack
<1>21. Unwritten'
  <2> SUFFICES ASSUME NEW k \in Blocks \ platter'
               PROVE  \E b \in Buffer :
                        /\ blockno[b] = k /\ valid[b]
                        /\ k \in pinned' \/ \E q \in Hand : buf[q] = b /\ write[q]
    BY <1>1 DEF Unwritten
  <2>1. CASE k = blockno[buf[p]]
    BY <1>2, <1>5, <2>1
  <2>2. CASE k # blockno[buf[p]]
    BY <1>5, <2>2 DEF IInv, Unwritten
  <2> QED
    BY <2>1, <2>2
<1>22. PinnedCached'
  BY <1>1, <1>2, <1>5, FS_AddElement DEF IInv, PinnedCached
<1>23. References'
  <2> SUFFICES ASSUME NEW b \in Buffer PROVE refcnt'[b] = Cardinality(Users(b)) + Pins(b)'
    BY <1>1 DEF References, Users, Pins
  <2>1. refcnt[b] = Cardinality(Users(b)) + Pins(b) /\ Cardinality(Users(b)) \in Nat
    BY Counts, UsersFinite DEF IInv
  <2>2. CASE b = buf[p]
    <3>1. refcnt'[b] = IF blockno[b] \in pinned THEN refcnt[b] ELSE refcnt[b] + 1
      BY <1>5, <2>2 DEF IInv, LruOK
    <3>2. Pins(b)' = 1
      BY <1>1, <1>5, <2>2 DEF Pins
    <3> QED
      BY <2>1, <3>1, <3>2 DEF Pins
  <2>3. CASE b # buf[p]
    <3>1. refcnt'[b] = refcnt[b]
      BY <1>5, <2>3 DEF IInv, LruOK
    <3>2. Pins(b)' = Pins(b)
      BY <1>1, <1>3, <1>5, <2>3 DEF Pins
    <3> QED
      BY <2>1, <3>1, <3>2
  <2> QED
    BY <2>2, <2>3
<1>24. PanicsOnlyWhenFull'
  BY DEF BpinModified, Goto, PanicsOnlyWhenFull
<1>25. Sleepers'
  BY <1>1, <1>2, <1>3, <1>4, <1>5, <1>6, Constants DEF IInv, Sleepers
<1> QED
  BY <1>7, <1>8, <1>9, <1>10, <1>11, <1>12, <1>13, <1>14, <1>15, <1>16, <1>17,
     <1>18, <1>19, <1>20, <1>21, <1>22, <1>23, <1>24, <1>25 DEF IInv

LEMMA BwriteIInv ==
  ASSUME IInv, ~panicked, NEW p \in Hand, Bwrite(p)
  PROVE  IInv'
<1>1. UNCHANGED <<blockno, valid, refcnt, locked, lru, free, info, avail, used, isr, vdisk_lock, disk, pinned, buf, chain>>
  BY DEF Bwrite, Goto, bufVars, devVars, procVars
<1>2. /\ pc[p] = "held" /\ buf[p] \in Buffer /\ blockno[buf[p]] \in Blocks
      /\ \A q \in Hand : q # p /\ pc[q] \in Holding => buf[q] # buf[p]
      /\ valid[buf[p]] /\ buf[p] \in latest
  <2>1. pc[p] = "held"
    BY DEF Bwrite
  <2>2. buf[p] \in Buffer /\ blockno[buf[p]] \in Blocks
    BY <2>1, HasBuffer
  <2>3. pc[p] \in Holding
    BY <2>1 DEF Holding, Behind
  <2> QED
    BY <2>1, <2>2, <2>3, OneHolder DEF IInv, ValidAt, ValidLatest, Behind
<1>3. \A c \in Buffer : blockno[c] = blockno[buf[p]] => c = buf[p]
  <2>1. blockno[buf[p]] # NoBlock
    BY <1>2, Constants
  <2> QED
    BY <1>2, <2>1 DEF IInv, OneBufferPerBlock
<1>4. /\ pc'[p] = "rw" /\ pc' \in [Hand -> Labels]
      /\ \A q \in Hand : q # p => pc'[q] = pc[q]
  BY DEF Bwrite, Goto, Labels, Asleep, IInv, ProcTypes
<1>5. /\ latest' = latest /\ platter' \in {platter, platter \ {blockno[buf[p]]}}
      /\ write' = [write EXCEPT ![p] = TRUE] /\ panicked' = FALSE
  <2>1. locked[buf[p]] = p
    BY <1>2 DEF IInv, Locks, Holding, Behind
  <2>2. latest \cup {buf[p]} = latest
    BY <1>2
  <2> QED
    BY <2>1, <2>2 DEF Bwrite
<1>6. write'[p] /\ \A q \in Hand : q # p => write'[q] = write[q]
  BY <1>5 DEF IInv, BoolTypes
<1>7. \A q \in Hand : q # p /\ pc[q] \in Holding => blockno[buf[q]] # blockno[buf[p]]
  <2>1. \A q \in Hand : q # p /\ pc[q] \in Holding => blockno[buf[q]] # blockno[buf[p]]
    <3> SUFFICES ASSUME NEW q \in Hand, q # p, pc[q] \in Holding
                 PROVE  blockno[buf[q]] # blockno[buf[p]]
      OBVIOUS
    <3>1. buf[q] \in Buffer /\ buf[q] # buf[p]
      BY <1>2, HasBuffer DEF Holding, Waiting, Submitted, Behind
    <3> QED
      BY <1>3, <3>1
  <2> QED
    BY <2>1
<1>8. LruOK' /\ InFlight' /\ Owned'
  BY <1>1 DEF IInv, LruOK, InFlight, Owned
<1>9. UsedOK' /\ IntrToCome' /\ PinnedCached'
  BY <1>1 DEF IInv, UsedOK, IntrToCome, PinnedCached
<1>10. OneBufferPerBlock'
  BY <1>1 DEF IInv, OneBufferPerBlock
<1>11. References'
  BY <1>1 DEF IInv, References
<1>12. DescriptorsOwned'
  BY <1>1 DEF IInv, DescriptorsOwned
<1>13. BufTypes'
  BY <1>1, <1>5 DEF IInv, BufTypes
<1>14. BoolTypes'
  BY <1>1, <1>5 DEF IInv, BoolTypes
<1>15. DevTypes'
  BY <1>1, <1>5 DEF IInv, DevTypes
<1>16. ProcTypes'
  BY <1>1, <1>4 DEF IInv, ProcTypes
<1>17. AtLabels'
  BY <1>1, <1>2, <1>4, <1>6 DEF IInv, AtLabels, Waiting, Submitted
<1>18. Locks'
  BY <1>1, <1>2, <1>3, <1>4, <1>5, <1>6, <1>7, Constants DEF IInv, Locks,
     Holding, Waiting, Submitted, Behind
<1>19. Chains'
  <2>1. chain[p] = << >>
    BY <1>2 DEF IInv, AtLabels, Submitted
  <2> QED
    BY <1>1, <1>6, <2>1 DEF IInv, Chains
<1>20. ValidLatest'
  BY <1>1, <1>5 DEF IInv, ValidLatest
<1>21. ValidAt'
  BY <1>1, <1>2, <1>4, <1>6 DEF IInv, ValidAt, Waiting, Submitted, Behind
<1>22. Completed'
  <2>1. \A q \in Hand : pc'[q] \in Submitted => q # p /\ pc[q] \in Submitted /\ pc[q] \in Holding
    BY <1>4 DEF Submitted, Holding
  <2>2. \A q \in Hand : pc[q] \in Submitted /\ info[chain[q][1]].status = "ok" =>
          buf[q] \in latest /\ blockno[buf[q]] \in platter
    BY DEF IInv, Completed
  <2> QED
    BY <1>1, <1>5, <1>7, <2>1, <2>2 DEF Completed
<1>23. WrittenBack'
  <2>1. \A q \in Hand : pc'[q] = "written" => q # p /\ pc[q] = "written" /\ pc[q] \in Holding
    BY <1>4 DEF Holding, Behind
  <2> QED
    BY <1>1, <1>5, <1>7, <2>1 DEF IInv, WrittenBack
<1>24. Unwritten'
  <2> SUFFICES ASSUME NEW k \in Blocks \ platter'
               PROVE  \E b \in Buffer :
                        /\ blockno[b] = k /\ valid[b]
                        /\ k \in pinned \/ \E q \in Hand : buf[q] = b /\ write'[q]
    BY <1>1 DEF Unwritten
  <2>1. CASE k = blockno[buf[p]]
    BY <1>2, <1>6, <2>1
  <2>2. CASE k # blockno[buf[p]]
    <3>1. \A q \in Hand : write[q] => write'[q]
      BY <1>6
    <3> QED
      BY <1>5, <2>2, <3>1 DEF IInv, Unwritten
  <2> QED
    BY <2>1, <2>2
<1>25. PanicsOnlyWhenFull'
  BY <1>5 DEF PanicsOnlyWhenFull
<1>26. Sleepers'
  BY <1>1, <1>2, <1>3, <1>4, <1>5, <1>6, <1>7, Constants DEF IInv,
     Sleepers
<1> QED
  BY <1>8, <1>9, <1>10, <1>11, <1>12, <1>13, <1>14, <1>15, <1>16, <1>17, <1>18,
     <1>19, <1>20, <1>21, <1>22, <1>23, <1>24, <1>25, <1>26 DEF IInv

LEMMA BunpinIInv ==
  ASSUME IInv, ~panicked, NEW p \in Hand, Bunpin(p)
  PROVE  IInv'
<1>1. UNCHANGED <<blockno, valid, locked, latest, lru, free, info, avail, used, isr, vdisk_lock, platter, disk, buf, write, chain, panicked>>
  BY DEF Bunpin, Goto, bufVars, devVars, procVars
<1>2. /\ pc[p] = "written" /\ buf[p] \in Buffer /\ blockno[buf[p]] \in Blocks
      /\ \A q \in Hand : q # p /\ pc[q] \in Holding => buf[q] # buf[p]
      /\ valid[buf[p]] /\ buf[p] \in latest
  <2>1. pc[p] = "written"
    BY DEF Bunpin
  <2>2. buf[p] \in Buffer /\ blockno[buf[p]] \in Blocks
    BY <2>1, HasBuffer
  <2>3. pc[p] \in Holding
    BY <2>1 DEF Holding, Behind
  <2> QED
    BY <2>1, <2>2, <2>3, OneHolder DEF IInv, ValidAt, ValidLatest, Behind
<1>3. \A c \in Buffer : blockno[c] = blockno[buf[p]] => c = buf[p]
  <2>1. blockno[buf[p]] # NoBlock
    BY <1>2, Constants
  <2> QED
    BY <1>2, <2>1 DEF IInv, OneBufferPerBlock
<1>4. /\ pc'[p] = "done" /\ pc' \in [Hand -> Labels]
      /\ \A q \in Hand : q # p => pc'[q] = pc[q]
  BY DEF Bunpin, Goto, Labels, Asleep, IInv, ProcTypes
<1>5. /\ pinned' = pinned \ {blockno[buf[p]]}
      /\ refcnt' = [refcnt EXCEPT ![buf[p]] = @ - 1]
  BY DEF Bunpin
<1>6. blockno[buf[p]] \in pinned /\ blockno[buf[p]] \in platter
  BY <1>2 DEF IInv, WrittenBack
<1>7. \A q \in Hand : q # p /\ pc[q] \in Holding => blockno[buf[q]] # blockno[buf[p]]
  <2>1. \A q \in Hand : q # p /\ pc[q] \in Holding => blockno[buf[q]] # blockno[buf[p]]
    <3> SUFFICES ASSUME NEW q \in Hand, q # p, pc[q] \in Holding
                 PROVE  blockno[buf[q]] # blockno[buf[p]]
      OBVIOUS
    <3>1. buf[q] \in Buffer /\ buf[q] # buf[p]
      BY <1>2, HasBuffer DEF Holding, Waiting, Submitted, Behind
    <3> QED
      BY <1>3, <3>1
  <2> QED
    BY <2>1
<1>8. refcnt[buf[p]] \in Nat /\ refcnt[buf[p]] > 1
  <2>1. refcnt[buf[p]] = Cardinality(Users(buf[p])) + 1
    BY <1>2, <1>6, Counts DEF IInv, Pins
  <2>2. Users(buf[p]) # {}
    BY DEF Users
  <2>3. Cardinality(Users(buf[p])) # 0
    BY <2>2, UsersFinite, FS_EmptySet
  <2> QED
    BY <2>1, <2>3, UsersFinite
<1>9. BufTypes' /\ BoolTypes' /\ Chains'
  BY <1>1 DEF IInv, BufTypes, BoolTypes, Chains
<1>10. InFlight' /\ Owned' /\ UsedOK'
  BY <1>1 DEF IInv, InFlight, Owned, UsedOK
<1>11. IntrToCome' /\ ValidLatest' /\ OneBufferPerBlock'
  BY <1>1 DEF IInv, IntrToCome, ValidLatest, OneBufferPerBlock
<1>12. DescriptorsOwned'
  BY <1>1 DEF IInv, DescriptorsOwned
<1>13. LruOK'
  <2>1. /\ refcnt' \in [Buffer -> Nat]
        /\ \A b \in Buffer : refcnt'[b] = 0 <=> refcnt[b] = 0
    BY <1>2, <1>5, <1>8 DEF IInv, LruOK
  <2> QED
    BY <1>1, <2>1 DEF IInv, LruOK
<1>14. DevTypes'
  BY <1>1, <1>2, <1>3, <1>4, <1>5, <1>6, <1>7, <1>8, Constants DEF IInv,
     DevTypes
<1>15. ProcTypes'
  BY <1>1, <1>4 DEF IInv, ProcTypes
<1>16. AtLabels'
  BY <1>1, <1>2, <1>3, <1>4, <1>5, <1>6, <1>7, <1>8, Constants DEF IInv,
     AtLabels, Holding, Waiting, Submitted, Behind
<1>17. Locks'
  BY <1>1, <1>2, <1>3, <1>4, <1>5, <1>6, <1>7, <1>8, Constants DEF IInv, Locks,
     Holding, Waiting, Submitted, Behind
<1>18. ValidAt'
  BY <1>1, <1>2, <1>3, <1>4, <1>5, <1>6, <1>7, <1>8, Constants DEF IInv,
     ValidAt, Holding, Waiting, Submitted, Behind
<1>19. Completed'
  BY <1>1, <1>2, <1>3, <1>4, <1>5, <1>6, <1>7, <1>8, Constants DEF IInv,
     Completed, Holding, Waiting, Submitted, Behind
<1>20. WrittenBack'
  <2>1. \A q \in Hand : pc'[q] = "written" => q # p /\ pc[q] = "written" /\ pc[q] \in Holding
    BY <1>4 DEF Holding, Behind
  <2> QED
    BY <1>1, <1>5, <1>7, <2>1 DEF IInv, WrittenBack
<1>21. Unwritten'
  <2>1. \A k \in Blocks \ platter : k \in pinned => k \in pinned'
    BY <1>5, <1>6
  <2> QED
    BY <1>1, <2>1 DEF IInv, Unwritten
<1>22. PinnedCached'
  BY <1>1, <1>5, FS_RemoveElement DEF IInv, PinnedCached
<1>23. References'
  <2> SUFFICES ASSUME NEW b \in Buffer PROVE refcnt'[b] = Cardinality(Users(b)) + Pins(b)'
    BY <1>1 DEF References, Users, Pins
  <2>1. refcnt[b] = Cardinality(Users(b)) + Pins(b) /\ Cardinality(Users(b)) \in Nat
    BY Counts, UsersFinite DEF IInv
  <2>2. CASE b = buf[p]
    <3>1. refcnt'[b] = refcnt[b] - 1
      BY <1>5, <2>2 DEF IInv, LruOK
    <3>2. Pins(b) = 1 /\ Pins(b)' = 0
      BY <1>1, <1>5, <1>6, <2>2 DEF Pins
    <3> QED
      BY <2>1, <3>1, <3>2
  <2>3. CASE b # buf[p]
    <3>1. refcnt'[b] = refcnt[b]
      BY <1>5, <2>3 DEF IInv, LruOK
    <3>2. Pins(b)' = Pins(b)
      BY <1>1, <1>3, <1>5, <2>3 DEF Pins
    <3> QED
      BY <2>1, <3>1, <3>2
  <2> QED
    BY <2>2, <2>3
<1>24. PanicsOnlyWhenFull'
  BY DEF Bunpin, Goto, PanicsOnlyWhenFull
<1>25. Sleepers'
  BY <1>1, <1>2, <1>3, <1>4, <1>5, <1>6, <1>7, <1>8, Constants DEF IInv,
     Sleepers
<1> QED
  BY <1>9, <1>10, <1>11, <1>12, <1>13, <1>14, <1>15, <1>16, <1>17, <1>18,
     <1>19, <1>20, <1>21, <1>22, <1>23, <1>24, <1>25 DEF IInv

LEMMA BrelseDerefIInv ==
  ASSUME IInv, ~panicked, NEW p \in Hand, BrelseDeref(p)
  PROVE  IInv'
<1>1. UNCHANGED <<blockno, valid, locked, latest, free, info, avail, used, isr, vdisk_lock, platter, disk, pinned, write, chain, panicked>>
  BY DEF BrelseDeref, Goto, bufVars, devVars, procVars
<1>2. /\ pc[p] = "deref" /\ buf[p] \in Buffer /\ refcnt[buf[p]] \in Nat
      /\ refcnt[buf[p]] > 0
  BY HasBuffer DEF BrelseDeref
<1>3. chain[p] = << >> /\ ~write[p] /\ pc[p] \notin Holding /\ pc[p] \notin {"written", "lock_sleep", "desc_sleep", "rw_sleep"}
  BY <1>2 DEF IInv, AtLabels, Holding, Waiting, Submitted, Behind
<1>4. /\ pc'[p] = "idle" /\ pc' \in [Hand -> Labels]
      /\ \A q \in Hand : q # p => pc'[q] = pc[q]
  BY DEF BrelseDeref, Goto, Labels, Asleep, IInv, ProcTypes
<1>5. /\ buf'[p] = None /\ buf' \in [Hand -> Buffer \cup {None}]
      /\ \A q \in Hand : q # p => buf'[q] = buf[q]
  BY DEF BrelseDeref, IInv, ProcTypes
<1>6. /\ refcnt' = [refcnt EXCEPT ![buf[p]] = @ - 1]
      /\ lru' = IF refcnt[buf[p]] = 1 THEN <<buf[p]>> \o lru ELSE lru
  BY DEF BrelseDeref
<1>7. /\ refcnt' \in [Buffer -> Nat] /\ refcnt'[buf[p]] = refcnt[buf[p]] - 1
      /\ \A b \in Buffer : b # buf[p] => refcnt'[b] = refcnt[b]
  BY <1>2, <1>6 DEF IInv, LruOK
<1>8. BufTypes' /\ BoolTypes' /\ DevTypes'
  BY <1>1 DEF IInv, BufTypes, BoolTypes, DevTypes
<1>9. Owned' /\ UsedOK' /\ IntrToCome'
  BY <1>1 DEF IInv, Owned, UsedOK, IntrToCome
<1>10. ValidLatest' /\ PinnedCached' /\ OneBufferPerBlock'
  BY <1>1 DEF IInv, ValidLatest, PinnedCached, OneBufferPerBlock
<1>11. DescriptorsOwned'
  BY <1>1 DEF IInv, DescriptorsOwned
<1>12. LruOK'
  <2>1. CASE refcnt[buf[p]] = 1
    <3>1. buf[p] \notin Range(lru)
      BY <2>1 DEF IInv, LruOK
    <3>2. /\ lru' \in Seq(Buffer) /\ IsInjective(lru')
          /\ Range(lru') = Range(lru) \cup {buf[p]}
      BY <1>2, <1>6, <2>1, <3>1, Prepended DEF IInv, LruOK
    <3>3. {b \in Buffer : refcnt'[b] = 0} = {b \in Buffer : refcnt[b] = 0} \cup {buf[p]}
      BY <1>2, <1>7, <2>1
    <3> QED
      BY <1>7, <3>2, <3>3 DEF IInv, LruOK
  <2>2. CASE refcnt[buf[p]] # 1
    <3>1. \A b \in Buffer : refcnt'[b] = 0 <=> refcnt[b] = 0
      BY <1>2, <1>7, <2>2
    <3> QED
      BY <1>6, <1>7, <2>2, <3>1 DEF IInv, LruOK
  <2> QED
    BY <2>1, <2>2
<1>13. ProcTypes'
  BY <1>1, <1>4, <1>5 DEF IInv, ProcTypes
<1>14. AtLabels'
  BY <1>1, <1>4, <1>5, <1>3, Constants DEF IInv, AtLabels, Waiting, Submitted
<1>15. Locks'
  <2>1. pc'[p] \notin Holding
    BY <1>4 DEF Holding, Waiting, Submitted, Behind
  <2> QED
    BY <1>1, <1>4, <1>5, <1>3, <2>1 DEF IInv, Locks
<1>16. Chains'
  BY <1>1, <1>5, <1>3 DEF IInv, Chains
<1>17. InFlight'
  BY <1>1, <1>5, <1>3 DEF IInv, InFlight
<1>18. ValidAt'
  BY <1>1, <1>4, <1>5 DEF IInv, ValidAt, Waiting, Submitted, Behind
<1>19. Completed'
  BY <1>1, <1>4, <1>5 DEF IInv, Completed, Submitted
<1>20. WrittenBack'
  BY <1>1, <1>4, <1>5 DEF IInv, WrittenBack
<1>21. Unwritten'
  <2>1. \A q \in Hand : write[q] => buf'[q] = buf[q]
    BY <1>5, <1>3
  <2> QED
    BY <1>1, <2>1 DEF IInv, Unwritten
<1>22. References'
  <2> SUFFICES ASSUME NEW b \in Buffer PROVE refcnt'[b] = Cardinality(Users(b)') + Pins(b)
    BY <1>1 DEF References, Users, Pins
  <2>1. refcnt[b] = Cardinality(Users(b)) + Pins(b) /\ Cardinality(Users(b)) \in Nat
    BY Counts, UsersFinite DEF IInv
  <2>2. CASE b = buf[p]
    <3>1. Users(b)' = Users(b) \ {p} /\ p \in Users(b)
      BY <1>5, <2>2, Constants DEF Users
    <3>2. Cardinality(Users(b)') = Cardinality(Users(b)) - 1
      BY <3>1, UsersFinite, FS_RemoveElement
    <3> QED
      BY <1>7, <2>1, <2>2, <3>2 DEF Pins
  <2>3. CASE b # buf[p]
    <3>1. Users(b)' = Users(b)
      BY <1>5, <2>3, Constants DEF Users
    <3> QED
      BY <1>7, <2>1, <2>3, <3>1
  <2> QED
    BY <2>2, <2>3
<1>23. PanicsOnlyWhenFull'
  BY DEF BrelseDeref, Goto, PanicsOnlyWhenFull
<1>24. Sleepers'
  BY <1>1, <1>4, <1>5 DEF IInv, Sleepers
<1> QED
  BY <1>8, <1>9, <1>10, <1>11, <1>12, <1>13, <1>14, <1>15, <1>16, <1>17, <1>18,
     <1>19, <1>20, <1>21, <1>22, <1>23, <1>24 DEF IInv

LEMMA BgetHitIInv ==
  ASSUME IInv, ~panicked, NEW p \in Hand, NEW k \in Blocks, BgetHit(p, k)
  PROVE  IInv'
<1>1. UNCHANGED <<blockno, valid, locked, latest, free, info, avail, used, isr, vdisk_lock, platter, disk, pinned, write, chain, panicked>>
  BY DEF BgetHit, Goto, Without, Cached, bufVars, devVars, procVars
<1>2. PICK b \in Buffer :
        /\ blockno[b] = k /\ refcnt' = [refcnt EXCEPT ![b] = @ + 1]
        /\ lru' = RemoveFirst(lru, b) /\ buf' = [buf EXCEPT ![p] = b]
  BY DEF BgetHit, Cached, Without
<1>3. pc[p] = "idle" /\ buf[p] = None
  BY DEF BgetHit, MayBget, IInv, AtLabels
<1>4. chain[p] = << >> /\ ~write[p] /\ pc[p] \notin Holding /\ pc[p] \notin {"written", "lock_sleep", "desc_sleep", "rw_sleep"}
  BY <1>3 DEF IInv, AtLabels, Holding, Waiting, Submitted, Behind
<1>5. /\ pc'[p] = "lock" /\ pc' \in [Hand -> Labels]
      /\ \A q \in Hand : q # p => pc'[q] = pc[q]
  BY DEF BgetHit, Goto, Labels, Asleep, IInv, ProcTypes
<1>6. /\ buf'[p] = b /\ buf' \in [Hand -> Buffer \cup {None}]
      /\ \A q \in Hand : q # p => buf'[q] = buf[q]
  BY <1>2 DEF IInv, ProcTypes
<1>7. /\ refcnt' \in [Buffer -> Nat] /\ refcnt[b] \in Nat /\ refcnt'[b] = refcnt[b] + 1
      /\ \A c \in Buffer : c # b => refcnt'[c] = refcnt[c]
  BY <1>2 DEF IInv, LruOK
<1>8. BufTypes' /\ BoolTypes' /\ DevTypes'
  BY <1>1 DEF IInv, BufTypes, BoolTypes, DevTypes
<1>9. Owned' /\ UsedOK' /\ IntrToCome'
  BY <1>1 DEF IInv, Owned, UsedOK, IntrToCome
<1>10. ValidLatest' /\ PinnedCached' /\ OneBufferPerBlock'
  BY <1>1 DEF IInv, ValidLatest, PinnedCached, OneBufferPerBlock
<1>11. DescriptorsOwned'
  BY <1>1 DEF IInv, DescriptorsOwned
<1>12. LruOK'
  <2>1. /\ lru' \in Seq(Buffer) /\ IsInjective(lru')
        /\ Range(lru') = Range(lru) \ {b}
    BY <1>2, Removed DEF IInv, LruOK
  <2>2. {c \in Buffer : refcnt'[c] = 0} = {c \in Buffer : refcnt[c] = 0} \ {b}
    BY <1>7
  <2> QED
    BY <1>7, <2>1, <2>2 DEF IInv, LruOK
<1>13. ProcTypes'
  BY <1>1, <1>5, <1>6 DEF IInv, ProcTypes
<1>14. AtLabels'
  BY <1>1, <1>2, <1>5, <1>6, <1>4, Constants DEF IInv, AtLabels, Waiting,
     Submitted
<1>15. Locks'
  <2>1. pc'[p] \notin Holding
    BY <1>5 DEF Holding, Waiting, Submitted, Behind
  <2> QED
    BY <1>1, <1>5, <1>6, <1>4, <2>1 DEF IInv, Locks
<1>16. Chains'
  BY <1>1, <1>6, <1>4 DEF IInv, Chains
<1>17. InFlight'
  BY <1>1, <1>6, <1>4 DEF IInv, InFlight
<1>18. ValidAt'
  BY <1>1, <1>5, <1>6 DEF IInv, ValidAt, Waiting, Submitted, Behind
<1>19. Completed'
  BY <1>1, <1>5, <1>6 DEF IInv, Completed, Submitted
<1>20. WrittenBack'
  BY <1>1, <1>5, <1>6 DEF IInv, WrittenBack
<1>21. Unwritten'
  <2>1. \A q \in Hand : write[q] => buf'[q] = buf[q]
    BY <1>6, <1>4
  <2> QED
    BY <1>1, <2>1 DEF IInv, Unwritten
<1>22. References'
  <2> SUFFICES ASSUME NEW c \in Buffer PROVE refcnt'[c] = Cardinality(Users(c)') + Pins(c)
    BY <1>1 DEF References, Users, Pins
  <2>1. refcnt[c] = Cardinality(Users(c)) + Pins(c) /\ Cardinality(Users(c)) \in Nat
    BY Counts, UsersFinite DEF IInv
  <2>2. CASE c = b
    <3>1. Users(c)' = Users(c) \cup {p} /\ p \notin Users(c)
      BY <1>3, <1>6, <2>2, Constants DEF Users
    <3>2. Cardinality(Users(c)') = Cardinality(Users(c)) + 1
      BY <3>1, UsersFinite, FS_AddElement
    <3> QED
      BY <1>7, <2>1, <2>2, <3>2 DEF Pins
  <2>3. CASE c # b
    <3>1. Users(c)' = Users(c)
      BY <1>3, <1>6, <2>3, Constants DEF Users
    <3> QED
      BY <1>7, <2>1, <2>3, <3>1
  <2> QED
    BY <2>2, <2>3
<1>23. PanicsOnlyWhenFull'
  BY DEF BgetHit, Goto, Without, Cached, PanicsOnlyWhenFull
<1>24. Sleepers'
  BY <1>1, <1>5, <1>6 DEF IInv, Sleepers
<1> QED
  BY <1>8, <1>9, <1>10, <1>11, <1>12, <1>13, <1>14, <1>15, <1>16, <1>17, <1>18,
     <1>19, <1>20, <1>21, <1>22, <1>23, <1>24 DEF IInv

LEMMA BgetMissIInv ==
  ASSUME IInv, ~panicked, NEW p \in Hand, NEW k \in Blocks, BgetMiss(p, k)
  PROVE  IInv'
<1>1. UNCHANGED <<locked, free, info, avail, used, isr, vdisk_lock, platter, disk, pinned, write, chain, panicked>>
  BY DEF BgetMiss, Goto, Without, Cached, bufVars, devVars, procVars
<1>2. PICK b \in Buffer :
        /\ refcnt[b] = 0
        /\ blockno' = [blockno EXCEPT ![b] = k] /\ valid' = [valid EXCEPT ![b] = FALSE]
        /\ refcnt' = [refcnt EXCEPT ![b] = 1] /\ latest' = latest \ {b}
        /\ lru' = RemoveFirst(lru, b) /\ buf' = [buf EXCEPT ![p] = b]
  <2>1. Last(lru) \in Range(lru)
    <3>1. Len(lru) \in DOMAIN lru
      BY DEF BgetMiss, IInv, LruOK
    <3> QED
      BY <3>1 DEF Last, Range
  <2>2. Last(lru) \in Buffer /\ refcnt[Last(lru)] = 0
    BY <2>1 DEF IInv, LruOK
  <2> QED
    BY <2>2 DEF BgetMiss, Without
<1>3. pc[p] = "idle" /\ buf[p] = None
  BY DEF BgetMiss, MayBget, IInv, AtLabels
<1>4. (\A q \in Hand : buf[q] # b) /\ blockno[b] \notin pinned
  BY <1>2, UnusedBuffer
<1>5. /\ \A c \in Buffer : blockno[c] # k
      /\ k \notin pinned
  BY DEF BgetMiss, Cached, IInv, PinnedCached
<1>6. chain[p] = << >> /\ ~write[p] /\ pc[p] \notin Holding /\ pc[p] \notin {"written", "lock_sleep", "desc_sleep", "rw_sleep"}
  BY <1>3 DEF IInv, AtLabels, Holding, Waiting, Submitted, Behind
<1>7. /\ pc'[p] = "lock" /\ pc' \in [Hand -> Labels]
      /\ \A q \in Hand : q # p => pc'[q] = pc[q]
  BY DEF BgetMiss, Goto, Labels, Asleep, IInv, ProcTypes
<1>8. /\ buf'[p] = b /\ buf' \in [Hand -> Buffer \cup {None}]
      /\ \A q \in Hand : q # p => buf'[q] = buf[q]
  BY <1>2 DEF IInv, ProcTypes
<1>9. /\ refcnt' \in [Buffer -> Nat] /\ refcnt'[b] = 1
      /\ \A c \in Buffer : c # b => refcnt'[c] = refcnt[c]
  BY <1>2 DEF IInv, LruOK
<1>10. /\ blockno'[b] = k
      /\ \A c \in Buffer : c # b => blockno'[c] = blockno[c]
  BY <1>2 DEF IInv, BufTypes
<1>11. /\ ~valid'[b]
      /\ \A c \in Buffer : c # b => valid'[c] = valid[c]
  BY <1>2 DEF IInv, BoolTypes
<1>12. \A q \in Hand : q # p /\ pc[q] # "idle" => buf[q] \in Buffer /\ buf[q] # b
  BY <1>4, HasBuffer
<1>13. DevTypes' /\ Owned' /\ UsedOK'
  BY <1>1 DEF IInv, DevTypes, Owned, UsedOK
<1>14. IntrToCome'
  BY <1>1 DEF IInv, IntrToCome
<1>15. DescriptorsOwned'
  BY <1>1 DEF IInv, DescriptorsOwned
<1>16. BufTypes'
  BY <1>1, <1>2 DEF IInv, BufTypes
<1>17. BoolTypes'
  BY <1>1, <1>2, Zenon DEF IInv, BoolTypes
<1>18. LruOK'
  <2>1. /\ lru' \in Seq(Buffer) /\ IsInjective(lru')
        /\ Range(lru') = Range(lru) \ {b}
    BY <1>2, Removed DEF IInv, LruOK
  <2>2. {c \in Buffer : refcnt'[c] = 0} = {c \in Buffer : refcnt[c] = 0} \ {b}
    BY <1>9
  <2> QED
    BY <1>9, <2>1, <2>2 DEF IInv, LruOK
<1>19. ProcTypes'
  BY <1>1, <1>7, <1>8 DEF IInv, ProcTypes
<1>20. AtLabels'
  <2>1. \A q \in Hand : q # p /\ buf[q] # None => buf[q] \in Buffer /\ buf[q] # b
    BY <1>4 DEF IInv, ProcTypes
  <2> QED
    BY <1>1, <1>2, <1>7, <1>8, <1>6, <1>10, <2>1, Constants DEF IInv, AtLabels,
       Waiting, Submitted
<1>21. Locks'
  <2>1. pc'[p] \notin Holding
    BY <1>7 DEF Holding, Waiting, Submitted, Behind
  <2> QED
    BY <1>1, <1>7, <1>8, <1>6, <2>1 DEF IInv, Locks
<1>22. Chains'
  BY <1>1, <1>8, <1>6 DEF IInv, Chains
<1>23. InFlight'
  BY <1>1, <1>8, <1>6 DEF IInv, InFlight
<1>24. ValidLatest'
  BY <1>2, <1>11 DEF IInv, ValidLatest
<1>25. ValidAt'
  <2>1. pc'[p] \notin Waiting \cup Submitted \cup Behind
    BY <1>7 DEF Waiting, Submitted, Behind
  <2>2. \A q \in Hand : q # p /\ pc[q] \in Waiting \cup Submitted \cup Behind =>
          valid'[buf[q]] = valid[buf[q]]
    BY <1>12, <1>11 DEF Waiting, Submitted, Behind
  <2> QED
    BY <1>1, <1>7, <1>8, <2>1, <2>2 DEF IInv, ValidAt
<1>26. Completed'
  <2>1. pc'[p] \notin Submitted
    BY <1>7 DEF Submitted
  <2>2. \A q \in Hand : q # p /\ pc[q] \in Submitted =>
          blockno'[buf[q]] = blockno[buf[q]] /\ buf[q] # b
    BY <1>12, <1>10 DEF Submitted
  <2> QED
    BY <1>1, <1>2, <1>7, <1>8, <2>1, <2>2 DEF IInv, Completed
<1>27. WrittenBack'
  <2>1. \A q \in Hand : q # p /\ pc[q] = "written" => blockno'[buf[q]] = blockno[buf[q]]
    BY <1>12, <1>10
  <2> QED
    BY <1>1, <1>7, <1>8, <2>1 DEF IInv, WrittenBack
<1>28. Unwritten'
  <2> SUFFICES ASSUME NEW m \in Blocks \ platter
               PROVE  \E c \in Buffer :
                        /\ blockno'[c] = m /\ valid'[c]
                        /\ m \in pinned \/ \E q \in Hand : buf'[q] = c /\ write[q]
    BY <1>1 DEF Unwritten
  <2>1. PICK c \in Buffer :
          /\ blockno[c] = m /\ valid[c]
          /\ m \in pinned \/ \E q \in Hand : buf[q] = c /\ write[q]
    BY DEF IInv, Unwritten
  <2>2. c # b
    BY <1>4, <2>1
  <2>3. \A q \in Hand : write[q] => buf'[q] = buf[q]
    BY <1>8, <1>6
  <2> QED
    BY <1>10, <1>11, <2>1, <2>2, <2>3
<1>29. PinnedCached'
  BY <1>1, <1>4, <1>10 DEF IInv, PinnedCached
<1>30. OneBufferPerBlock'
  BY <1>1, <1>5, <1>10 DEF IInv, OneBufferPerBlock
<1>31. References'
  <2> SUFFICES ASSUME NEW c \in Buffer PROVE refcnt'[c] = Cardinality(Users(c)') + Pins(c)'
    BY <1>1 DEF References, Users, Pins
  <2>1. CASE c = b
    <3>1. Users(c)' = {p}
      BY <1>4, <1>8, <2>1 DEF Users
    <3>2. Cardinality(Users(c)') = 1
      BY <3>1, FS_Singleton
    <3>3. Pins(c)' = 0
      BY <1>1, <1>5, <1>10, <2>1 DEF Pins
    <3> QED
      BY <1>9, <2>1, <3>2, <3>3
  <2>2. CASE c # b
    <3>1. Users(c)' = Users(c) /\ Pins(c)' = Pins(c)
      BY <1>1, <1>3, <1>8, <1>10, <2>2, Constants DEF Users, Pins
    <3>2. refcnt[c] = Cardinality(Users(c)) + Pins(c)
      BY Counts DEF IInv
    <3> QED
      BY <1>9, <2>2, <3>1, <3>2
  <2> QED
    BY <2>1, <2>2
<1>32. PanicsOnlyWhenFull'
  BY DEF BgetMiss, Goto, Without, Cached, PanicsOnlyWhenFull
<1>33. Sleepers'
  BY <1>1, <1>7, <1>8 DEF IInv, Sleepers
<1> QED
  BY <1>13, <1>14, <1>15, <1>16, <1>17, <1>18, <1>19, <1>20, <1>21, <1>22,
     <1>23, <1>24, <1>25, <1>26, <1>27, <1>28, <1>29, <1>30, <1>31, <1>32,
     <1>33 DEF IInv

LEMMA BgetPanicIInv ==
  ASSUME IInv, ~panicked, NEW p \in Hand, NEW k \in Blocks, BgetPanic(p, k)
  PROVE  IInv'
<1>1. UNCHANGED <<blockno, valid, refcnt, locked, latest, lru, free, info, avail, used, isr, vdisk_lock, platter, disk, pinned, pc, buf, write, chain>>
  BY DEF BgetPanic, Cached, bufVars, devVars, procVars
<1>2. panicked' = TRUE
  BY DEF BgetPanic
<1>3. pc[p] = "idle" /\ lru = << >> /\ buf[p] \notin Buffer
  BY Constants DEF BgetPanic, MayBget, IInv, AtLabels
<1>4. \A b \in Buffer : blockno[b] \in pinned \/ \E q \in Hand : buf[q] = b
  <2> SUFFICES ASSUME NEW b \in Buffer, blockno[b] \notin pinned PROVE \E q \in Hand : buf[q] = b
    OBVIOUS
  <2>1. Range(lru) = {}
    BY <1>3 DEF Range
  <2>2. refcnt[b] # 0
    BY <2>1 DEF IInv, LruOK
  <2>3. refcnt[b] = Cardinality(Users(b)) + 0
    BY Counts DEF IInv, Pins
  <2>4. Cardinality(Users(b)) # 0
    BY <2>2, <2>3, UsersFinite
  <2>5. Users(b) # {}
    BY <2>4, FS_EmptySet
  <2> QED
    BY <2>5 DEF Users
<1>5. NBUF < Cardinality(pinned) + Cardinality(Hand)
  <2> DEFINE B1 == {b \in Buffer : blockno[b] \in pinned}
             B2 == {b \in Buffer : \E q \in Hand : buf[q] = b}
             Q == {q \in Hand : buf[q] \in Buffer}
             f == [b \in B1 |-> blockno[b]]
             g == [q \in Q |-> buf[q]]
  <2>1. IsFiniteSet(B1) /\ IsFiniteSet(B2)
    BY Constants, FS_Subset
  <2>2. Cardinality(B1) <= Cardinality(pinned) /\ Cardinality(pinned) \in Nat
    <3>1. \A b, c \in B1 : blockno[b] = blockno[c] => b = c
      BY Constants DEF IInv, OneBufferPerBlock, DevTypes
    <3>2. f \in Injection(B1, pinned)
      BY <3>1 DEF Injection, IsInjective
    <3>3. IsFiniteSet(pinned)
      BY DEF IInv, PinnedCached
    <3> HIDE DEF f, B1
    <3> QED
      BY <3>2, <3>3, FS_Injection, FS_CardinalityType
  <2>3. IsFiniteSet(Q) /\ Cardinality(Q) < Cardinality(Hand) /\ Cardinality(Q) \in Nat
    <3>1. Q \in SUBSET Hand /\ Q # Hand
      BY <1>3
    <3> HIDE DEF Q
    <3>2. IsFiniteSet(Q) /\ Cardinality(Q) <= Cardinality(Hand) /\ Cardinality(Hand) # Cardinality(Q)
      BY <3>1, Constants, FS_Subset
    <3>3. Cardinality(Q) \in Nat
      BY <3>2, FS_CardinalityType
    <3> QED
      BY <3>2, <3>3, Constants
  <2>4. Cardinality(B2) <= Cardinality(Q)
    <3>1. g \in Surjection(Q, B2)
      BY DEF Surjection
    <3> HIDE DEF g, Q, B2
    <3> QED
      BY <2>3, <3>1, FS_Surjection
  <2>5. Buffer = B1 \cup B2
    BY <1>4
  <2> HIDE DEF B1, B2, Q
  <2>6. NBUF = Cardinality(B1) + Cardinality(B2) - Cardinality(B1 \cap B2)
    BY <2>1, <2>5, Constants, FS_Union
  <2>7. /\ Cardinality(B1) \in Nat /\ Cardinality(B2) \in Nat
        /\ Cardinality(B1 \cap B2) \in Nat
    BY <2>1, FS_CardinalityType, FS_Intersection
  <2> QED
    BY <2>2, <2>3, <2>4, <2>6, <2>7, Constants
<1>6. BufTypes' /\ LruOK' /\ DevTypes'
  BY <1>1 DEF IInv, BufTypes, LruOK, DevTypes
<1>7. ProcTypes' /\ AtLabels' /\ Locks'
  BY <1>1 DEF IInv, ProcTypes, AtLabels, Locks
<1>8. Chains' /\ InFlight' /\ Owned'
  BY <1>1 DEF IInv, Chains, InFlight, Owned
<1>9. UsedOK' /\ IntrToCome' /\ ValidLatest'
  BY <1>1 DEF IInv, UsedOK, IntrToCome, ValidLatest
<1>10. ValidAt' /\ Completed' /\ WrittenBack'
  BY <1>1 DEF IInv, ValidAt, Completed, WrittenBack
<1>11. Unwritten' /\ PinnedCached' /\ OneBufferPerBlock'
  BY <1>1 DEF IInv, Unwritten, PinnedCached, OneBufferPerBlock
<1>12. References'
  BY <1>1 DEF IInv, References
<1>13. DescriptorsOwned'
  BY <1>1 DEF IInv, DescriptorsOwned
<1>14. Sleepers'
  BY <1>1 DEF IInv, Sleepers
<1>15. BoolTypes'
  BY <1>1, <1>2 DEF IInv, BoolTypes
<1>16. PanicsOnlyWhenFull'
  <2>1. DOMAIN buf = Hand
    BY DEF IInv, ProcTypes
  <2>2. NBUF < Cardinality(pinned) + 2 * Cardinality(Procs)
    BY <1>5, Constants
  <2> QED
    BY <1>1, <1>4, <2>1, <2>2 DEF PanicsOnlyWhenFull, Range
<1> QED
  BY <1>6, <1>7, <1>8, <1>9, <1>10, <1>11, <1>12, <1>13, <1>14, <1>15, <1>16
     DEF IInv

LEMMA StartRequestIInv ==
  ASSUME IInv, ~panicked, NEW p \in Hand, StartRequest(p)
  PROVE  IInv'
<1>1. UNCHANGED <<blockno, valid, refcnt, locked, latest, lru, used, isr, vdisk_lock, platter, pinned, buf, write, panicked>>
  BY DEF StartRequest, Goto, bufVars, devVars, procVars
<1>2. PICK idx \in Seq(Desc) :
        /\ idx # << >> /\ idx[1] \in Range(idx) /\ idx[1] \in free
        /\ idx[1] \in Desc /\ Range(idx) \subseteq free
        /\ free' = free \ Range(idx) /\ chain' = [chain EXCEPT ![p] = idx]
        /\ info' = [d \in DOMAIN info \cup {idx[1]} |->
                      IF d = idx[1]
                      THEN [b |-> buf[p], write |-> write[p], status |-> "pending"]
                      ELSE info[d]]
        /\ avail' = avail \cup {idx[1]}
  <2>1. free \subseteq Desc
    BY DEF IInv, DevTypes
  <2> QED
    BY <2>1, Allocated DEF StartRequest
<1>3. /\ pc[p] = "rw" /\ buf[p] \in Buffer /\ chain[p] = << >>
      /\ \A q \in Hand : chain[q] # << >> => q # p /\ buf[q] \in Buffer /\ buf[q] # buf[p]
  <2>1. pc[p] = "rw" /\ buf[p] \in Buffer
    BY HasBuffer DEF StartRequest
  <2>2. chain[p] = << >>
    BY <2>1 DEF IInv, AtLabels, Submitted
  <2>3. \A q \in Hand : chain[q] # << >> => pc[q] \in Holding /\ pc[q] # "idle"
    BY DEF IInv, AtLabels, Holding, Submitted
  <2>4. pc[p] \in Holding
    BY <2>1 DEF Holding, Waiting
  <2> QED
    BY <2>1, <2>2, <2>3, <2>4, OneHolder, HasBuffer
<1>4. /\ pc'[p] = "rw_sleep" /\ pc' \in [Hand -> Labels]
      /\ \A q \in Hand : q # p => pc'[q] = pc[q]
  BY DEF StartRequest, Goto, Labels, Asleep, IInv, ProcTypes
<1>5. chain'[p] = idx /\ \A q \in Hand : q # p => chain'[q] = chain[q]
  BY <1>2 DEF IInv, ProcTypes
<1>6. /\ disk' \in [Buffer -> BOOLEAN] /\ disk'[buf[p]]
      /\ \A c \in Buffer : c # buf[p] => disk'[c] = disk[c]
  BY <1>3 DEF StartRequest, IInv, BoolTypes
<1>7. \A q \in Hand : chain[q] # << >> => chain[q][1] # idx[1] /\ chain[q][1] \in DOMAIN info
  BY <1>2 DEF IInv, Chains, DescriptorsOwned
<1>8. /\ DOMAIN info' = DOMAIN info \cup {idx[1]}
      /\ info'[idx[1]] = [b |-> buf[p], write |-> write[p], status |-> "pending"]
      /\ \A d \in DOMAIN info : d # idx[1] => info'[d] = info[d]
  BY <1>2
<1>9. idx[1] \notin avail /\ idx[1] \notin Range(used)
  BY <1>7 DEF IInv, Owned
<1>10. BufTypes' /\ LruOK' /\ IntrToCome'
  BY <1>1 DEF IInv, BufTypes, LruOK, IntrToCome
<1>11. ValidLatest' /\ Unwritten' /\ PinnedCached'
  BY <1>1 DEF IInv, ValidLatest, Unwritten, PinnedCached
<1>12. OneBufferPerBlock'
  BY <1>1 DEF IInv, OneBufferPerBlock
<1>13. References'
  BY <1>1 DEF IInv, References
<1>14. BoolTypes'
  BY <1>1, <1>6 DEF IInv, BoolTypes
<1>15. DevTypes'
  <2>1. info'[idx[1]] \in Request
    <3>1. write[p] \in BOOLEAN
      BY DEF IInv, BoolTypes
    <3> QED
      BY <1>3, <1>8, <3>1 DEF Request
  <2>2. \A d \in DOMAIN info' : d \in Desc /\ info'[d] \in Request
    BY <1>2, <1>8, <2>1 DEF IInv, DevTypes
  <2>3. info' = [d \in DOMAIN info' |-> info'[d]]
    BY <1>2
  <2>4. info' \in [DOMAIN info' -> Request] /\ DOMAIN info' \subseteq Desc
    BY <2>2, <2>3
  <2> QED
    BY <1>1, <1>2, <2>4 DEF IInv, DevTypes
<1>16. ProcTypes'
  BY <1>1, <1>2, <1>4 DEF IInv, ProcTypes
<1>17. AtLabels'
  BY <1>1, <1>2, <1>3, <1>4, <1>5 DEF IInv, AtLabels, Waiting, Submitted
<1>18. Locks'
  <2>1. \A q \in Hand : pc'[q] \in Holding <=> pc[q] \in Holding
    BY <1>3, <1>4 DEF Holding, Waiting, Submitted, Behind
  <2> QED
    BY <1>1, <2>1 DEF IInv, Locks
<1>19. Chains'
  <2>1. info'[idx[1]].b = buf[p] /\ (info'[idx[1]].write <=> write[p])
    BY <1>8
  <2> QED
    BY <1>1, <1>2, <1>5, <1>7, <1>8, <2>1 DEF IInv, Chains
<1>20. InFlight'
  <2> SUFFICES ASSUME NEW q \in Hand, chain'[q] # << >>
               PROVE  /\ chain'[q][1] \in avail' <=> info'[chain'[q][1]].status # "ok"
                      /\ disk'[buf[q]] <=> chain'[q][1] \in avail' \cup Range(used)
    BY <1>1 DEF InFlight
  <2>1. CASE q = p
    <3>1. info'[idx[1]].status = "pending"
      BY <1>8
    <3> QED
      BY <1>2, <1>5, <1>6, <2>1, <3>1
  <2>2. CASE q # p
    <3>1. chain'[q] = chain[q] /\ chain[q] # << >>
      BY <1>5, <2>2
    <3>2. info'[chain[q][1]] = info[chain[q][1]] /\ chain[q][1] # idx[1]
      BY <1>7, <1>8, <3>1
    <3>3. disk'[buf[q]] = disk[buf[q]]
      BY <1>3, <1>6, <3>1
    <3>4. /\ chain[q][1] \in avail <=> info[chain[q][1]].status # "ok"
          /\ disk[buf[q]] <=> chain[q][1] \in avail \cup Range(used)
      BY <3>1 DEF IInv, InFlight
    <3> QED
      BY <1>2, <3>1, <3>2, <3>3, <3>4
  <2> QED
    BY <2>1, <2>2
<1>21. Owned'
  <2> SUFFICES ASSUME NEW d \in avail' \cup Range(used)
               PROVE  \E q \in Hand : chain'[q] # << >> /\ chain'[q][1] = d
    BY <1>1 DEF Owned
  <2>1. CASE d = idx[1]
    BY <1>2, <1>5, <2>1
  <2>2. CASE d # idx[1]
    <3>1. PICK q \in Hand : chain[q] # << >> /\ chain[q][1] = d
      BY <1>2, <2>2 DEF IInv, Owned
    <3> QED
      BY <1>3, <1>5, <3>1
  <2> QED
    BY <2>1, <2>2
<1>22. UsedOK'
  BY <1>1, <1>2, <1>9 DEF IInv, UsedOK
<1>23. ValidAt'
  BY <1>1, <1>3, <1>4 DEF IInv, ValidAt, Waiting, Submitted, Behind
<1>24. Completed'
  <2>1. info'[chain'[p][1]].status # "ok"
    BY <1>5, <1>8
  <2>2. \A q \in Hand : q # p /\ pc'[q] \in Submitted =>
          /\ pc[q] \in Submitted /\ chain'[q] = chain[q]
          /\ info'[chain[q][1]] = info[chain[q][1]]
    BY <1>4, <1>5, <1>7, <1>8 DEF IInv, AtLabels
  <2> QED
    BY <1>1, <2>1, <2>2 DEF IInv, Completed
<1>25. WrittenBack'
  BY <1>1, <1>4 DEF IInv, WrittenBack
<1>26. PanicsOnlyWhenFull'
  BY DEF StartRequest, Goto, PanicsOnlyWhenFull
<1>27. DescriptorsOwned'
  <2>1. Range(chain'[p]) = Range(idx) /\ \A q \in Hand : q # p => Range(chain'[q]) = Range(chain[q])
    BY <1>5
  <2>2. Range(chain[p]) = {}
    BY <1>3 DEF Range
  <2>3. \A q \in Hand : Range(chain'[q]) \cap free' = {}
    BY <1>2, <2>1 DEF IInv, DescriptorsOwned
  <2>4. \A q, r \in Hand : q # r => Range(chain'[q]) \cap Range(chain'[r]) = {}
    BY <1>2, <2>1 DEF IInv, DescriptorsOwned
  <2>5. free' \cup UNION {Range(chain'[q]) : q \in Hand} = Desc
    <3>1. \A d \in Desc : d \in free \/ \E q \in Hand : d \in Range(chain[q])
      BY Zenon DEF IInv, DescriptorsOwned
    <3>2. \A q \in Hand : Range(chain'[q]) \subseteq Desc
      <4>1. free \subseteq Desc /\ \A q \in Hand : Range(chain[q]) \subseteq Desc
        BY Zenon DEF IInv, DescriptorsOwned
      <4> QED
        BY <1>2, <2>1, <4>1
    <3>3. \A d \in Desc : d \in free' \/ \E q \in Hand : d \in Range(chain'[q])
      BY <1>2, <2>1, <2>2, <3>1
    <3>4. free' \subseteq Desc
      BY <1>2 DEF IInv, DevTypes
    <3> QED
      BY <3>2, <3>3, <3>4, Zenon
  <2> QED
    BY <2>3, <2>4, <2>5 DEF DescriptorsOwned
<1>28. Sleepers'
  <2>1. \A q \in Hand : q # p /\ pc[q] = "rw_sleep" => disk'[buf[q]] = disk[buf[q]]
    BY <1>3, <1>6 DEF IInv, Sleepers
  <2> QED
    BY <1>1, <1>2, <1>4, <1>5, <1>6, <2>1 DEF IInv, Sleepers
<1> QED
  BY <1>10, <1>11, <1>12, <1>13, <1>14, <1>15, <1>16, <1>17, <1>18, <1>19,
     <1>20, <1>21, <1>22, <1>23, <1>24, <1>25, <1>26, <1>27, <1>28 DEF IInv

LEMMA EndRequestIInv ==
  ASSUME IInv, ~panicked, NEW p \in Hand, EndRequest(p)
  PROVE  IInv'
<1>1. UNCHANGED <<blockno, refcnt, locked, latest, lru, avail, used, isr, vdisk_lock, platter, disk, pinned, buf>>
  BY DEF EndRequest, FreeChain, RequestDone, Caller, Wake, DescSleepers,
     bufVars, devVars, procVars
<1>2. /\ pc[p] = "rw_woken" /\ buf[p] \in Buffer /\ chain[p] # << >>
      /\ chain[p][1] \notin avail /\ chain[p][1] \notin Range(used)
      /\ buf[p] \in latest /\ blockno[buf[p]] \in platter
  <2>1. pc[p] = "rw_woken" /\ buf[p] \in Buffer /\ ~disk[buf[p]]
    BY HasBuffer DEF EndRequest, RequestDone
  <2>2. chain[p] # << >> /\ pc[p] \in Submitted
    BY <2>1 DEF IInv, AtLabels, Submitted
  <2>3. chain[p][1] \notin avail /\ chain[p][1] \notin Range(used)
    BY <2>1, <2>2 DEF IInv, InFlight
  <2>4. info[chain[p][1]].status = "ok"
    BY <2>2, <2>3 DEF IInv, InFlight
  <2> QED
    BY <2>1, <2>2, <2>3, <2>4 DEF IInv, Completed
<1>3. /\ free' = free \cup Range(chain[p]) /\ panicked' = FALSE
      /\ chain' = [chain EXCEPT ![p] = << >>] /\ write' = [write EXCEPT ![p] = FALSE]
      /\ valid' = [valid EXCEPT ![buf[p]] = TRUE]
  BY DEF EndRequest, FreeChain, IInv, DescriptorsOwned
<1>4. /\ pc'[p] \in Behind /\ (pc'[p] = "written" => blockno[buf[p]] \in pinned)
      /\ pc' \in [Hand -> Labels]
      /\ \A q \in Hand : q # p => pc'[q] = IF pc[q] = "desc_sleep" THEN "rw" ELSE pc[q]
  BY DEF EndRequest, FreeChain, RequestDone, Caller, Wake, DescSleepers,
     Behind, Labels, Asleep, IInv, ProcTypes
<1>5. /\ chain'[p] = << >> /\ \A q \in Hand : q # p => chain'[q] = chain[q]
      /\ ~write'[p] /\ \A q \in Hand : q # p => write'[q] = write[q]
  BY <1>3 DEF IInv, ProcTypes, BoolTypes
<1>6. /\ valid'[buf[p]]
      /\ \A c \in Buffer : c # buf[p] => valid'[c] = valid[c]
  BY <1>2, <1>3 DEF IInv, BoolTypes
<1>7. \A q \in Hand : q # p /\ pc[q] \in Holding => buf[q] \in Buffer /\ buf[q] # buf[p]
  <2>1. pc[p] \in Holding
    BY <1>2 DEF Holding, Submitted
  <2>2. \A q \in Hand : pc[q] \in Holding => pc[q] # "idle"
    BY DEF Holding, Waiting, Submitted, Behind
  <2> QED
    BY <2>1, <2>2, OneHolder, HasBuffer
<1>8. /\ info' = [d \in DOMAIN info \ {chain[p][1]} |-> info[d]]
      /\ DOMAIN info' = DOMAIN info \ {chain[p][1]}
      /\ \A d \in DOMAIN info' : info'[d] = info[d]
  BY DEF EndRequest
<1>9. \A q \in Hand : q # p /\ chain[q] # << >> =>
        /\ chain[q][1] # chain[p][1] /\ chain[q][1] \in DOMAIN info'
        /\ info'[chain[q][1]] = info[chain[q][1]]
  <2>1. \A q \in Hand : q # p /\ chain[q] # << >> => chain[q][1] # chain[p][1]
    BY <1>2, OneRequest
  <2> QED
    BY <1>8, <2>1 DEF IInv, Chains
<1>10. BufTypes' /\ LruOK' /\ UsedOK'
  BY <1>1 DEF IInv, BufTypes, LruOK, UsedOK
<1>11. IntrToCome' /\ PinnedCached' /\ OneBufferPerBlock'
  BY <1>1 DEF IInv, IntrToCome, PinnedCached, OneBufferPerBlock
<1>12. References'
  BY <1>1 DEF IInv, References
<1>13. BoolTypes'
  BY <1>1, <1>3, Zenon DEF IInv, BoolTypes
<1>14. DevTypes'
  <2>1. Range(chain[p]) \subseteq Desc
    BY Zenon DEF IInv, DescriptorsOwned
  <2>2. info' \in [DOMAIN info' -> Request] /\ DOMAIN info' \subseteq Desc
    BY <1>8 DEF IInv, DevTypes
  <2> QED
    BY <1>1, <1>3, <2>1, <2>2 DEF IInv, DevTypes
<1>15. ProcTypes'
  <2>1. << >> \in Seq(Desc)
    BY EmptySeq
  <2> QED
    BY <1>1, <1>3, <1>4, <2>1 DEF IInv, ProcTypes
<1>16. AtLabels'
  BY <1>1, <1>2, <1>4, <1>5 DEF IInv, AtLabels, Waiting, Submitted, Behind
<1>17. Locks'
  <2>1. \A q \in Hand : pc'[q] \in Holding <=> pc[q] \in Holding
    BY <1>2, <1>4 DEF Holding, Waiting, Submitted, Behind
  <2> QED
    BY <1>1, <2>1 DEF IInv, Locks
<1>18. Chains'
  BY <1>1, <1>5, <1>9 DEF IInv, Chains
<1>19. InFlight'
  BY <1>1, <1>5, <1>9 DEF IInv, InFlight
<1>20. Owned'
  BY <1>1, <1>2, <1>5 DEF IInv, Owned
<1>21. ValidLatest'
  BY <1>1, <1>2, <1>6 DEF IInv, ValidLatest
<1>22. ValidAt'
  <2>1. pc'[p] \notin Waiting \cup Submitted
    BY <1>4 DEF Waiting, Submitted, Behind
  <2>2. \A q \in Hand : q # p =>
          /\ pc'[q] \in Waiting \cup Submitted <=> pc[q] \in Waiting \cup Submitted
          /\ pc'[q] \in Behind <=> pc[q] \in Behind
    BY <1>4 DEF Waiting, Submitted, Behind
  <2>3. \A q \in Hand : q # p /\ pc[q] \in Waiting \cup Submitted \cup Behind =>
          valid'[buf[q]] = valid[buf[q]]
    BY <1>7, <1>6 DEF Holding
  <2> QED
    BY <1>1, <1>5, <1>6, <2>1, <2>2, <2>3 DEF IInv, ValidAt
<1>23. Completed'
  <2>1. pc'[p] \notin Submitted
    BY <1>4 DEF Submitted, Behind
  <2>2. \A q \in Hand : q # p /\ pc'[q] \in Submitted =>
          /\ pc[q] \in Submitted /\ chain'[q] = chain[q]
          /\ info'[chain[q][1]] = info[chain[q][1]]
    <3>1. \A q \in Hand : q # p /\ pc'[q] \in Submitted => pc[q] \in Submitted
      BY <1>4 DEF Submitted
    <3> QED
      BY <1>5, <1>9, <3>1 DEF IInv, AtLabels
  <2> QED
    BY <1>1, <2>1, <2>2 DEF IInv, Completed
<1>24. WrittenBack'
  BY <1>1, <1>2, <1>4 DEF IInv, WrittenBack
<1>25. Unwritten'
  <2> SUFFICES ASSUME NEW m \in Blocks \ platter
               PROVE  \E c \in Buffer :
                        /\ blockno[c] = m /\ valid'[c]
                        /\ m \in pinned \/ \E q \in Hand : buf[q] = c /\ write'[q]
    BY <1>1 DEF Unwritten
  <2>1. PICK c \in Buffer :
          /\ blockno[c] = m /\ valid[c]
          /\ m \in pinned \/ \E q \in Hand : buf[q] = c /\ write[q]
    BY DEF IInv, Unwritten
  <2>2. c # buf[p]
    BY <1>2, <2>1
  <2> QED
    BY <1>5, <1>6, <2>1, <2>2
<1>26. PanicsOnlyWhenFull'
  BY <1>3 DEF PanicsOnlyWhenFull
<1>27. DescriptorsOwned'
  <2>1. Range(chain'[p]) = {} /\ \A q \in Hand : q # p => Range(chain'[q]) = Range(chain[q])
    BY <1>5 DEF Range
  <2>2. \A q \in Hand : Range(chain'[q]) \cap free' = {}
    BY <1>3, <2>1 DEF IInv, DescriptorsOwned
  <2>3. \A q, r \in Hand : q # r => Range(chain'[q]) \cap Range(chain'[r]) = {}
    BY <2>1 DEF IInv, DescriptorsOwned
  <2>4. free' \cup UNION {Range(chain'[q]) : q \in Hand} = Desc
    <3>1. \A d \in Desc : d \in free \/ \E q \in Hand : d \in Range(chain[q])
      BY Zenon DEF IInv, DescriptorsOwned
    <3>2. free \subseteq Desc /\ \A q \in Hand : Range(chain[q]) \subseteq Desc
      BY Zenon DEF IInv, DescriptorsOwned
    <3>3. free' \subseteq Desc /\ \A q \in Hand : Range(chain'[q]) \subseteq Desc
      BY <1>3, <2>1, <3>2
    <3>4. \A d \in Desc : d \in free' \/ \E q \in Hand : d \in Range(chain'[q])
      BY <1>3, <2>1, <3>1
    <3> QED
      BY <3>3, <3>4, Zenon
  <2> QED
    BY <2>2, <2>3, <2>4 DEF DescriptorsOwned
<1>28. Sleepers'
  <2>1. pc'[p] \notin {"lock_sleep", "desc_sleep", "rw_sleep"}
    BY <1>4 DEF Behind
  <2> QED
    BY <1>1, <1>4, <1>5, <2>1 DEF IInv, Sleepers
<1> QED
  BY <1>10, <1>11, <1>12, <1>13, <1>14, <1>15, <1>16, <1>17, <1>18, <1>19,
     <1>20, <1>21, <1>22, <1>23, <1>24, <1>25, <1>26, <1>27, <1>28 DEF IInv

LEMMA IntrTurnIInv ==
  ASSUME IInv, ~panicked, IntrTurn
  PROVE  IInv'
<1>1. UNCHANGED <<blockno, valid, refcnt, locked, latest, lru, free, info, avail, isr, vdisk_lock, platter, pinned, buf, write, chain>>
  BY DEF IntrTurn, bufVars, devVars, procVars
<1>2. PICK d \in Desc : /\ d = Head(used) /\ d \in Range(used) /\ used' = Tail(used)
                       /\ used' \in Seq(Desc) /\ IsInjective(used')
                       /\ Range(used') = Range(used) \ {d}
  BY Tailed DEF IntrTurn, IInv, DevTypes, UsedOK
<1>3. PICK p \in Hand :
        /\ chain[p] # << >> /\ chain[p][1] = d /\ buf[p] \in Buffer
        /\ d \in DOMAIN info /\ info[d].b = buf[p] /\ (info[d].write <=> write[p])
        /\ d \notin avail /\ info[d].status = "ok"
  <2>1. PICK p \in Hand : chain[p] # << >> /\ chain[p][1] = d
    BY <1>2 DEF IInv, Owned
  <2>2. pc[p] # "idle"
    BY <2>1 DEF IInv, AtLabels, Submitted
  <2>3. buf[p] \in Buffer
    BY <2>2, HasBuffer
  <2>4. d \notin avail
    BY <1>2 DEF IInv, UsedOK
  <2>5. info[d].status = "ok"
    BY <2>1, <2>4 DEF IInv, InFlight
  <2> QED
    BY <2>1, <2>3, <2>4, <2>5 DEF IInv, Chains
<1>4. /\ disk' = [disk EXCEPT ![buf[p]] = FALSE] /\ panicked' = FALSE
      /\ pc' = [q \in Hand |-> IF pc[q] = "rw_sleep" /\ buf[q] = buf[p]
                               THEN "rw_woken" ELSE pc[q]]
  BY <1>2, <1>3 DEF IntrTurn
<1>5. /\ pc' \in [Hand -> Labels]
      /\ \A q \in Hand : pc'[q] = IF pc[q] = "rw_sleep" /\ buf[q] = buf[p]
                                   THEN "rw_woken" ELSE pc[q]
  BY <1>4 DEF Labels, Asleep, IInv, ProcTypes
<1>6. \A q \in Hand : pc'[q] \in Submitted <=> pc[q] \in Submitted
  BY <1>5 DEF Submitted
<1>7. /\ ~disk'[buf[p]]
      /\ \A c \in Buffer : c # buf[p] => disk'[c] = disk[c]
  BY <1>3, <1>4 DEF IInv, BoolTypes
<1>8. \A q \in Hand : q # p /\ chain[q] # << >> => buf[q] \in Buffer /\ buf[q] # buf[p] /\ chain[q][1] # d
  <2>1. \A q \in Hand : chain[q] # << >> => pc[q] # "idle"
    BY DEF IInv, AtLabels, Submitted
  <2> QED
    BY <1>3, <2>1, OneRequest, HasBuffer
<1>9. BufTypes' /\ LruOK' /\ Chains'
  BY <1>1 DEF IInv, BufTypes, LruOK, Chains
<1>10. ValidLatest' /\ Unwritten' /\ PinnedCached'
  BY <1>1 DEF IInv, ValidLatest, Unwritten, PinnedCached
<1>11. OneBufferPerBlock'
  BY <1>1 DEF IInv, OneBufferPerBlock
<1>12. References'
  BY <1>1 DEF IInv, References
<1>13. DescriptorsOwned'
  BY <1>1 DEF IInv, DescriptorsOwned
<1>14. BoolTypes'
  BY <1>1, <1>4 DEF IInv, BoolTypes
<1>15. DevTypes'
  BY <1>1, <1>2 DEF IInv, DevTypes
<1>16. ProcTypes'
  BY <1>1, <1>5 DEF IInv, ProcTypes
<1>17. AtLabels'
  <2>1. \A q \in Hand :
          /\ pc'[q] = "idle" <=> pc[q] = "idle"
          /\ pc'[q] \in Waiting \cup Submitted <=> pc[q] \in Waiting \cup Submitted
    BY <1>5 DEF Waiting, Submitted
  <2> SUFFICES ASSUME NEW q \in Hand
               PROVE  /\ pc'[q] = "idle" <=> buf[q] = None
                      /\ pc'[q] \in Submitted <=> chain[q] # << >>
                      /\ write[q] => pc'[q] \in Waiting \cup Submitted
                      /\ buf[q] # None => blockno[buf[q]] \in Blocks
    BY <1>1 DEF AtLabels
  <2> QED
    BY <1>6, <2>1 DEF IInv, AtLabels
<1>18. Locks'
  <2>1. \A q \in Hand : pc'[q] \in Holding <=> pc[q] \in Holding
    BY <1>5 DEF Holding, Waiting, Submitted, Behind
  <2> QED
    BY <1>1, <2>1 DEF IInv, Locks
<1>19. InFlight'
  <2> SUFFICES ASSUME NEW q \in Hand, chain[q] # << >>
               PROVE  /\ chain[q][1] \in avail <=> info[chain[q][1]].status # "ok"
                      /\ disk'[buf[q]] <=> chain[q][1] \in avail \cup Range(used')
    BY <1>1 DEF InFlight
  <2>1. /\ chain[q][1] \in avail <=> info[chain[q][1]].status # "ok"
        /\ disk[buf[q]] <=> chain[q][1] \in avail \cup Range(used)
    BY DEF IInv, InFlight
  <2>2. CASE q = p
    BY <1>2, <1>3, <1>7, <2>1, <2>2
  <2>3. CASE q # p
    <3>1. disk'[buf[q]] = disk[buf[q]] /\ chain[q][1] # d
      BY <1>7, <1>8, <2>3
    <3> QED
      BY <1>2, <2>1, <3>1
  <2> QED
    BY <2>2, <2>3
<1>20. Owned'
  BY <1>1, <1>2 DEF IInv, Owned
<1>21. UsedOK'
  BY <1>1, <1>2 DEF IInv, UsedOK
<1>22. IntrToCome'
  BY <1>1 DEF IntrTurn, IntrToCome
<1>23. ValidAt'
  BY <1>1, <1>5 DEF IInv, ValidAt, Waiting, Submitted, Behind
<1>24. Completed'
  <2> SUFFICES ASSUME NEW q \in Hand, pc'[q] \in Submitted, info[chain[q][1]].status = "ok"
               PROVE  buf[q] \in latest /\ blockno[buf[q]] \in platter
    BY <1>1 DEF Completed
  <2>1. pc[q] \in Submitted
    BY <1>6
  <2> QED
    BY <2>1 DEF IInv, Completed
<1>25. WrittenBack'
  BY <1>1, <1>5 DEF IInv, WrittenBack
<1>26. PanicsOnlyWhenFull'
  BY <1>4 DEF PanicsOnlyWhenFull
<1>27. Sleepers'
  <2>1. \A q \in Hand : pc'[q] = "rw_sleep" => pc[q] = "rw_sleep" /\ q # p /\ buf[q] # buf[p]
    BY <1>5
  <2>2. \A q \in Hand : pc'[q] = "rw_sleep" => chain[q] # << >> /\ disk'[buf[q]]
    BY <1>7, <1>8, <2>1 DEF IInv, Sleepers
  <2>3. \A q \in Hand : pc'[q] \in {"lock_sleep", "desc_sleep"} => pc'[q] = pc[q]
    BY <1>5
  <2> QED
    BY <1>1, <2>2, <2>3 DEF IInv, Sleepers
<1> QED
  BY <1>9, <1>10, <1>11, <1>12, <1>13, <1>14, <1>15, <1>16, <1>17, <1>18,
     <1>19, <1>20, <1>21, <1>22, <1>23, <1>24, <1>25, <1>26, <1>27 DEF IInv

LEMMA DeviceCompletesIInv ==
  ASSUME IInv, ~panicked, NEW d \in Desc, DeviceCompletes(d)
  PROVE  IInv'
<1>1. UNCHANGED <<blockno, valid, refcnt, locked, lru, free, vdisk_lock, disk, pinned, pc, buf, write, chain, panicked>>
  BY DEF DeviceCompletes, bufVars, devVars, procVars
<1>2. PICK p \in Hand :
        /\ chain[p] # << >> /\ chain[p][1] = d /\ buf[p] \in Buffer
        /\ d \in DOMAIN info /\ info[d].b = buf[p] /\ (info[d].write <=> write[p])
        /\ pc[p] \in Submitted /\ blockno[buf[p]] \in Blocks
  <2>1. PICK p \in Hand : chain[p] # << >> /\ chain[p][1] = d
    BY DEF DeviceCompletes, IInv, Owned
  <2>2. pc[p] \in Submitted /\ pc[p] # "idle"
    BY <2>1 DEF IInv, AtLabels, Submitted
  <2> QED
    BY <2>1, <2>2, HasBuffer DEF IInv, Chains
<1>3. /\ latest \subseteq latest' /\ latest' \subseteq Buffer /\ buf[p] \in latest'
      /\ platter \subseteq platter' /\ platter' \subseteq Blocks
      /\ blockno[buf[p]] \in platter'
  <2>1. valid[buf[p]] <=> write[p]
    BY <1>2 DEF IInv, ValidAt
  <2>2. CASE write[p]
    <3>1. buf[p] \in latest
      BY <1>2, <2>1, <2>2 DEF IInv, ValidLatest
    <3>2. latest' = latest /\ platter' = platter \cup {blockno[buf[p]]}
      BY <1>2, <2>2, <3>1 DEF DeviceCompletes
    <3> QED
      BY <1>2, <3>1, <3>2 DEF IInv, BufTypes, DevTypes
  <2>3. CASE ~write[p]
    <3>1. blockno[buf[p]] \in platter
      <4> SUFFICES ASSUME blockno[buf[p]] \notin platter PROVE FALSE
        OBVIOUS
      <4>1. PICK c \in Buffer : blockno[c] = blockno[buf[p]] /\ valid[c]
        BY <1>2 DEF IInv, Unwritten
      <4>2. c = buf[p]
        BY <1>2, <4>1, Constants DEF IInv, OneBufferPerBlock
      <4> QED
        BY <2>1, <2>3, <4>1, <4>2
    <3>2. platter' = platter /\ latest' = latest \cup {buf[p]}
      BY <1>2, <2>3, <3>1 DEF DeviceCompletes
    <3> QED
      BY <1>2, <3>1, <3>2 DEF IInv, BufTypes, DevTypes
  <2> QED
    BY <2>2, <2>3
<1>4. /\ used' \in Seq(Desc) /\ Range(used') = Range(used) \cup {d} /\ IsInjective(used')
      /\ avail' = avail \ {d} /\ d \in avail /\ isr' = TRUE
  <2>1. d \notin Range(used)
    BY DEF DeviceCompletes, IInv, UsedOK
  <2>2. used' = Append(used, d)
    BY DEF DeviceCompletes
  <2> QED
    BY <2>1, <2>2, Appended DEF DeviceCompletes, IInv, DevTypes, UsedOK
<1>5. /\ DOMAIN info' = DOMAIN info /\ info' = [c \in DOMAIN info |-> info'[c]]
      /\ info'[d] = [info[d] EXCEPT !.status = "ok"]
      /\ \A c \in DOMAIN info : c # d => info'[c] = info[c]
  BY <1>2 DEF DeviceCompletes, IInv, DevTypes
<1>6. /\ info'[d] \in Request /\ info'[d].status = "ok"
      /\ info'[d].b = info[d].b /\ info'[d].write = info[d].write
  <2>1. info[d] \in Request
    BY <1>2 DEF IInv, DevTypes
  <2> QED
    BY <1>5, <2>1 DEF Request
<1>7. \A q \in Hand : q # p /\ chain[q] # << >> =>
        /\ chain[q][1] # d /\ chain[q][1] \in DOMAIN info
        /\ info'[chain[q][1]] = info[chain[q][1]]
  <2>1. \A q \in Hand : q # p /\ chain[q] # << >> => chain[q][1] # d
    BY <1>2, OneRequest
  <2> QED
    BY <1>5, <2>1 DEF IInv, Chains
<1>8. LruOK' /\ ProcTypes' /\ AtLabels'
  BY <1>1 DEF IInv, LruOK, ProcTypes, AtLabels
<1>9. Locks' /\ ValidAt' /\ PinnedCached'
  BY <1>1 DEF IInv, Locks, ValidAt, PinnedCached
<1>10. OneBufferPerBlock'
  BY <1>1 DEF IInv, OneBufferPerBlock
<1>11. References'
  BY <1>1 DEF IInv, References
<1>12. DescriptorsOwned'
  BY <1>1 DEF IInv, DescriptorsOwned
<1>13. Sleepers'
  BY <1>1 DEF IInv, Sleepers
<1>14. BufTypes'
  BY <1>1, <1>3 DEF IInv, BufTypes
<1>15. BoolTypes'
  BY <1>1, <1>4 DEF IInv, BoolTypes
<1>16. DevTypes'
  <2>1. \A c \in DOMAIN info : info'[c] \in Request
    BY <1>5, <1>6 DEF IInv, DevTypes
  <2>2. info' \in [DOMAIN info' -> Request]
    BY <1>5, <2>1
  <2> QED
    BY <1>1, <1>3, <1>4, <1>5, <2>2 DEF IInv, DevTypes
<1>17. Chains'
  <2> SUFFICES ASSUME NEW q \in Hand, chain[q] # << >>
               PROVE  /\ chain[q][1] \in DOMAIN info' /\ chain[q][1] \in Range(chain[q])
                      /\ info'[chain[q][1]].b = buf[q]
                      /\ (info'[chain[q][1]].write <=> write[q])
    BY <1>1 DEF Chains
  <2>1. CASE q = p
    BY <1>2, <1>5, <1>6, <2>1 DEF IInv, Chains
  <2>2. CASE q # p
    BY <1>5, <1>7, <2>2 DEF IInv, Chains
  <2> QED
    BY <2>1, <2>2
<1>18. InFlight'
  <2> SUFFICES ASSUME NEW q \in Hand, chain[q] # << >>
               PROVE  /\ chain[q][1] \in avail' <=> info'[chain[q][1]].status # "ok"
                      /\ disk[buf[q]] <=> chain[q][1] \in avail' \cup Range(used')
    BY <1>1 DEF InFlight
  <2>1. /\ chain[q][1] \in avail <=> info[chain[q][1]].status # "ok"
        /\ disk[buf[q]] <=> chain[q][1] \in avail \cup Range(used)
    BY DEF IInv, InFlight
  <2>2. avail' \cup Range(used') = avail \cup Range(used)
    BY <1>4
  <2>3. CASE q = p
    BY <1>2, <1>4, <1>6, <2>1, <2>2, <2>3
  <2>4. CASE q # p
    BY <1>4, <1>7, <2>1, <2>2, <2>4
  <2> QED
    BY <2>3, <2>4
<1>19. Owned'
  <2>1. avail' \cup Range(used') = avail \cup Range(used)
    BY <1>4
  <2> QED
    BY <1>1, <2>1 DEF IInv, Owned
<1>20. UsedOK'
  BY <1>4 DEF IInv, UsedOK
<1>21. IntrToCome'
  BY <1>4 DEF IntrToCome
<1>22. ValidLatest'
  BY <1>1, <1>3 DEF IInv, ValidLatest
<1>23. Completed'
  <2> SUFFICES ASSUME NEW q \in Hand, pc[q] \in Submitted, info'[chain[q][1]].status = "ok"
               PROVE  buf[q] \in latest' /\ blockno[buf[q]] \in platter'
    BY <1>1 DEF Completed
  <2>1. CASE q = p
    BY <1>3, <2>1
  <2>2. CASE q # p
    <3>1. chain[q] # << >>
      BY DEF IInv, AtLabels
    <3>2. info[chain[q][1]].status = "ok"
      BY <1>7, <2>2, <3>1
    <3> QED
      BY <1>3, <3>2 DEF IInv, Completed
  <2> QED
    BY <2>1, <2>2
<1>24. WrittenBack'
  BY <1>1, <1>3 DEF IInv, WrittenBack
<1>25. Unwritten'
  BY <1>1, <1>3 DEF IInv, Unwritten
<1>26. PanicsOnlyWhenFull'
  BY DEF DeviceCompletes, PanicsOnlyWhenFull
<1> QED
  BY <1>8, <1>9, <1>10, <1>11, <1>12, <1>13, <1>14, <1>15, <1>16, <1>17, <1>18,
     <1>19, <1>20, <1>21, <1>22, <1>23, <1>24, <1>25, <1>26 DEF IInv
-----------------------------------------------------------------------------
LEMMA NoRequests ==
  ASSUME info = << >>, free = Desc, avail = {}, used \in Seq(Desc),
         platter = Blocks, pinned = {}
  PROVE  DevTypes
<1>1. DOMAIN info = {}
  BY EmptySeq
<1>2. info = [x \in {} |-> info[x]]
  BY <1>1
<1>3. info \in [DOMAIN info -> Request]
  <2> HIDE DEF DevTypes
  <2> QED
    BY <1>1, <1>2
<1>4. DOMAIN info \subseteq Desc
  BY <1>1
<1> HIDE DEF DevTypes
<1> QED
  BY <1>3, <1>4 DEF DevTypes

LEMMA InitIInv == Init => IInv
<1> SUFFICES ASSUME Init PROVE IInv
  OBVIOUS
<1> USE DEF Init, BInit, VirtioInit
<1>1. << >> \in Seq(Desc) /\ Range(<< >>) = {} /\ DOMAIN << >> = {}
  BY EmptySeq DEF Range
<1>2. BufTypes /\ ProcTypes
  BY <1>1 DEF BufTypes, ProcTypes, Labels
<1>3. BoolTypes
  BY DEF BoolTypes
<1>4. LruOK
  <2>1. lru \in Seq(Buffer) /\ DOMAIN lru = Buffer
    <3>1. \A i \in 1..NBUF : NBUF + 1 - i \in Buffer
      BY Constants DEF Buffer
    <3> QED
      BY Constants, <3>1 DEF Buffer
  <2>2. IsInjective(lru)
    BY Constants DEF IsInjective, Buffer
  <2>3. Range(lru) = Buffer
    <3>1. \A b \in Buffer : NBUF + 1 - b \in Buffer /\ lru[NBUF + 1 - b] = b
      BY Constants DEF Buffer
    <3>2. \A i \in Buffer : lru[i] \in Buffer
      BY Constants DEF Buffer
    <3>3. Buffer \subseteq Range(lru)
      <4> SUFFICES ASSUME NEW b \in Buffer PROVE \E i \in Buffer : lru[i] = b
        BY <2>1 DEF Range
      <4>1. NBUF + 1 - b \in Buffer
        BY <3>1
      <4> WITNESS NBUF + 1 - b \in Buffer
      <4> QED
        BY <3>1
    <3>4. Range(lru) \subseteq Buffer
      BY <2>1, <3>2 DEF Range
    <3> QED
      BY <3>3, <3>4
  <2>4. refcnt \in [Buffer -> Nat] /\ {b \in Buffer : refcnt[b] = 0} = Buffer
    OBVIOUS
  <2> QED
    BY <2>1, <2>2, <2>3, <2>4 DEF LruOK
<1>5. DevTypes
  BY NoRequests, <1>1 DEF Init, VirtioInit
<1>6. AtLabels /\ Chains /\ InFlight /\ Owned /\ UsedOK /\ IntrToCome
  BY <1>1 DEF AtLabels, Chains, InFlight, Owned, UsedOK, IntrToCome,
     IsInjective,
              Waiting, Submitted
<1>7. Locks /\ ValidLatest /\ ValidAt /\ Completed /\ WrittenBack
  BY Constants DEF Locks, ValidLatest, ValidAt, Completed, WrittenBack, Holding,
                   Waiting, Submitted, Behind
<1>8. Unwritten /\ PinnedCached /\ OneBufferPerBlock
  BY FS_EmptySet DEF Unwritten, PinnedCached, OneBufferPerBlock
<1>9. References
  <2>1. \A b \in Buffer : {p \in Hand : buf[p] = b} = {}
    BY Constants
  <2>2. \A b \in Buffer : refcnt[b] = 0 /\ blockno[b] \notin pinned
    OBVIOUS
  <2>3. Cardinality({}) = 0
    BY FS_EmptySet
  <2> HIDE DEF Init, BInit, VirtioInit
  <2> QED
    BY <2>1, <2>2, <2>3 DEF References
<1>10. PanicsOnlyWhenFull /\ Sleepers
  BY DEF PanicsOnlyWhenFull, Sleepers
<1>11. DescriptorsOwned
  BY <1>1 DEF DescriptorsOwned
<1> QED
  BY <1>2, <1>3, <1>4, <1>5, <1>6, <1>7, <1>8, <1>9, <1>10, <1>11 DEF IInv

LEMMA NextIInv == IInv /\ [Next]_vars => IInv'
<1> SUFFICES ASSUME IInv, [Next]_vars PROVE IInv'
  OBVIOUS
<1>1. CASE UNCHANGED vars
  <2>1. UNCHANGED <<blockno, valid, refcnt, locked, latest, lru, free, info, avail,
                    used, isr, vdisk_lock, platter, disk, pinned, pc, buf, write,
                    chain, panicked>>
    BY <1>1 DEF vars, bufVars, devVars, procVars
  <2>2. /\ BufTypes' /\ BoolTypes' /\ LruOK' /\ DevTypes' /\ ProcTypes'
        /\ AtLabels' /\ Locks' /\ Chains' /\ InFlight'
    BY <2>1 DEF IInv, BufTypes, BoolTypes, LruOK, DevTypes, ProcTypes, AtLabels,
                Locks, Chains, InFlight
  <2>3. /\ Owned' /\ UsedOK' /\ IntrToCome' /\ ValidLatest' /\ ValidAt'
        /\ Completed' /\ WrittenBack' /\ Unwritten' /\ PinnedCached'
    BY <2>1 DEF IInv, Owned, UsedOK, IntrToCome, ValidLatest, ValidAt,
       Completed,
                WrittenBack, Unwritten, PinnedCached
  <2>4. OneBufferPerBlock' /\ References'
    BY <2>1 DEF IInv, OneBufferPerBlock, References
  <2>5. DescriptorsOwned'
    BY <2>1 DEF IInv, DescriptorsOwned
  <2>6. Sleepers' /\ PanicsOnlyWhenFull'
    BY <2>1 DEF IInv, Sleepers, PanicsOnlyWhenFull
  <2> QED
    BY <2>2, <2>3, <2>4, <2>5, <2>6 DEF IInv
<1>2. ASSUME ~panicked, NEW p \in Hand, NEW k \in Blocks,
             BgetHit(p, k) \/ BgetMiss(p, k) \/ BgetPanic(p, k)
      PROVE  IInv'
  BY <1>2, BgetHitIInv, BgetMissIInv, BgetPanicIInv
<1>3. ASSUME ~panicked, NEW p \in Hand, Continue(p)
      PROVE  IInv'
  BY <1>3, AcquireSleepIInv, BunpinIInv, BrelseDerefIInv, StartRequestIInv,
     NoDescriptorsIInv, EndRequestIInv, SleepAgainIInv DEF Continue
<1>4. ASSUME ~panicked, NEW p \in Hand,
             BpinModified(p) \/ Bwrite(p) \/ Brelse(p) \/ KillWakes(p)
      PROVE  IInv'
  BY <1>4, BpinModifiedIInv, BwriteIInv, BrelseIInv, KillWakesIInv
<1>5. CASE ~panicked /\ (Interrupt \/ Device)
  BY <1>5, IntrAckIInv, IntrTurnIInv, IntrDoneIInv, DeviceCompletesIInv DEF
     Interrupt, Device
<1> QED
  BY <1>1, <1>2, <1>3, <1>4, <1>5 DEF Next

LEMMA OtherHand ==
  ASSUME NEW p \in Hand
  PROVE  Other(p) \in Hand /\ Other(p) # p /\ Other(Other(p)) = p
<1>1. PICK q \in Procs, i \in {1, 2} : p = <<q, i>>
  BY DEF Hand
<1>2. 3 - i \in {1, 2} /\ 3 - i # i /\ 3 - (3 - i) = i
  OBVIOUS
<1>3. Other(p) = <<q, 3 - i>>
  BY <1>1 DEF Other
<1> QED
  BY <1>1, <1>2, <1>3 DEF Hand, Other

\* bget() does not find the block that the process holds, and recycles no buffer
\* that it holds.
LEMMA OtherBuffer ==
  ASSUME IInv, TwoBuffers, NEW p \in Hand, NEW k \in Blocks,
         BgetHit(p, k) \/ BgetMiss(p, k)
  PROVE  TwoBuffers'
<1>1. PICK b \in Buffer :
        /\ buf' = [buf EXCEPT ![p] = b]
        /\ blockno[b] = k \/ refcnt[b] = 0
  <2>1. CASE BgetHit(p, k)
    BY <2>1 DEF BgetHit, Cached
  <2>2. CASE BgetMiss(p, k)
    <3>1. Len(lru) \in DOMAIN lru
      BY <2>2 DEF BgetMiss, IInv, LruOK
    <3>2. Last(lru) \in Buffer /\ refcnt[Last(lru)] = 0
      BY <3>1 DEF Last, Range, IInv, LruOK
    <3> QED
      BY <2>2, <3>2 DEF BgetMiss
  <2> QED
    BY <2>1, <2>2
<1>2. buf[Other(p)] # b
  <2>1. CASE blockno[b] = k
    <3>1. buf[Other(p)] # None => <<blockno[buf[Other(p)]], k>> \in Under
      BY DEF BgetHit, BgetMiss, MayBget
    <3>2. <<k, k>> \notin Under
      BY DiskAssumption
    <3> QED
      BY <2>1, <3>1, <3>2, Constants
  <2>2. CASE refcnt[b] = 0
    BY <2>2, UnusedBuffer, OtherHand
  <2> QED
    BY <1>1, <2>1, <2>2
<1>3. buf \in [Hand -> Buffer \cup {None}]
  BY DEF IInv, ProcTypes
<1>4. buf'[p] = b /\ \A q \in Hand : q # p => buf'[q] = buf[q]
  BY <1>1, <1>3
<1> QED
  BY <1>2, <1>4, OtherHand DEF TwoBuffers

LEMMA BuffersElsewhere ==
  ASSUME IInv, TwoBuffers, [Next]_vars,
         ~ \E p \in Hand, k \in Blocks : BgetHit(p, k) \/ BgetMiss(p, k)
  PROVE  TwoBuffers'
<1>1. CASE buf' = buf
  BY <1>1 DEF TwoBuffers
<1>2. ASSUME NEW p \in Hand, BrelseDeref(p)
      PROVE  TwoBuffers'
  <2>1. buf'[p] = None /\ \A q \in Hand : q # p => buf'[q] = buf[q]
    BY <1>2 DEF BrelseDeref, IInv, ProcTypes
  <2> QED
    BY <2>1, OtherHand DEF TwoBuffers
<1>3. buf' = buf \/ \E p \in Hand : BrelseDeref(p)
  <2>1. CASE UNCHANGED vars
    BY <2>1 DEF vars, procVars
  <2>2. CASE \E p \in Hand, k \in Blocks : BgetPanic(p, k)
    BY <2>2 DEF BgetPanic, procVars
  <2>3. ASSUME NEW p \in Hand, Continue(p), ~BrelseDeref(p)
        PROVE  buf' = buf
    BY <2>3 DEF Continue, AcquireSleep, Bunpin, StartRequest, NoDescriptors,
                EndRequest, SleepAgain, procVars
  <2>4. ASSUME NEW p \in Hand,
               BpinModified(p) \/ Bwrite(p) \/ Brelse(p) \/ KillWakes(p)
        PROVE  buf' = buf
    BY <2>4 DEF BpinModified, Bwrite, Brelse, KillWakes, procVars
  <2>5. CASE Interrupt \/ Device
    BY <2>5 DEF Interrupt, IntrAck, IntrTurn, IntrDone, Device, DeviceCompletes,
                procVars
  <2> QED
    BY <2>1, <2>2, <2>3, <2>4, <2>5 DEF Next
<1> QED
  BY <1>1, <1>2, <1>3

\* The strengthening that the theorems below rest on (bio.c, virtio_disk.c).
THEOREM Invariance == Spec => []IInv
<1> QED
  BY InitIInv, NextIInv, PTL DEF Spec

\* A process that holds a buffer does not wait for the same one (bio.c:60-90).
THEOREM NotTwice == Spec => []TwoBuffers
<1>1. Init => TwoBuffers
  BY OtherHand DEF Init, TwoBuffers
<1>2. IInv /\ TwoBuffers /\ [Next]_vars => TwoBuffers'
  BY OtherBuffer, BuffersElsewhere
<1> QED
  BY <1>1, <1>2, Invariance, PTL DEF Spec

\* A block is cached in one buffer; its holder, alone, sees the latest version;
\* a block that is not on the disk is in a buffer that bget() does not recycle
\* (bio.c:60-90, 135-165).
THEOREM Coherent == Spec => []CacheCoherent
<1>1. IInv => CacheCoherent
  <2> SUFFICES ASSUME IInv PROVE CacheCoherent
    OBVIOUS
  <2>1. HolderSeesLatest
    <3> SUFFICES ASSUME NEW p \in Hand, pc[p] \in Behind
                 PROVE  locked[buf[p]] = p /\ valid[buf[p]] /\ buf[p] \in latest
      BY DEF HolderSeesLatest, Behind
    <3>1. buf[p] \in Buffer
      BY HasBuffer DEF Behind
    <3>2. locked[buf[p]] = p
      BY <3>1 DEF IInv, Locks, Holding
    <3> QED
      BY <3>1, <3>2 DEF IInv, ValidAt, ValidLatest
  <2>2. UnwrittenIsKept
    <3> SUFFICES ASSUME NEW k \in Blocks \ platter
                 PROVE  \E b \in Buffer : blockno[b] = k /\ b \in latest /\ refcnt[b] > 0
      BY DEF UnwrittenIsKept
    <3>1. PICK b \in Buffer :
            /\ blockno[b] = k /\ valid[b]
            /\ k \in pinned \/ \E p \in Hand : buf[p] = b /\ write[p]
      BY DEF IInv, Unwritten
    <3>2. refcnt[b] # 0
      BY <3>1, UnusedBuffer
    <3> QED
      BY <3>1, <3>2 DEF IInv, ValidLatest, LruOK
  <2> QED
    BY <2>1, <2>2 DEF IInv, CacheCoherent
<1> QED
  BY <1>1, Invariance, PTL

\* References and descriptors are exact, and no assertion of bio.c and
\* virtio_disk.c fails, but for bget()'s when every buffer is in use, for which
\* two buffers per process and one per pinned block are too many (bio.c:88, 107,
\* 119; virtio_disk.c:145-158, 278; fs.c:394-400, 424-431).
THEOREM Accounted == Spec => []ResourcesAccounted
<1>1. IInv => ResourcesAccounted
  <2> SUFFICES ASSUME IInv PROVE ResourcesAccounted
    OBVIOUS
  <2>1. refcnt \in [Buffer -> 0..(2 * Cardinality(Procs) + 1)]
    <3> SUFFICES ASSUME NEW b \in Buffer PROVE refcnt[b] \in 0..(2 * Cardinality(Procs) + 1)
      BY DEF IInv, LruOK
    <3>1. refcnt[b] = Cardinality(Users(b)) + Pins(b) /\ Pins(b) \in {0, 1}
      BY Counts DEF IInv, Pins
    <3> QED
      BY <3>1, UsersFinite, Constants
  <2>2. \A d \in DOMAIN info : d \in Desc /\ info[d] \in Request
    BY DEF IInv, DevTypes
  <2>3. TypeOK
    BY <2>1, <2>2 DEF IInv, TypeOK, BufTypes, BoolTypes, LruOK, DevTypes,
       ProcTypes
  <2> QED
    BY <2>3 DEF IInv, ResourcesAccounted
<1> QED
  BY <1>1, Invariance, PTL

\* No completion and no wakeup is lost between the device, virtio_disk_intr(),
\* virtio_disk_rw(), acquiresleep() and kill() (virtio_disk.c:194-252, 262-288;
\* sleeplock.c:22-41).
THEOREM NeverLost == Spec => []NothingLost
<1>1. IInv /\ TwoBuffers => NothingLost
  <2> SUFFICES ASSUME IInv, TwoBuffers PROVE NothingLost
    OBVIOUS
  <2>1. Range(used) # {} => isr \/ vdisk_lock
    <3>1. Range(<< >>) = {}
      BY DEF Range
    <3> QED
      BY <3>1 DEF IInv, IntrToCome
  <2>2. CompletionNotLost
    BY <2>1 DEF IInv, InFlight, CompletionNotLost
  <2>3. ASSUME NEW p \in Hand, pc[p] = "lock_sleep"
        PROVE  locked[buf[p]] # Other(p)
    <3>1. buf[p] \in Buffer /\ buf[p] # None
      BY <2>3, HasBuffer
    <3>2. buf[Other(p)] # buf[p]
      BY <3>1 DEF TwoBuffers
    <3> QED
      BY <3>1, <3>2, OtherHand DEF IInv, Locks
  <2>4. SleepersHaveWaker
    BY <2>3 DEF IInv, Sleepers, SleepersHaveWaker
  <2> QED
    BY <2>2, <2>4 DEF NothingLost
<1> QED
  BY <1>1, Invariance, NotTwice, PTL

-----------------------------------------------------------------------------
(***************************************************************************)
(* The console and its UART.                                               *)
(***************************************************************************)

(***************************************************************************)
(* The inductive invariant.                                                *)
(***************************************************************************)

\* cons.r, cons.w and cons.e are in this order in the ring, and a full ring can be read.
Indices ==
  /\ Minus(cons_w, cons_r) + Minus(cons_e, cons_w) = Minus(cons_e, cons_r)
  /\ Minus(cons_e, cons_r) <= INPUT_BUF
  /\ Minus(cons_e, cons_r) = INPUT_BUF => Minus(cons_w, cons_r) > 0

\* What is being edited holds no end of a line.
Editing == \A i \in 0..(Minus(cons_e, cons_w) - 1) : InputAt(cons_w + i) = "char"

ReadersWoken == \A p \in Readers : stage[p] = "read_sleep" => cons_r = cons_w

\* While consoleintr() waits for the transmitter under cons.lock, the room that
\* it found for its character stays, and so do the characters to take back.
Echoing ==
  /\ handler \in {"echo", "put"} =>
       IF intr_c \in Stored THEN echo = 1 /\ Minus(cons_e, cons_r) < INPUT_BUF
                       ELSE echo \in 1..Minus(cons_e, cons_w)
  /\ handler = "store" => intr_c \in Stored /\ Minus(cons_e, cons_r) < INPUT_BUF

\* uartputc_sync() has seen the transmitter idle; uartstart() may have filled it
\* since.
Transmitter == handler = "put" => thr <= 1

WritersWoken == \A p \in Writers : stage[p] = "write_sleep" => TxFull

OutputToCome == uart_tx_r # uart_tx_w => thr > 0 \/ irq \/ handler # "idle"

ConsoleIInv ==
  /\ ConsoleTypeOK /\ Indices /\ Editing /\ ReadersWoken /\ Echoing /\ Transmitter
  /\ WritersWoken /\ OutputToCome

(***************************************************************************)
(* Arithmetic of rings.                                                    *)
(***************************************************************************)

LEMMA ConsoleConstants ==
  /\ INPUT_BUF \in Nat /\ INPUT_BUF > 0 /\ WRAP \in Nat /\ WRAP > INPUT_BUF
  /\ WRAP > 1 /\ WRAP % INPUT_BUF = 0
  /\ UART_TX_BUF_SIZE \in Nat /\ UART_TX_BUF_SIZE > 0
  /\ TXWRAP \in Nat /\ TXWRAP > UART_TX_BUF_SIZE /\ TXWRAP > 0
  /\ ReadSizes \subseteq Nat /\ WriteSizes \subseteq Nat
  /\ MaxRx \in Nat /\ Readers \cap Writers = {}
  BY ConsoleAssumption

LEMMA DivMod ==
  ASSUME NEW s \in Nat, NEW b \in Nat, b > 0
  PROVE  /\ s % b \in 0..(b - 1)
         /\ \E q \in Nat : s = b * q + (s % b)
  <1>1. s % b \in 0..(b - 1)
    OBVIOUS
  <1>2. s \div b \in Int
    OBVIOUS
  <1>3. s = b * (s \div b) + (s % b)
    OBVIOUS
  <1>4. PICK q \in Int : q = s \div b
    BY <1>2
  <1>5. PICK x \in 0..(b - 1) : x = s % b
    BY <1>1
  <1>6. s = b * q + x
    BY <1>3, <1>4, <1>5
  <1>7. ASSUME q < 0 PROVE FALSE
    <2>1. PICK d \in Nat : q = -1 - d
      BY <1>7
    <2>2. b * q = -b - b * d /\ b * d \in Nat
      BY <2>1
    <2> QED
      BY <1>6, <2>2
  <1> QED
    BY <1>1, <1>5, <1>6, <1>7

\* Quotient and remainder are unique.
LEMMA Remainder ==
  ASSUME NEW b \in Nat, b > 0, NEW q \in Int, NEW u \in Int,
         NEW x \in 0..(b - 1), NEW y \in 0..(b - 1), b * q + x = b * u + y
  PROVE  x = y
  <1>1. b * (q - u) = y - x /\ b * (u - q) = x - y
    OBVIOUS
  <1>2. ASSUME q > u PROVE FALSE
    <2>1. PICK d \in Nat : q - u = d + 1
      BY <1>2
    <2>2. b * (d + 1) = b * d + b /\ b * d \in Nat
      OBVIOUS
    <2> QED
      BY <1>1, <2>1, <2>2
  <1>3. ASSUME u > q PROVE FALSE
    <2>1. PICK d \in Nat : u - q = d + 1
      BY <1>3
    <2>2. b * (d + 1) = b * d + b /\ b * d \in Nat
      OBVIOUS
    <2> QED
      BY <1>1, <2>1, <2>2
  <1> QED
    BY <1>1, <1>2, <1>3

\* An index that wraps at a multiple of the size keeps its place in the ring.
LEMMA WrapKeepsPlace ==
  ASSUME NEW s \in Nat, NEW v \in Nat, NEW b \in Nat, b > 0, v % b = 0
  PROVE  (s + v) % b = s % b
  <1>1. PICK m \in Nat : v = b * m
    <2>1. PICK m \in Nat : v = b * m + (v % b)
      BY DivMod
    <2> QED
      BY <2>1
  <1>2. PICK q \in Nat : s = b * q + (s % b)
    BY DivMod
  <1>3. PICK x \in 0..(b - 1) : x = s % b
    BY DivMod
  <1>4. PICK t \in Nat : t = s + v
    OBVIOUS
  <1>5. PICK u \in Nat : t = b * u + (t % b)
    BY DivMod
  <1>6. PICK y \in 0..(b - 1) : y = t % b
    BY DivMod
  <1>7. b * (q + m) = b * q + b * m
    OBVIOUS
  <1>8. b * (q + m) + x = b * u + y
    BY <1>1, <1>2, <1>3, <1>4, <1>5, <1>6, <1>7
  <1>9. x = y
    BY <1>8, Remainder
  <1> QED
    BY <1>3, <1>4, <1>6, <1>9

\* Indices less than a ring apart have different places.
LEMMA PlacesDiffer ==
  ASSUME NEW s \in Nat, NEW t \in Nat, NEW b \in Nat, b > 0, s < t, t < s + b
  PROVE  s % b # t % b
  <1> SUFFICES ASSUME s % b = t % b PROVE FALSE
    OBVIOUS
  <1>1. PICK q \in Nat : s = b * q + (s % b)
    BY DivMod
  <1>2. PICK u \in Nat : t = b * u + (t % b)
    BY DivMod
  <1>3. PICK x \in 0..(b - 1) : x = s % b
    BY DivMod
  <1>4. PICK d \in 0..(b - 1) : d = t - s
    OBVIOUS
  <1>5. b * u + 0 = b * q + d
    BY <1>1, <1>2, <1>3, <1>4
  <1>6. 0 \in 0..(b - 1)
    OBVIOUS
  <1>7. 0 = d
    BY <1>5, <1>6, Remainder
  <1> QED
    BY <1>4, <1>7

\* A sum of two indices, at most, wraps once.
LEMMA Wraps ==
  ASSUME NEW a \in Nat, NEW v \in Nat, v > 0
  PROVE  /\ a % v \in 0..(v - 1)
         /\ a < v => a % v = a
         /\ a >= v /\ a < 2 * v => a % v = a - v
  <1>1. a % v \in 0..(v - 1)
    OBVIOUS
  <1>2. a < v => a % v = a
    OBVIOUS
  <1>3. a >= v /\ a < 2 * v => a % v = a - v
    OBVIOUS
  <1> QED
    BY <1>1, <1>2, <1>3

\* How far index a is ahead of index b, of those that wrap at v.
LEMMA Distance ==
  ASSUME NEW v \in Nat, v > 0, NEW a \in 0..(v - 1), NEW b \in 0..(v - 1)
  PROVE  (a + v - b) % v = IF b <= a THEN a - b ELSE a + v - b
  <1>1. a \in Nat /\ a < v /\ b \in Nat /\ b < v
    OBVIOUS
  <1>2. PICK s \in Nat : s = a + v - b
    BY <1>1
  <1>3. /\ s < v => s % v = s
        /\ s >= v /\ s < 2 * v => s % v = s - v
    BY Wraps
  <1>4. s % v = IF b <= a THEN a - b ELSE a + v - b
    BY <1>1, <1>2, <1>3
  <1> QED
    BY <1>2, <1>4

Uint == 0..(WRAP - 1)

LEMMA MinusIs ==
  ASSUME NEW a \in Uint, NEW b \in Uint
  PROVE  /\ Minus(a, b) = IF b <= a THEN a - b ELSE a + WRAP - b
         /\ Minus(a, b) \in Uint
         /\ a = b <=> Minus(a, b) = 0
  <1>1. Minus(a, b) = IF b <= a THEN a - b ELSE a + WRAP - b
    BY Distance, ConsoleConstants DEF Uint, Minus
  <1> QED
    BY <1>1, ConsoleConstants DEF Uint

\* Index a moves k ahead, index b moves k towards a, or a goes back by one.
LEMMA Moves ==
  ASSUME NEW a \in Uint, NEW b \in Uint, NEW k \in Nat
  PROVE  /\ k < WRAP => (a + k) % WRAP \in Uint
         /\ Minus(a, b) + k < WRAP => Minus((a + k) % WRAP, b) = Minus(a, b) + k
         /\ k <= Minus(a, b) => Minus(a, (b + k) % WRAP) = Minus(a, b) - k
         /\ Minus(a, 1) \in Uint
         /\ Minus(a, b) > 0 => Minus(Minus(a, 1), b) = Minus(a, b) - 1
  <1>1. /\ a \in Nat /\ a < WRAP /\ b \in Nat /\ b < WRAP
        /\ WRAP \in Nat /\ WRAP > 1 /\ 1 \in Uint
    BY ConsoleConstants DEF Uint
  <1>2. \A s \in Nat : s < 2 * WRAP => s % WRAP \in Uint
                         /\ s % WRAP = IF s < WRAP THEN s ELSE s - WRAP
    BY Wraps, ConsoleConstants DEF Uint
  <1>3. PICK d \in Uint : d = Minus(a, b) /\ d = IF b <= a THEN a - b ELSE a + WRAP - b
    BY MinusIs
  <1>4. k < WRAP => (a + k) % WRAP \in Uint
    BY <1>1, <1>2
  <1>5. ASSUME d + k < WRAP PROVE Minus((a + k) % WRAP, b) = d + k
    <2>1. PICK s \in Nat : s = a + k /\ s < 2 * WRAP
      BY <1>1, <1>3, <1>5 DEF Uint
    <2>2. PICK v \in Uint : v = s % WRAP /\ v = IF s < WRAP THEN s ELSE s - WRAP
      BY <1>2, <2>1
    <2>3. Minus(v, b) = IF b <= v THEN v - b ELSE v + WRAP - b
      BY <2>2, MinusIs
    <2>4. Minus(v, b) = d + k
      BY <1>1, <1>3, <1>5, <2>1, <2>2, <2>3 DEF Uint
    <2> QED
      BY <2>1, <2>2, <2>4
  <1>6. ASSUME k <= d PROVE Minus(a, (b + k) % WRAP) = d - k
    <2>1. PICK s \in Nat : s = b + k /\ s < 2 * WRAP
      BY <1>1, <1>3, <1>6 DEF Uint
    <2>2. PICK v \in Uint : v = s % WRAP /\ v = IF s < WRAP THEN s ELSE s - WRAP
      BY <1>2, <2>1
    <2>3. Minus(a, v) = IF v <= a THEN a - v ELSE a + WRAP - v
      BY <2>2, MinusIs
    <2>4. Minus(a, v) = d - k
      BY <1>1, <1>3, <1>6, <2>1, <2>2, <2>3 DEF Uint
    <2> QED
      BY <2>1, <2>2, <2>4
  <1>7. Minus(a, 1) \in Uint /\ (d > 0 => Minus(Minus(a, 1), b) = d - 1)
    <2>1. PICK v \in Uint : v = Minus(a, 1) /\ v = IF 1 <= a THEN a - 1 ELSE a + WRAP - 1
      BY <1>1, MinusIs
    <2>2. Minus(v, b) = IF b <= v THEN v - b ELSE v + WRAP - b
      BY MinusIs
    <2>3. d > 0 => Minus(v, b) = d - 1
      BY <1>1, <1>3, <2>1, <2>2 DEF Uint
    <2> QED
      BY <2>1, <2>3
  <1> QED
    BY <1>3, <1>4, <1>5, <1>6, <1>7

\* The place of index a, counted from index b.
LEMMA PlaceOf ==
  ASSUME NEW a \in Uint, NEW b \in Uint
  PROVE  a % INPUT_BUF = (b + Minus(a, b)) % INPUT_BUF
  <1>1. a \in Nat /\ b \in Nat /\ WRAP \in Nat
    BY ConsoleConstants DEF Uint
  <1>2. PICK d \in Uint : d = Minus(a, b) /\ d = IF b <= a THEN a - b ELSE a + WRAP - b
    BY MinusIs
  <1>3. CASE b <= a
    <2>1. b + d = a
      BY <1>1, <1>2, <1>3 DEF Uint
    <2> QED
      BY <1>2, <2>1
  <1>4. CASE ~(b <= a)
    <2>1. b + d = a + WRAP
      BY <1>1, <1>2, <1>4 DEF Uint
    <2>2. INPUT_BUF \in Nat /\ INPUT_BUF > 0 /\ WRAP % INPUT_BUF = 0
      BY ConsoleConstants
    <2>3. (a + WRAP) % INPUT_BUF = a % INPUT_BUF
      BY <1>1, <2>2, WrapKeepsPlace, Zenon
    <2> QED
      BY <1>2, <2>1, <2>3
  <1> QED
    BY <1>3, <1>4

-----------------------------------------------------------------------------
(***************************************************************************)
(* Facts used by several steps.                                            *)
(***************************************************************************)

LEMMA Types ==
  ASSUME ConsoleTypeOK
  PROVE  /\ cons_r \in Uint /\ cons_w \in Uint /\ cons_e \in Uint
         /\ Minus(cons_w, cons_r) \in Nat /\ Minus(cons_e, cons_w) \in Nat
         /\ Minus(cons_e, cons_r) \in Nat
         /\ uart_tx_r \in 0..(TXWRAP - 1) /\ uart_tx_w \in 0..(TXWRAP - 1)
  <1>1. cons_r \in Uint /\ cons_w \in Uint /\ cons_e \in Uint
    BY DEF ConsoleTypeOK, Uint
  <1>2. Minus(cons_w, cons_r) \in Uint /\ Minus(cons_e, cons_w) \in Uint
        /\ Minus(cons_e, cons_r) \in Uint
    BY <1>1, MinusIs
  <1> QED
    BY <1>1, <1>2 DEF ConsoleTypeOK, Uint

\* What consoleread() may take is there.
LEMMA PlainBound ==
  ASSUME ConsoleTypeOK, NEW p \in Callers
  PROVE  Plain(p) \in Nat /\ Plain(p) <= Minus(cons_w, cons_r) /\ Plain(p) <= wanted[p]
  <1> DEFINE both == {Minus(cons_w, cons_r), wanted[p]}
             most == Min(both)
             ends == {i \in 0..(most - 1) : InputAt(cons_r + i) # "char"}
  <1>1. Minus(cons_w, cons_r) \in Nat /\ wanted[p] \in Nat
    BY Types DEF ConsoleTypeOK
  <1>2. both \subseteq Nat /\ both # {}
    BY <1>1
  <1>3. most \in both /\ \A y \in both : most <= y
    BY <1>2, MinInSet
  <1>4. most \in Nat /\ most <= Minus(cons_w, cons_r) /\ most <= wanted[p]
    BY <1>1, <1>3
  <1>5. Plain(p) = IF ends = {} THEN most ELSE Min(ends)
    BY DEF Plain
  <1> HIDE DEF most
  <1>6. ends \subseteq 0..(most - 1) /\ ends \subseteq Nat
    BY <1>4
  <1> HIDE DEF ends
  <1>7. ends # {} => Min(ends) \in ends
    BY <1>6, MinInSet
  <1>8. CASE ends = {}
    BY <1>4, <1>5, <1>8
  <1>9. CASE ends # {}
    <2>1. PICK x \in 0..(most - 1) : x = Min(ends)
      BY <1>6, <1>7, <1>9
    <2>2. Plain(p) = x
      BY <1>5, <1>9, <2>1
    <2>3. x \in Nat /\ x <= Minus(cons_w, cons_r) /\ x <= wanted[p]
      BY <1>1, <1>4
    <2> QED
      BY <2>2, <2>3
  <1> QED
    BY <1>8, <1>9

\* uartstart() keeps the ring's indices in range, wakes the writers when there is
\* room, and leaves output only behind a busy transmitter.
LEMMA UartStartDoes ==
  ASSUME ConsoleTypeOK, NEW v \in 0..(TXWRAP - 1),
         NEW after \in [Callers -> {"user", "read", "read_sleep", "write",
                                  "write_sleep"}],
         UartStart(v, after)
  PROVE  /\ uart_tx_r' \in 0..(TXWRAP - 1)
         /\ thr' \in 0..2 /\ irq' \in BOOLEAN
         /\ stage' \in [Callers -> {"user", "read", "read_sleep", "write",
                               "write_sleep"}]
         /\ \A p \in Callers : stage'[p] = "read_sleep" <=> after[p] = "read_sleep"
         /\ \/ stage' = after /\ uart_tx_r' = uart_tx_r
            \/ \A p \in Callers : stage'[p] # "write_sleep"
         /\ thr' = thr \/ thr' = 1
         /\ uart_tx_r' # v => thr' > 0
  <1> DEFINE waiting == (v + TXWRAP - uart_tx_r) % TXWRAP
  <1>1. uart_tx_r \in 0..(TXWRAP - 1) /\ thr \in 0..2 /\ irq \in BOOLEAN
    BY DEF ConsoleTypeOK
  <1>2. waiting = IF uart_tx_r <= v THEN v - uart_tx_r ELSE v + TXWRAP - uart_tx_r
    BY <1>1, Distance, ConsoleConstants
  <1>3. waiting \in Nat /\ waiting < TXWRAP /\ (waiting = 0 => uart_tx_r = v)
    BY <1>1, <1>2, ConsoleConstants
  <1>4. CASE /\ waiting = 0 \/ thr > 0
             /\ stage' = after
             /\ UNCHANGED <<uart_tx_r, thr, irq>>
    BY <1>1, <1>3, <1>4
  <1>5. CASE /\ thr = 0
             /\ \E k \in 1..waiting :
                  /\ uart_tx_r' = (uart_tx_r + k) % TXWRAP
                  /\ thr' = 1
                  /\ irq' = (irq \/ k > 1)
             /\ stage' = [p \in Callers |->
                         IF after[p] = "write_sleep" THEN "write" ELSE after[p]]
    <2> HIDE DEF waiting
    <2>1. PICK k \in 1..waiting : /\ uart_tx_r' = (uart_tx_r + k) % TXWRAP
                                  /\ thr' = 1
                                  /\ irq' = (irq \/ k > 1)
      BY <1>5
    <2>2. uart_tx_r + k \in Nat
      BY <1>1, <1>3
    <2>3. uart_tx_r' \in 0..(TXWRAP - 1)
      BY <2>1, <2>2, Wraps, ConsoleConstants
    <2>4. irq' \in BOOLEAN
      BY <2>1
    <2> QED
      BY <1>5, <2>1, <2>3, <2>4
  <1> QED
    BY <1>4, <1>5 DEF UartStart

(***************************************************************************)
(* The invariant holds initially and is kept by each action.               *)
(***************************************************************************)

LEMMA ConsoleInitIInv == ConsoleInit => ConsoleIInv
  <1> SUFFICES ASSUME ConsoleInit PROVE ConsoleIInv
    OBVIOUS
  <1> USE DEF ConsoleInit
  <1>1. 0 \in Uint /\ 0 \in 0..(TXWRAP - 1)
    BY ConsoleConstants DEF Uint
  <1>2. Minus(0, 0) = 0
    BY <1>1, MinusIs
  <1>3. ConsoleTypeOK
    <2>1. rx \in Seq(Chars) /\ Len(rx) <= MaxRx
      BY ConsoleConstants
    <2>2. cons_buf \in [0..(INPUT_BUF - 1) -> Stored \cup {NoChar}]
      OBVIOUS
    <2>3. /\ stage \in [Callers -> {"user", "read", "read_sleep", "write", "write_sleep"}]
          /\ wanted \in [Callers -> Nat] /\ short \in [Callers -> BOOLEAN]
      OBVIOUS
    <2>4. /\ {cons_r, cons_w, cons_e} \subseteq 0..(WRAP - 1)
          /\ {uart_tx_r, uart_tx_w} \subseteq 0..(TXWRAP - 1)
      BY <1>1 DEF Uint
    <2>5. /\ thr \in 0..2 /\ irq \in BOOLEAN
          /\ handler \in {"idle", "rx", "echo", "put", "store", "tx"}
          /\ intr_c \in Chars \cup {NoChar} /\ killed \subseteq Readers
      <3>1. thr \in 0..2
        OBVIOUS
      <3>2. irq \in BOOLEAN
        OBVIOUS
      <3>3. handler \in {"idle", "rx", "echo", "put", "store", "tx"}
        OBVIOUS
      <3>4. intr_c \in Chars \cup {NoChar}
        OBVIOUS
      <3>5. killed \subseteq Readers
        OBVIOUS
      <3> QED
        BY <3>1, <3>2, <3>3, <3>4, <3>5
    <2>6. echo \in 0..INPUT_BUF
      BY ConsoleConstants
    <2> HIDE DEF ConsoleInit
    <2> QED
      BY <2>1, <2>2, <2>3, <2>4, <2>5, <2>6 DEF ConsoleTypeOK
  <1>4. Indices
    BY <1>2, ConsoleConstants DEF Indices
  <1>5. Editing
    BY <1>2 DEF Editing
  <1>6. ReadersWoken /\ WritersWoken
    BY DEF ReadersWoken, WritersWoken, Callers
  <1>7. Echoing /\ Transmitter /\ OutputToCome
    BY DEF Echoing, Transmitter, OutputToCome
  <1> QED
    BY <1>3, <1>4, <1>5, <1>6, <1>7 DEF ConsoleIInv

\* Steps that leave the input ring alone.
LEMMA InputFrame ==
  ASSUME ConsoleIInv, UNCHANGED consVars
  PROVE  Indices' /\ Editing'
  BY DEF ConsoleIInv, Indices, Editing, InputAt, Minus, consVars

LEMMA ReadIInv ==
  ASSUME ConsoleIInv, NEW p \in Readers, NEW k \in ReadSizes, Read(p, k)
  PROVE  ConsoleIInv'
  <1> USE DEF Read
  <1>1. Indices' /\ Editing'
    BY InputFrame
  <1>2. k \in Nat /\ p \in Callers
    BY ConsoleConstants DEF Callers
  <1>3. ConsoleTypeOK'
    BY <1>2 DEF ConsoleIInv, ConsoleTypeOK, consVars, txVars, intrVars
  <1>4. ReadersWoken' /\ WritersWoken' /\ Echoing' /\ Transmitter' /\ OutputToCome'
    BY <1>2 DEF ConsoleIInv, ConsoleTypeOK, ReadersWoken, WritersWoken, Echoing, Transmitter,
                OutputToCome, TxFull, consVars, txVars, intrVars
  <1> QED
    BY <1>1, <1>3, <1>4 DEF ConsoleIInv

\* k characters leave the input ring.
LEMMA Taken ==
  ASSUME ConsoleIInv, NEW k \in Nat, k <= Minus(cons_w, cons_r), cons_r' = (cons_r + k) % WRAP,
         UNCHANGED <<cons_w, cons_e, cons_buf>>
  PROVE  Indices' /\ Editing' /\ cons_r' \in Uint /\ (cons_r = cons_w => cons_r' = cons_w)
  <1>1. /\ cons_r \in Uint /\ cons_w \in Uint /\ cons_e \in Uint
        /\ Minus(cons_w, cons_r) \in Nat /\ Minus(cons_e, cons_w) \in Nat
        /\ Minus(cons_e, cons_r) \in Nat
    BY Types DEF ConsoleIInv
  <1>2. k < WRAP
    BY <1>1, MinusIs, ConsoleConstants DEF Uint
  <1>3. cons_r' \in Uint
    BY <1>1, <1>2, Moves
  <1>4. Minus(cons_w, cons_r') = Minus(cons_w, cons_r) - k
    BY <1>1, Moves
  <1>5. Minus(cons_e, cons_r') = Minus(cons_e, cons_r) - k
    <2>1. k <= Minus(cons_e, cons_r)
      BY <1>1 DEF ConsoleIInv, Indices
    <2> QED
      BY <1>1, <2>1, Moves
  <1>6. Indices'
    BY <1>1, <1>4, <1>5, ConsoleConstants DEF ConsoleIInv, Indices, Minus
  <1>7. Editing'
    BY DEF ConsoleIInv, Editing, InputAt, Minus
  <1>8. cons_r = cons_w => cons_r' = cons_w
    <2>1. cons_r = cons_w => Minus(cons_w, cons_r') = 0
      BY <1>1, <1>4, MinusIs
    <2> QED
      BY <1>1, <1>3, <2>1, MinusIs
  <1> QED
    BY <1>3, <1>6, <1>7, <1>8

\* A read() that returns, after k characters that were there.
LEMMA ReadReturnsIInv ==
  ASSUME ConsoleIInv, NEW p \in Readers, ~ConsLocked, NEW k \in Nat, k <= Minus(cons_w, cons_r),
         ReadReturns(p, k), UNCHANGED <<cons_w, cons_e, cons_buf, txVars, thr, rx, irq, intrVars>>
  PROVE  ConsoleIInv'
  <1> USE DEF ReadReturns
  <1>1. Indices' /\ Editing' /\ cons_r' \in Uint /\ (cons_r = cons_w => cons_r' = cons_w)
    BY Taken
  <1>2. p \in Callers
    BY DEF Callers
  <1>3. ConsoleTypeOK'
    BY <1>1, <1>2 DEF ConsoleIInv, ConsoleTypeOK, txVars, intrVars, Uint
  <1>4. ReadersWoken' /\ WritersWoken'
    BY <1>1, <1>2 DEF ConsoleIInv, ConsoleTypeOK, ReadersWoken, WritersWoken, TxFull, txVars
  <1>5. Echoing' /\ Transmitter' /\ OutputToCome'
    BY DEF ConsoleIInv, Echoing, Transmitter, OutputToCome, ConsLocked, txVars, intrVars
  <1> QED
    BY <1>1, <1>3, <1>4, <1>5 DEF ConsoleIInv

LEMMA ReadEndsIInv ==
  ASSUME ConsoleIInv, NEW p \in Readers, ReadEnds(p)
  PROVE  ConsoleIInv'
  <1>1. p \in Callers
    BY DEF Callers
  <1>2. /\ Plain(p) \in Nat /\ Plain(p) <= Minus(cons_w, cons_r) /\ Plain(p) <= wanted[p]
        /\ Minus(cons_w, cons_r) \in Nat
    BY <1>1, PlainBound, Types DEF ConsoleIInv
  <1>3. PICK k \in Nat : k <= Minus(cons_w, cons_r) /\ ReadReturns(p, k)
    <2> DEFINE k == Plain(p)
    <2> HIDE DEF k
    <2>1. CASE ReadReturns(p, k)
      BY <1>2, <2>1 DEF k
    <2>2. CASE k < Minus(cons_w, cons_r) /\ ReadReturns(p, k + 1)
      BY <1>2, <2>2 DEF k
    <2>3. CASE /\ k < Minus(cons_w, cons_r)
               /\ ReadReturns(p, IF k > 0 \/ ~short[p] THEN k ELSE 1)
      BY <1>2, <2>3 DEF k
    <2>4. CASE \E j \in 1..k : ReadReturns(p, j)
      BY <1>2, <2>4 DEF k
    <2> QED
      BY <2>1, <2>2, <2>3, <2>4 DEF ReadEnds, k
  <1> QED
    BY <1>3, ReadReturnsIInv DEF ReadEnds

LEMMA ReadWaitsIInv ==
  ASSUME ConsoleIInv, NEW p \in Readers, NEW hit \in BOOLEAN, ReadWaits(p, hit)
  PROVE  ConsoleIInv'
  <1>1. p \in Callers
    BY DEF Callers
  <1>2. /\ Plain(p) \in Nat /\ Plain(p) = Minus(cons_w, cons_r) /\ Plain(p) < wanted[p]
        /\ wanted[p] \in Nat
    BY <1>1, PlainBound DEF ConsoleIInv, ConsoleTypeOK, ReadWaits
  <1>3. CASE p \in killed
    BY <1>2, <1>3, ReadReturnsIInv DEF ReadWaits
  <1>4. CASE p \notin killed
    <2>1. /\ cons_r' = cons_w
          /\ stage' = [stage EXCEPT ![p] = "read_sleep"]
          /\ wanted' = [wanted EXCEPT ![p] = @ - Plain(p)]
          /\ short' = [short EXCEPT ![p] = @ /\ Plain(p) = 0]
          /\ killed' \subseteq killed \cup {p}
          /\ UNCHANGED <<cons_w, cons_e, cons_buf, txVars, thr, rx, irq, intrVars>>
          /\ ~ConsLocked
      BY <1>4 DEF ReadWaits, KillHits
    <2>2. cons_r \in Uint /\ cons_w \in Uint /\ cons_e \in Uint
      BY Types DEF ConsoleIInv
    <2>3. Minus(cons_w, cons_r') = 0 /\ Minus(cons_e, cons_r') = Minus(cons_e, cons_w)
      BY <2>1, <2>2, MinusIs
    <2>4. Indices' /\ Editing'
      BY <1>2, <2>1, <2>2, <2>3, Types, ConsoleConstants
         DEF ConsoleIInv, Indices, Editing, InputAt, Minus
    <2>5. wanted' \in [Callers -> Nat]
      BY <1>1, <1>2, <2>1 DEF ConsoleIInv, ConsoleTypeOK
    <2>6. short' \in [Callers -> BOOLEAN]
      BY <1>1, <2>1 DEF ConsoleIInv, ConsoleTypeOK
    <2>7. ConsoleTypeOK'
      BY <1>1, <2>1, <2>2, <2>5, <2>6 DEF ConsoleIInv, ConsoleTypeOK, txVars, intrVars, Uint
    <2>8. ReadersWoken' /\ WritersWoken'
      BY <1>1, <2>1 DEF ConsoleIInv, ConsoleTypeOK, ReadersWoken, WritersWoken, TxFull, txVars
    <2>9. Echoing' /\ Transmitter' /\ OutputToCome'
      BY <2>1 DEF ConsoleIInv, Echoing, Transmitter, OutputToCome, ConsLocked, txVars,
                  intrVars
    <2> QED
      BY <2>4, <2>7, <2>8, <2>9 DEF ConsoleIInv
  <1> QED
    BY <1>3, <1>4

LEMMA KillIInv ==
  ASSUME ConsoleIInv, NEW p \in Readers, Kill(p)
  PROVE  ConsoleIInv'
  <1> USE DEF Kill, KillHits
  <1>1. Indices' /\ Editing'
    BY InputFrame
  <1>2. p \in Callers
    BY DEF Callers
  <1>3. ConsoleTypeOK'
    BY <1>2 DEF ConsoleIInv, ConsoleTypeOK, consVars, txVars, intrVars
  <1>4. ReadersWoken' /\ WritersWoken' /\ Echoing' /\ Transmitter' /\ OutputToCome'
    BY <1>2 DEF ConsoleIInv, ConsoleTypeOK, ReadersWoken, WritersWoken, Echoing, Transmitter,
                OutputToCome, TxFull, consVars, txVars, intrVars
  <1> QED
    BY <1>1, <1>3, <1>4 DEF ConsoleIInv

\* The steps of consolewrite() that leave the ring alone.
LEMMA WriteIInv ==
  ASSUME ConsoleIInv, NEW p \in Writers,
         (\E k \in WriteSizes : Write(p, k)) \/ PutSleeps(p) \/ WriteEnds(p)
  PROVE  ConsoleIInv'
  <1>1. p \in Callers /\ p \notin Readers
    BY ConsoleConstants DEF Callers
  <1>2. PICK at \in {"user", "write", "write_sleep"}, m \in Nat :
          /\ stage' = [stage EXCEPT ![p] = at] /\ wanted' = [wanted EXCEPT ![p] = m]
          /\ at = "write_sleep" => TxFull
    <2>1. CASE \E k \in WriteSizes : Write(p, k)
      BY <2>1, ConsoleConstants DEF Write
    <2>2. CASE PutSleeps(p)
      <3>1. wanted[p] \in Nat /\ wanted = [wanted EXCEPT ![p] = wanted[p]]
        BY <1>1 DEF ConsoleIInv, ConsoleTypeOK
      <3> QED
        BY <2>2, <3>1 DEF PutSleeps
    <2>3. CASE WriteEnds(p)
      BY <2>3 DEF WriteEnds
    <2> QED
      BY <2>1, <2>2, <2>3
  <1>3. UNCHANGED <<consVars, txVars, thr, rx, irq, intrVars, short, killed>>
    BY DEF Write, PutSleeps, WriteEnds
  <1>4. Indices' /\ Editing'
    BY <1>3, InputFrame
  <1>5. ConsoleTypeOK'
    BY <1>1, <1>2, <1>3 DEF ConsoleIInv, ConsoleTypeOK, consVars, txVars, intrVars
  <1>6. ReadersWoken'
    BY <1>1, <1>2, <1>3 DEF ConsoleIInv, ConsoleTypeOK, ReadersWoken, consVars, Callers
  <1>7. WritersWoken'
    BY <1>1, <1>2, <1>3 DEF ConsoleIInv, ConsoleTypeOK, WritersWoken, TxFull, txVars, Callers
  <1>8. Echoing' /\ Transmitter' /\ OutputToCome'
    BY <1>3 DEF ConsoleIInv, Echoing, Transmitter, OutputToCome, consVars, txVars, intrVars
  <1> QED
    BY <1>4, <1>5, <1>6, <1>7, <1>8 DEF ConsoleIInv

LEMMA PutCIInv ==
  ASSUME ConsoleIInv, NEW p \in Writers, PutC(p)
  PROVE  ConsoleIInv'
  <1>1. Indices' /\ Editing'
    BY InputFrame DEF PutC
  <1>2. p \in Callers /\ p \notin Readers
    BY ConsoleConstants DEF Callers
  <1>3. /\ UNCHANGED <<consVars, rx, intrVars, short, killed>>
        /\ wanted' = [wanted EXCEPT ![p] = @ - 1] /\ wanted[p] > 0 /\ wanted[p] \in Nat
        /\ ~TxFull /\ UartStart(uart_tx_w', stage)
        /\ uart_tx_w' = (uart_tx_w + 1) % TXWRAP
    BY <1>2 DEF PutC, ConsoleIInv, ConsoleTypeOK
  <1>4. uart_tx_w' \in 0..(TXWRAP - 1)
    <2>1. uart_tx_w + 1 \in Nat
      BY Types DEF ConsoleIInv
    <2> QED
      BY <1>3, <2>1, Wraps, ConsoleConstants
  <1>5. /\ uart_tx_r' \in 0..(TXWRAP - 1)
        /\ thr' \in 0..2 /\ irq' \in BOOLEAN
        /\ stage' \in [Callers -> {"user", "read", "read_sleep", "write", "write_sleep"}]
        /\ \A q \in Callers : stage'[q] = "read_sleep" <=> stage[q] = "read_sleep"
        /\ \/ stage' = stage /\ uart_tx_r' = uart_tx_r
           \/ \A q \in Callers : stage'[q] # "write_sleep"
        /\ thr' = thr \/ thr' = 1
        /\ uart_tx_r' # uart_tx_w' => thr' > 0
    BY <1>3, <1>4, UartStartDoes DEF ConsoleIInv, ConsoleTypeOK
  <1>6. wanted' \in [Callers -> Nat]
    BY <1>2, <1>3 DEF ConsoleIInv, ConsoleTypeOK
  <1>7. ConsoleTypeOK'
    BY <1>3, <1>4, <1>5, <1>6 DEF ConsoleIInv, ConsoleTypeOK, consVars, intrVars
  <1>8. ReadersWoken'
    BY <1>3, <1>5 DEF ConsoleIInv, ReadersWoken, consVars, Callers
  <1>9. WritersWoken'
    BY <1>3, <1>5 DEF ConsoleIInv, WritersWoken, Callers
  <1>10. Echoing'
    BY <1>3 DEF ConsoleIInv, Echoing, consVars, intrVars
  <1>11. Transmitter' /\ OutputToCome'
    BY <1>3, <1>5 DEF ConsoleIInv, Transmitter, OutputToCome, intrVars
  <1> QED
    BY <1>1, <1>7, <1>8, <1>9, <1>10, <1>11 DEF ConsoleIInv

\* The steps of the interrupt handler between its loops, and the device's.
LEMMA HandlerIInv ==
  ASSUME ConsoleIInv, Claim \/ EchoReady \/ NoInput \/ DeviceSends
  PROVE  ConsoleIInv'
  <1> USE DEF Claim, EchoReady, NoInput, DeviceSends
  <1>1. Indices' /\ Editing'
    BY InputFrame
  <1>2. ConsoleTypeOK'
    <2>1. handler' \in {"idle", "rx", "echo", "put", "store", "tx"}
      BY DEF ConsoleIInv, ConsoleTypeOK, intrVars
    <2>2. thr' \in 0..2
      BY DEF ConsoleIInv, ConsoleTypeOK
    <2>3. irq' = irq \/ irq' = TRUE \/ irq' = FALSE
      OBVIOUS
    <2>4. UNCHANGED <<consVars, txVars, rx, intr_c, echo, callVars, killed>>
      BY DEF intrVars
    <2> QED
      BY <2>1, <2>2, <2>3, <2>4 DEF ConsoleIInv, ConsoleTypeOK, consVars, txVars, callVars
  <1>3. ReadersWoken' /\ WritersWoken'
    BY DEF ConsoleIInv, ReadersWoken, WritersWoken, TxFull, consVars, txVars, callVars
  <1>4. Echoing'
    BY DEF ConsoleIInv, Echoing, consVars, intrVars
  <1>5. Transmitter' /\ OutputToCome'
    BY DEF ConsoleIInv, ConsoleTypeOK, Transmitter, OutputToCome, txVars, intrVars
  <1> QED
    BY <1>1, <1>2, <1>3, <1>4, <1>5 DEF ConsoleIInv

LEMMA SendMoreIInv ==
  ASSUME ConsoleIInv, SendMore
  PROVE  ConsoleIInv'
  <1>1. Indices' /\ Editing'
    BY InputFrame DEF SendMore
  <1>2. /\ UNCHANGED <<consVars, uart_tx_w, rx, intr_c, echo, wanted, short, killed>>
        /\ handler' = "idle" /\ UartStart(uart_tx_w, stage)
    BY DEF SendMore
  <1>3. /\ uart_tx_r' \in 0..(TXWRAP - 1)
        /\ thr' \in 0..2 /\ irq' \in BOOLEAN
        /\ stage' \in [Callers -> {"user", "read", "read_sleep", "write", "write_sleep"}]
        /\ \A q \in Callers : stage'[q] = "read_sleep" <=> stage[q] = "read_sleep"
        /\ \/ stage' = stage /\ uart_tx_r' = uart_tx_r
           \/ \A q \in Callers : stage'[q] # "write_sleep"
        /\ uart_tx_r' # uart_tx_w => thr' > 0
    BY <1>2, UartStartDoes, Types DEF ConsoleIInv, ConsoleTypeOK
  <1>4. ConsoleTypeOK'
    BY <1>2, <1>3 DEF ConsoleIInv, ConsoleTypeOK, consVars
  <1>5. ReadersWoken'
    BY <1>2, <1>3 DEF ConsoleIInv, ReadersWoken, consVars, Callers
  <1>6. WritersWoken'
    BY <1>2, <1>3 DEF ConsoleIInv, WritersWoken, Callers, TxFull
  <1>7. Echoing' /\ Transmitter' /\ OutputToCome'
    BY <1>2, <1>3 DEF Echoing, Transmitter, OutputToCome
  <1> QED
    BY <1>1, <1>4, <1>5, <1>6, <1>7 DEF ConsoleIInv

LEMMA DeviceReceivesIInv ==
  ASSUME ConsoleIInv, NEW ch \in Chars, DeviceReceives(ch)
  PROVE  ConsoleIInv'
  <1> USE DEF DeviceReceives
  <1>1. Indices' /\ Editing'
    BY InputFrame
  <1>2. rx' \in Seq(Chars) /\ Len(rx') <= MaxRx
    BY ConsoleConstants DEF ConsoleIInv, ConsoleTypeOK
  <1>3. ConsoleTypeOK'
    BY <1>2 DEF ConsoleIInv, ConsoleTypeOK, consVars, txVars, intrVars, callVars
  <1>4. ReadersWoken' /\ WritersWoken'
    BY DEF ConsoleIInv, ReadersWoken, WritersWoken, TxFull, consVars, txVars, callVars
  <1>5. Echoing' /\ Transmitter' /\ OutputToCome'
    BY DEF ConsoleIInv, Echoing, Transmitter, OutputToCome, consVars, txVars, intrVars
  <1> QED
    BY <1>1, <1>3, <1>4, <1>5 DEF ConsoleIInv

\* ^U takes back all that is being edited.
LEMMA KilledIs ==
  ASSUME ConsoleIInv
  PROVE  Killed = Minus(cons_e, cons_w)
  <1>1. {i \in 0..(Minus(cons_e, cons_w) - 1) : InputAt(cons_w + i) = "newline"} = {}
    BY DEF ConsoleIInv, Editing
  <1> QED
    BY <1>1 DEF Killed

LEMMA GetCIInv ==
  ASSUME ConsoleIInv, GetC
  PROVE  ConsoleIInv'
  <1> DEFINE ch == Head(rx)
  <1>1. Indices' /\ Editing'
    BY InputFrame DEF GetC
  <1>2. /\ handler = "rx" /\ rx # << >> /\ rx' = Tail(rx)
        /\ IF echo' = 0 THEN handler' = "rx" /\ intr_c' = NoChar
                        ELSE handler' = "echo" /\ intr_c' = ch
        /\ UNCHANGED <<consVars, txVars, thr, irq, callVars, killed>>
    BY DEF GetC
  <1>3. ch \in Chars /\ rx' \in Seq(Chars) /\ Len(rx') <= MaxRx
    BY <1>2, ConsoleConstants DEF ConsoleIInv, ConsoleTypeOK
  <1>4. /\ Minus(cons_w, cons_r) \in Nat /\ Minus(cons_e, cons_w) \in Nat
        /\ Minus(cons_e, cons_r) \in Nat
        /\ Minus(cons_e, cons_w) <= Minus(cons_e, cons_r) /\ Minus(cons_e, cons_r) <= INPUT_BUF
        /\ (cons_e # cons_w => Minus(cons_e, cons_w) > 0)
    BY Types, MinusIs DEF ConsoleIInv, Indices
  <1>5. /\ echo' \in 0..INPUT_BUF
        /\ echo' # 0 => IF ch \in Stored THEN echo' = 1 /\ Minus(cons_e, cons_r) < INPUT_BUF
                        ELSE echo' \in 1..Minus(cons_e, cons_w)
    <2>1. CASE ch = "kill"
      <3>1. echo' = Minus(cons_e, cons_w)
        BY <2>1, KilledIs DEF GetC
      <3> QED
        BY <1>4, <2>1, <3>1, ConsoleConstants DEF Stored
    <2>2. CASE ch = "backspace"
      <3>1. echo' = IF cons_e # cons_w THEN 1 ELSE 0
        BY <2>2 DEF GetC
      <3> QED
        BY <1>4, <2>2, <3>1, ConsoleConstants DEF Stored
    <2>3. CASE ch \in Stored
      <3>1. echo' = IF Minus(cons_e, cons_r) < INPUT_BUF THEN 1 ELSE 0
        BY <2>3 DEF GetC, Stored
      <3> QED
        BY <1>4, <2>3, <3>1, ConsoleConstants
    <2> QED
      BY <1>3, <2>1, <2>2, <2>3 DEF Chars
  <1> HIDE DEF ch
  <1>6. ConsoleTypeOK'
    BY <1>2, <1>3, <1>5 DEF ConsoleIInv, ConsoleTypeOK, consVars, txVars, callVars
  <1>7. ReadersWoken' /\ WritersWoken'
    BY <1>2 DEF ConsoleIInv, ReadersWoken, WritersWoken, TxFull, consVars, txVars, callVars
  <1>8. Echoing'
    BY <1>2, <1>5 DEF Echoing, consVars, Minus
  <1>9. Transmitter' /\ OutputToCome'
    BY <1>2 DEF Transmitter, OutputToCome
  <1> QED
    BY <1>1, <1>6, <1>7, <1>8, <1>9 DEF ConsoleIInv

LEMMA EchoPutIInv ==
  ASSUME ConsoleIInv, EchoPut
  PROVE  ConsoleIInv'
  <1>1. /\ handler = "put" /\ thr' = thr + 1 /\ echo' = echo - 1
        /\ UNCHANGED <<cons_r, cons_w, cons_buf, txVars, rx, irq, callVars, killed>>
    BY DEF EchoPut
  <1>2. thr' \in 0..2 /\ thr' > 0
    BY <1>1 DEF ConsoleIInv, ConsoleTypeOK, Transmitter
  <1>3. ReadersWoken' /\ WritersWoken'
    BY <1>1 DEF ConsoleIInv, ReadersWoken, WritersWoken, TxFull, txVars, callVars
  <1>4. /\ cons_r \in Uint /\ cons_w \in Uint /\ cons_e \in Uint
        /\ Minus(cons_w, cons_r) \in Nat /\ Minus(cons_e, cons_w) \in Nat
        /\ Minus(cons_e, cons_r) \in Nat
    BY Types DEF ConsoleIInv
  <1>5. CASE intr_c \in Stored
    <2>1. handler' = "store" /\ UNCHANGED <<cons_e, intr_c>> /\ echo' = 0
          /\ Minus(cons_e, cons_r) < INPUT_BUF
      BY <1>1, <1>5 DEF EchoPut, ConsoleIInv, Echoing
    <2>2. Indices' /\ Editing'
      BY <1>1, <2>1, InputFrame DEF consVars
    <2>3. ConsoleTypeOK'
      BY <1>1, <1>2, <2>1, ConsoleConstants DEF ConsoleIInv, ConsoleTypeOK, txVars, callVars
    <2>4. Echoing' /\ Transmitter' /\ OutputToCome'
      BY <1>1, <1>5, <2>1 DEF Echoing, Transmitter, OutputToCome, Minus
    <2> QED
      BY <1>3, <2>2, <2>3, <2>4 DEF ConsoleIInv
  <1>6. CASE intr_c \notin Stored
    <2>1. /\ cons_e' = Minus(cons_e, 1) /\ echo \in 1..Minus(cons_e, cons_w)
          /\ IF echo' = 0 THEN handler' = "rx" /\ intr_c' = NoChar
                          ELSE handler' = "echo" /\ intr_c' = intr_c
      BY <1>1, <1>6 DEF EchoPut, ConsoleIInv, Echoing
    <2>2. Minus(cons_e, cons_w) > 0 /\ Minus(cons_e, cons_r) > 0
      BY <1>4, <2>1 DEF ConsoleIInv, Indices
    <2>3. /\ cons_e' \in Uint /\ Minus(cons_e', cons_w) = Minus(cons_e, cons_w) - 1
          /\ Minus(cons_e', cons_r) = Minus(cons_e, cons_r) - 1
      BY <1>4, <2>1, <2>2, Moves
    <2>4. Indices'
      BY <1>1, <1>4, <2>2, <2>3, ConsoleConstants DEF ConsoleIInv, Indices, Minus
    <2>5. Editing'
      <3>1. \A i \in 0..(Minus(cons_e', cons_w) - 1) : i \in 0..(Minus(cons_e, cons_w) - 1)
        BY <1>4, <2>3
      <3> QED
        BY <1>1, <3>1 DEF ConsoleIInv, Editing, InputAt, Minus
    <2>6. echo' \in 0..INPUT_BUF /\ (echo' # 0 => echo' \in 1..Minus(cons_e', cons_w))
      BY <1>1, <1>4, <2>1, <2>3, ConsoleConstants DEF ConsoleIInv, Indices
    <2>7. ConsoleTypeOK'
      BY <1>1, <1>2, <2>1, <2>3, <2>6 DEF ConsoleIInv, ConsoleTypeOK, txVars, callVars, Uint
    <2>8. Echoing'
      BY <1>1, <1>6, <2>1, <2>6 DEF Echoing, Minus
    <2>9. Transmitter' /\ OutputToCome'
      BY <1>2, <2>1 DEF Transmitter, OutputToCome
    <2> QED
      BY <1>3, <2>4, <2>5, <2>7, <2>8, <2>9 DEF ConsoleIInv
  <1> QED
    BY <1>5, <1>6

\* The character goes behind what is being edited, to a place of its own.
LEMMA StoreIInv ==
  ASSUME ConsoleIInv, Store
  PROVE  ConsoleIInv'
  <1> DEFINE e1 == (cons_e + 1) % WRAP
  <1>1. /\ handler = "store" /\ cons_e' = e1
        /\ cons_buf' = [cons_buf EXCEPT ![cons_e % INPUT_BUF] = intr_c]
        /\ IF intr_c # "char" \/ e1 = (cons_r + INPUT_BUF) % WRAP
             THEN cons_w' = e1 /\ stage' = Woken("read_sleep", "read")
             ELSE UNCHANGED <<cons_w, stage>>
        /\ handler' = "rx" /\ intr_c' = NoChar
        /\ UNCHANGED <<cons_r, txVars, thr, rx, irq, echo, wanted, short, killed>>
    BY DEF Store
  <1>2. /\ cons_r \in Uint /\ cons_w \in Uint /\ cons_e \in Uint /\ cons_e \in Nat
        /\ cons_w \in Nat
        /\ Minus(cons_w, cons_r) \in Nat /\ Minus(cons_e, cons_w) \in Nat
        /\ Minus(cons_e, cons_r) \in Nat
    BY Types DEF ConsoleIInv, Uint
  <1>3. /\ intr_c \in Stored /\ Minus(cons_e, cons_r) < INPUT_BUF
        /\ Minus(cons_w, cons_r) + Minus(cons_e, cons_w) = Minus(cons_e, cons_r)
        /\ Minus(cons_e, cons_w) < INPUT_BUF
    BY <1>1, <1>2, ConsoleConstants DEF ConsoleIInv, Echoing, Indices
  <1>4. /\ e1 \in Uint /\ Minus(e1, cons_r) = Minus(cons_e, cons_r) + 1
        /\ Minus(e1, cons_w) = Minus(cons_e, cons_w) + 1
    <2>1. 1 \in Nat /\ 1 < WRAP /\ Minus(cons_e, cons_r) + 1 < WRAP
          /\ Minus(cons_e, cons_w) + 1 < WRAP
      BY <1>2, <1>3, ConsoleConstants
    <2>2. e1 \in Uint
      BY <1>2, <2>1, Moves
    <2>3. Minus(e1, cons_r) = Minus(cons_e, cons_r) + 1
      BY <1>2, <2>1, Moves
    <2>4. Minus(e1, cons_w) = Minus(cons_e, cons_w) + 1
      BY <1>2, <2>1, Moves
    <2> QED
      BY <2>2, <2>3, <2>4
  <1> HIDE DEF e1
  <1>5. cons_e % INPUT_BUF \in 0..(INPUT_BUF - 1)
    BY <1>2, Wraps, ConsoleConstants
  <1>6. cons_buf' \in [0..(INPUT_BUF - 1) -> Stored \cup {NoChar}]
    BY <1>1, <1>3, <1>5 DEF ConsoleIInv, ConsoleTypeOK
  <1>7. WritersWoken'
    BY <1>1 DEF ConsoleIInv, WritersWoken, TxFull, txVars, Woken, Callers
  <1>8. Echoing' /\ Transmitter' /\ OutputToCome'
    BY <1>1 DEF Echoing, Transmitter, OutputToCome
  <1>9. CASE intr_c # "char" \/ e1 = (cons_r + INPUT_BUF) % WRAP
    <2>1. cons_w' = e1 /\ stage' = Woken("read_sleep", "read")
      BY <1>1, <1>9
    <2>2. Minus(cons_e', cons_w') = 0 /\ Minus(cons_w', cons_r') = Minus(cons_e', cons_r')
      BY <1>1, <1>4, <2>1, MinusIs
    <2>3. Indices'
      BY <1>1, <1>2, <1>3, <1>4, <2>1, <2>2, ConsoleConstants DEF Indices, Minus
    <2>4. Editing'
      BY <2>2 DEF Editing, Minus
    <2>5. ConsoleTypeOK'
      BY <1>1, <1>4, <1>6, <2>1 DEF ConsoleIInv, ConsoleTypeOK, txVars, Woken, Uint
    <2>6. ReadersWoken'
      BY <2>1 DEF ReadersWoken, Woken, Callers
    <2> QED
      BY <1>7, <1>8, <2>3, <2>4, <2>5, <2>6 DEF ConsoleIInv
  <1>10. CASE ~(intr_c # "char" \/ e1 = (cons_r + INPUT_BUF) % WRAP)
    <2>1. UNCHANGED <<cons_w, stage>> /\ intr_c = "char" /\ e1 # (cons_r + INPUT_BUF) % WRAP
      BY <1>1, <1>10
    <2>2. Minus(e1, cons_r) # INPUT_BUF
      <3>1. Minus(cons_r, cons_r) = 0 /\ INPUT_BUF \in Nat /\ INPUT_BUF < WRAP
        BY <1>2, MinusIs, ConsoleConstants
      <3>2. PICK v \in Uint : v = (cons_r + INPUT_BUF) % WRAP /\ Minus(v, cons_r) = INPUT_BUF
        <4>1. Minus(cons_r, cons_r) + INPUT_BUF < WRAP
          BY <3>1
        <4>2. (cons_r + INPUT_BUF) % WRAP \in Uint
          BY <1>2, <3>1, Moves
        <4>3. Minus((cons_r + INPUT_BUF) % WRAP, cons_r) = Minus(cons_r, cons_r) + INPUT_BUF
          BY <1>2, <3>1, <4>1, Moves
        <4> QED
          BY <3>1, <4>2, <4>3
      <3>3. \A a, b \in Uint : Minus(a, cons_r) = Minus(b, cons_r) => a = b
        <4> TAKE a, b \in Uint
        <4>1. /\ Minus(a, cons_r) = IF cons_r <= a THEN a - cons_r ELSE a + WRAP - cons_r
              /\ Minus(b, cons_r) = IF cons_r <= b THEN b - cons_r ELSE b + WRAP - cons_r
          BY <1>2, MinusIs
        <4> QED
          BY <1>2, <4>1, ConsoleConstants DEF Uint
      <3> QED
        BY <1>4, <2>1, <3>2, <3>3
    <2>3. Indices'
      BY <1>1, <1>2, <1>3, <1>4, <2>1, <2>2, ConsoleConstants DEF Indices, Minus
    <2>4. Editing'
      <3> SUFFICES ASSUME NEW i \in 0..Minus(cons_e, cons_w) PROVE InputAt(cons_w + i)' = "char"
        <4>1. Minus(cons_e, cons_w)' = Minus(cons_e, cons_w) + 1
          BY <1>1, <1>4, <2>1 DEF Minus
        <4>2. \A i \in 0..(Minus(cons_e, cons_w)' - 1) : i \in 0..Minus(cons_e, cons_w)
          BY <1>2, <4>1
        <4> QED
          BY <2>1, <4>2 DEF Editing, InputAt
      <3>1. cons_e % INPUT_BUF = (cons_w + Minus(cons_e, cons_w)) % INPUT_BUF
        BY <1>2, PlaceOf
      <3>2. CASE i = Minus(cons_e, cons_w)
        BY <1>1, <1>5, <2>1, <3>1, <3>2 DEF InputAt, ConsoleIInv, ConsoleTypeOK
      <3>3. CASE i # Minus(cons_e, cons_w)
        <4>1. i \in 0..(Minus(cons_e, cons_w) - 1) /\ cons_w + i \in Nat
              /\ cons_w + Minus(cons_e, cons_w) \in Nat
          BY <1>2, <3>3
        <4>2. cons_w + i < cons_w + Minus(cons_e, cons_w)
              /\ cons_w + Minus(cons_e, cons_w) < cons_w + i + INPUT_BUF
          BY <1>2, <1>3, <4>1, ConsoleConstants
        <4>3. (cons_w + i) % INPUT_BUF # (cons_w + Minus(cons_e, cons_w)) % INPUT_BUF
          BY <4>1, <4>2, PlacesDiffer, ConsoleConstants
        <4>4. InputAt(cons_w + i) = "char"
          BY <4>1 DEF ConsoleIInv, Editing
        <4>5. (cons_w + i) % INPUT_BUF \in 0..(INPUT_BUF - 1)
          BY <4>1, Wraps, ConsoleConstants
        <4> QED
          BY <1>1, <2>1, <3>1, <4>3, <4>4, <4>5 DEF InputAt, ConsoleIInv, ConsoleTypeOK
      <3> QED
        BY <3>2, <3>3
    <2>5. ConsoleTypeOK'
      BY <1>1, <1>4, <1>6, <2>1 DEF ConsoleIInv, ConsoleTypeOK, txVars, Uint
    <2>6. ReadersWoken'
      BY <1>1, <2>1 DEF ConsoleIInv, ReadersWoken
    <2> QED
      BY <1>7, <1>8, <2>3, <2>4, <2>5, <2>6 DEF ConsoleIInv
  <1> QED
    BY <1>9, <1>10

LEMMA ConsoleNextIInv == ConsoleIInv /\ [ConsoleNext]_consoleVars => ConsoleIInv'
  <1> SUFFICES ASSUME ConsoleIInv, [ConsoleNext]_consoleVars PROVE ConsoleIInv'
    OBVIOUS
  <1>1. CASE UNCHANGED consoleVars
    <2> USE <1>1 DEF consoleVars, consVars, txVars, intrVars, callVars
    <2>1. ConsoleTypeOK'
      BY DEF ConsoleIInv, ConsoleTypeOK
    <2>2. Indices' /\ Editing'
      BY InputFrame
    <2> QED
      BY <2>1, <2>2 DEF ConsoleIInv, ReadersWoken, Echoing, Transmitter, WritersWoken,
                        OutputToCome, TxFull
  <1>2. CASE ConsoleNext
    <2>1. CASE \E p \in Readers, k \in ReadSizes : Read(p, k)
      BY <2>1, ReadIInv
    <2>2. CASE \E p \in Readers : ReadEnds(p) \/ Kill(p)
      BY <2>2, ReadEndsIInv, KillIInv
    <2>3. CASE \E p \in Readers, hit \in BOOLEAN : ReadWaits(p, hit)
      BY <2>3, ReadWaitsIInv
    <2>4. CASE \E p \in Writers, k \in WriteSizes : Write(p, k)
      BY <2>4, WriteIInv
    <2>5. CASE \E p \in Writers : PutSleeps(p) \/ PutC(p) \/ WriteEnds(p)
      BY <2>5, WriteIInv, PutCIInv
    <2>6. CASE Handle
      BY <2>6, HandlerIInv, GetCIInv, EchoPutIInv, StoreIInv, SendMoreIInv DEF Handle
    <2>7. CASE DeviceSends
      BY <2>7, HandlerIInv
    <2>8. CASE \E ch \in Chars : DeviceReceives(ch)
      BY <2>8, DeviceReceivesIInv
    <2> QED
      BY <1>2, <2>1, <2>2, <2>3, <2>4, <2>5, <2>6, <2>7, <2>8 DEF ConsoleNext
  <1> QED
    BY <1>1, <1>2

-----------------------------------------------------------------------------
\* The inductive invariant holds in every reachable state of the console.
THEOREM ConsoleInvariance == ConsoleSpec => []ConsoleIInv
  <1> QED
    BY ConsoleInitIInv, ConsoleNextIInv, PTL DEF ConsoleSpec

\* What consoleintr() stores and takes back and what consoleread() takes never
\* meet in cons.buf, through every wrap of the indices (console.c:80-127,
\* 136-179); a full buffer and a finished line can be read, and no reader sleeps
\* on input that is there.
THEOREM InputIsReadable == ConsoleSpec => []InputReadable
  <1>1. ConsoleIInv => InputReadable
    BY DEF ConsoleIInv, InputReadable, Indices, Editing, ReadersWoken
  <1> QED
    BY <1>1, ConsoleInvariance, PTL

\* No writer sleeps in uartputc() while uart_tx_buf has room, and output that is
\* left there is behind a busy transmitter, an interrupt that is pending or the
\* handler (uart.c:87-162, 180-193), though consoleintr() writes to the
\* transmitter without uart_tx_lock.
THEOREM OutputIsSent == ConsoleSpec => []OutputMoves
  <1>1. ConsoleIInv => OutputMoves
    BY DEF ConsoleIInv, OutputMoves, WritersWoken, OutputToCome
  <1> QED
    BY <1>1, ConsoleInvariance, PTL
=============================================================================
