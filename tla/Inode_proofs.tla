---------------------------- MODULE Inode_proofs ----------------------------
(***************************************************************************)
(* Proofs about Inode, for any number of processes, inodes, blocks and     *)
(* names and, but for NeverStopped, any paths, ".." included.              *)
(*                                                                         *)
(* RefsExact counts pointers of all kinds over all processes.  A step      *)
(* moves the pointers of one process only, so it is enough to compare what *)
(* that process holds before and after with the change of ip->ref; this    *)
(* needs to know which fields of a call hold an inode at which label       *)
(* (IInv).  The file system (FInv) is built on it: an inode is freed with  *)
(* its last reference, so nobody else points to it.                        *)
(***************************************************************************)
EXTENDS Inode, FiniteSetTheorems, SequenceTheorems, WellFoundedInduction, TLAPS

EntryNames == Names \cup {".."}

Labels == {"idle", "walk", "target", "parent", "child", "unlinked", "exists",
           "locked", "undo", "full"}

\* op[p], with the inodes it points to.
OpRec == [call : Calls \cup {"none"}, path : Seq(EntryNames),
          new : Seq(EntryNames), at : Inum \cup {None}, ip : Inum \cup {None}]

\* The part of TypeOK that the pointers depend on.
Tables ==
  /\ ents \in [Inum -> [EntryNames -> Inum \cup {None}]]
  /\ cwd \in [Procs -> Inum]
  /\ fd \in [Procs -> Inum \cup {None}]
  /\ op \in [Procs -> OpRec]
  /\ pc \in [Procs -> Labels]
  /\ puts \in [Procs -> Seq(Inum)]
  /\ \A p \in Procs : Len(puts[p]) <= 2

\* Where a call with the record o may be.
OpAt(o, l) ==
  /\ l \in {"walk", "target", "parent", "child"} => o.at # None
  /\ l \in {"idle", "unlinked", "exists", "locked", "undo"} => o.at = None
  /\ l \in {"undo", "child", "unlinked", "exists", "locked"} => o.ip # None
  /\ l \in {"idle", "target"} => o.ip = None
  /\ l \in {"walk", "parent", "child"} => o.path # << >>
  /\ l \in {"walk", "parent"} => (o.ip # None => o.call = "link")
  /\ l = "parent" => WantsParent(o)
  /\ l \in {"walk", "target"} /\ o.call = "link" /\ o.ip = None => o.new # << >>

CallsAt == \A p \in Procs : OpAt(op[p], pc[p])

IInv == Tables /\ CallsAt /\ ref \in [Inum -> Nat] /\ RefsExact

-----------------------------------------------------------------------------
\* One if the pointer x is i.
Is(x, i) == IF x = i THEN 1 ELSE 0

\* The pointers to i among the inodes to put.
InPuts(s, i) == (IF 1 <= Len(s) /\ s[1] = i THEN 1 ELSE 0)
                + (IF 2 <= Len(s) /\ s[2] = i THEN 1 ELSE 0)

\* The pointers to i of a process.
Holds(c, f, o, s, i) ==
  Is(c, i) + Is(f, i) + Is(o.at, i) + Is(o.ip, i) + InPuts(s, i)

CwdAt(i) == {p \in Procs : cwd[p] = i}
FdAt(i) == {p \in Procs : fd[p] = i}
AtAt(i) == {p \in Procs : op[p].at = i}
IpAt(i) == {p \in Procs : op[p].ip = i}
PutsAt(i) == {x \in Procs \X (1..2) :
                x[2] <= Len(puts[x[1]]) /\ puts[x[1]][x[2]] = i}

LEMMA Constants ==
  /\ NINODES \in Nat /\ NINODES > 0 /\ IsFiniteSet(Procs)
  /\ ROOTINO \in Inum /\ None \notin Inum /\ Inum \subseteq Nat
  /\ \A p \in Procs : CallsOf[p] \subseteq Calls
  /\ \A path \in Paths : path \in Seq(EntryNames) /\ path # << >>
  BY InodeAssumption DEF Inum, ROOTINO, None, EntryNames

\* A set of naturals that is not empty has a least element.
LEMMA MinInSet ==
  ASSUME NEW S, S \subseteq Nat, S # {}
  PROVE  Min(S) \in S
<1> DEFINE R == {ss \in Nat \X Nat : ss[1] < ss[2]}
<1>1. IsWellFoundedOn(R, Nat)
  BY NatLessThanWellFounded, Zenon DEF OpToRel
<1>2. PICK x \in S : \A y \in S : ~(<<y, x>> \in R)
  BY <1>1, WFMin, Zenon
<1>3. \A y \in S : x <= y
  <2> TAKE y \in S
  <2>1. x \in Nat /\ y \in Nat
    OBVIOUS
  <2>2. ~(y < x)
    BY <1>2, <2>1
  <2> QED
    BY <2>1, <2>2
<1> QED
  BY <1>3 DEF Min

\* Two sets that differ in one element at most.
LEMMA OneMoves ==
  ASSUME NEW X, IsFiniteSet(X), NEW S \in SUBSET X, NEW T \in SUBSET X, NEW e \in X,
         \A x \in X : x # e => (x \in S <=> x \in T)
  PROVE  /\ Cardinality(S) \in Nat /\ Cardinality(T) \in Nat
         /\ Cardinality(T) + (IF e \in S THEN 1 ELSE 0)
              = Cardinality(S) + (IF e \in T THEN 1 ELSE 0)
<1>1. IsFiniteSet(S) /\ IsFiniteSet(T)
  BY FS_Subset
<1>2. Cardinality(S) \in Nat /\ Cardinality(T) \in Nat
  BY <1>1, FS_CardinalityType
<1>3. CASE e \in S /\ e \notin T
  <2>1. T = S \ {e}
    BY <1>3
  <2> QED
    BY <1>1, <1>2, <1>3, <2>1, FS_RemoveElement
<1>4. CASE e \notin S /\ e \in T
  <2>1. T = S \cup {e}
    BY <1>4
  <2> QED
    BY <1>1, <1>2, <1>4, <2>1, FS_AddElement
<1>5. CASE e \in S <=> e \in T
  <2>1. T = S
    BY <1>5
  <2> QED
    BY <1>2, <1>5, <2>1
<1> QED
  BY <1>3, <1>4, <1>5

LEMMA CountsAre == RefsExact <=>
  \A i \in Inum :
    ref[i] = Cardinality(CwdAt(i)) + Cardinality(FdAt(i)) + Cardinality(AtAt(i))
             + Cardinality(IpAt(i)) + Cardinality(PutsAt(i))
  BY DEF RefsExact, CwdAt, FdAt, AtAt, IpAt, PutsAt

\* The pointers in puts when those of one process change.
LEMMA PutsMove ==
  ASSUME Tables, Tables', NEW p \in Procs, NEW i \in Inum,
         \A q \in Procs : q # p => puts'[q] = puts[q]
  PROVE  /\ Cardinality(PutsAt(i)) \in Nat /\ Cardinality(PutsAt(i)') \in Nat
         /\ Cardinality(PutsAt(i)') + InPuts(puts[p], i)
              = Cardinality(PutsAt(i)) + InPuts(puts'[p], i)
<1> DEFINE X == Procs \X (1..2)
           M == (PutsAt(i) \ {<<p, 1>>}) \cup (PutsAt(i)' \cap {<<p, 1>>})
<1>1. IsFiniteSet(X)
  <2>1. 1 \in Int /\ 2 \in Int
    OBVIOUS
  <2>2. IsFiniteSet(1..2)
    BY <2>1, FS_Interval, Zenon
  <2>3. IsFiniteSet(Procs)
    BY Constants
  <2> QED
    BY <2>2, <2>3, FS_Product, Zenon
<1>2. PutsAt(i) \in SUBSET X /\ PutsAt(i)' \in SUBSET X /\ M \in SUBSET X
  BY DEF PutsAt
<1>3. <<p, 1>> \in X /\ <<p, 2>> \in X
  OBVIOUS
<1>4. \A x \in X : x # <<p, 1>> /\ x # <<p, 2>> => (x \in PutsAt(i) <=> x \in PutsAt(i)')
  <2> TAKE x \in X
  <2>1. PICK q \in Procs, k \in 1..2 : x = <<q, k>>
    OBVIOUS
  <2>2. x[1] = q /\ x[2] = k
    BY <2>1
  <2>3. x # <<p, 1>> /\ x # <<p, 2>> => q # p
    BY <2>1
  <2> QED
    BY <2>2, <2>3 DEF PutsAt
<1>5. \A x \in X : x # <<p, 1>> => (x \in PutsAt(i) <=> x \in M)
  OBVIOUS
<1>6. \A x \in X : x # <<p, 2>> => (x \in M <=> x \in PutsAt(i)')
  BY <1>4
<1>7. /\ Cardinality(PutsAt(i)) \in Nat /\ Cardinality(M) \in Nat
      /\ Cardinality(M) + (IF <<p, 1>> \in PutsAt(i) THEN 1 ELSE 0)
           = Cardinality(PutsAt(i)) + (IF <<p, 1>> \in M THEN 1 ELSE 0)
  <2> HIDE DEF X, M
  <2> QED
    BY <1>1, <1>2, <1>3, <1>5, OneMoves
<1>8. /\ Cardinality(PutsAt(i)') \in Nat
      /\ Cardinality(PutsAt(i)') + (IF <<p, 2>> \in M THEN 1 ELSE 0)
           = Cardinality(M) + (IF <<p, 2>> \in PutsAt(i)' THEN 1 ELSE 0)
  <2> HIDE DEF X, M
  <2> QED
    BY <1>1, <1>2, <1>3, <1>6, OneMoves
<1>9. /\ <<p, 1>> \in M <=> <<p, 1>> \in PutsAt(i)'
      /\ <<p, 2>> \in M <=> <<p, 2>> \in PutsAt(i)
  OBVIOUS
<1>10. /\ <<p, 1>> \in PutsAt(i) <=> 1 <= Len(puts[p]) /\ puts[p][1] = i
       /\ <<p, 2>> \in PutsAt(i) <=> 2 <= Len(puts[p]) /\ puts[p][2] = i
       /\ <<p, 1>> \in PutsAt(i)' <=> 1 <= Len(puts'[p]) /\ puts'[p][1] = i
       /\ <<p, 2>> \in PutsAt(i)' <=> 2 <= Len(puts'[p]) /\ puts'[p][2] = i
  BY <1>3 DEF PutsAt
<1> HIDE DEF M
<1> QED
  BY <1>7, <1>8, <1>9, <1>10 DEF InPuts

\* A step that moves the pointers of process p keeps the counts exact if
\* ip->ref follows what p holds.
LEMMA StepIInv ==
  ASSUME IInv, NEW p \in Procs, Tables', ref' \in [Inum -> Int],
         OpAt(op'[p], pc'[p]),
         \A q \in Procs : q # p => /\ cwd'[q] = cwd[q] /\ fd'[q] = fd[q]
                                   /\ op'[q] = op[q] /\ pc'[q] = pc[q]
                                   /\ puts'[q] = puts[q],
         \A i \in Inum : ref'[i] + Holds(cwd[p], fd[p], op[p], puts[p], i)
                           = ref[i] + Holds(cwd'[p], fd'[p], op'[p], puts'[p], i)
  PROVE  IInv'
<1>1. CallsAt'
  BY DEF IInv, CallsAt
<1>2. ASSUME NEW i \in Inum
      PROVE  /\ ref'[i] \in Nat
             /\ ref'[i] = Cardinality(CwdAt(i)') + Cardinality(FdAt(i)')
                  + Cardinality(AtAt(i)') + Cardinality(IpAt(i)')
                  + Cardinality(PutsAt(i)')
  <2>0. IsFiniteSet(Procs)
    BY Constants
  <2>1. /\ Cardinality(CwdAt(i)) \in Nat /\ Cardinality(CwdAt(i)') \in Nat
        /\ Cardinality(CwdAt(i)') + Is(cwd[p], i) = Cardinality(CwdAt(i)) + Is(cwd'[p], i)
    <3>1. CwdAt(i) \in SUBSET Procs /\ CwdAt(i)' \in SUBSET Procs
      BY DEF CwdAt
    <3>2. \A q \in Procs : q # p => (q \in CwdAt(i) <=> q \in CwdAt(i)')
      BY DEF CwdAt
    <3>3. (p \in CwdAt(i) <=> cwd[p] = i) /\ (p \in CwdAt(i)' <=> cwd'[p] = i)
      BY DEF CwdAt
    <3> QED
      BY <2>0, <3>1, <3>2, <3>3, OneMoves DEF Is
  <2>2. /\ Cardinality(FdAt(i)) \in Nat /\ Cardinality(FdAt(i)') \in Nat
        /\ Cardinality(FdAt(i)') + Is(fd[p], i) = Cardinality(FdAt(i)) + Is(fd'[p], i)
    <3>1. FdAt(i) \in SUBSET Procs /\ FdAt(i)' \in SUBSET Procs
      BY DEF FdAt
    <3>2. \A q \in Procs : q # p => (q \in FdAt(i) <=> q \in FdAt(i)')
      BY DEF FdAt
    <3>3. (p \in FdAt(i) <=> fd[p] = i) /\ (p \in FdAt(i)' <=> fd'[p] = i)
      BY DEF FdAt
    <3> QED
      BY <2>0, <3>1, <3>2, <3>3, OneMoves DEF Is
  <2>3. /\ Cardinality(AtAt(i)) \in Nat /\ Cardinality(AtAt(i)') \in Nat
        /\ Cardinality(AtAt(i)') + Is(op[p].at, i) = Cardinality(AtAt(i)) + Is(op'[p].at, i)
    <3>1. AtAt(i) \in SUBSET Procs /\ AtAt(i)' \in SUBSET Procs
      BY DEF AtAt
    <3>2. \A q \in Procs : q # p => (q \in AtAt(i) <=> q \in AtAt(i)')
      BY DEF AtAt
    <3>3. (p \in AtAt(i) <=> op[p].at = i) /\ (p \in AtAt(i)' <=> op'[p].at = i)
      BY DEF AtAt
    <3> QED
      BY <2>0, <3>1, <3>2, <3>3, OneMoves DEF Is
  <2>4. /\ Cardinality(IpAt(i)) \in Nat /\ Cardinality(IpAt(i)') \in Nat
        /\ Cardinality(IpAt(i)') + Is(op[p].ip, i) = Cardinality(IpAt(i)) + Is(op'[p].ip, i)
    <3>1. IpAt(i) \in SUBSET Procs /\ IpAt(i)' \in SUBSET Procs
      BY DEF IpAt
    <3>2. \A q \in Procs : q # p => (q \in IpAt(i) <=> q \in IpAt(i)')
      BY DEF IpAt
    <3>3. (p \in IpAt(i) <=> op[p].ip = i) /\ (p \in IpAt(i)' <=> op'[p].ip = i)
      BY DEF IpAt
    <3> QED
      BY <2>0, <3>1, <3>2, <3>3, OneMoves DEF Is
  <2>5. /\ Cardinality(PutsAt(i)) \in Nat /\ Cardinality(PutsAt(i)') \in Nat
        /\ Cardinality(PutsAt(i)') + InPuts(puts[p], i)
             = Cardinality(PutsAt(i)) + InPuts(puts'[p], i)
    BY PutsMove DEF IInv
  <2>6. ref[i] = Cardinality(CwdAt(i)) + Cardinality(FdAt(i)) + Cardinality(AtAt(i))
                 + Cardinality(IpAt(i)) + Cardinality(PutsAt(i))
    BY CountsAre DEF IInv
  <2>7. ref'[i] + Holds(cwd[p], fd[p], op[p], puts[p], i)
          = ref[i] + Holds(cwd'[p], fd'[p], op'[p], puts'[p], i)
    OBVIOUS
  <2>8. /\ Is(cwd[p], i) \in Nat /\ Is(cwd'[p], i) \in Nat
        /\ Is(fd[p], i) \in Nat /\ Is(fd'[p], i) \in Nat
        /\ Is(op[p].at, i) \in Nat /\ Is(op'[p].at, i) \in Nat
        /\ Is(op[p].ip, i) \in Nat /\ Is(op'[p].ip, i) \in Nat
        /\ InPuts(puts[p], i) \in Nat /\ InPuts(puts'[p], i) \in Nat
    BY DEF Is, InPuts
  <2>9. ref'[i] \in Int /\ ref[i] \in Nat
    BY DEF IInv
  <2> QED
    BY <2>1, <2>2, <2>3, <2>4, <2>5, <2>6, <2>7, <2>8, <2>9 DEF Holds
<1>3. RefsExact'
  BY <1>2 DEF RefsExact, CwdAt, FdAt, AtAt, IpAt, PutsAt
<1>4. ref' \in [Inum -> Nat]
  BY <1>2
<1> QED
  BY <1>1, <1>3, <1>4 DEF IInv

-----------------------------------------------------------------------------
\* What Goto() leaves.
LEMMA GotoIs ==
  ASSUME Tables, NEW p \in Procs, NEW l \in Labels, NEW ps \in Seq(Inum), Len(ps) <= 2,
         Goto(p, l, ps)
  PROVE  /\ pc' \in [Procs -> Labels] /\ puts' \in [Procs -> Seq(Inum)]
         /\ \A q \in Procs : Len(puts'[q]) <= 2
         /\ pc'[p] = l /\ puts'[p] = ps
         /\ \A q \in Procs : q # p => pc'[q] = pc[q] /\ puts'[q] = puts[q]
  BY DEF Goto, Tables

LEMMA NoOpIs == NoOp \in OpRec /\ NoOp.at = None /\ NoOp.ip = None /\ OpAt(NoOp, "idle")
  BY DEF NoOp, OpRec, OpAt

\* What Return() leaves.
LEMMA ReturnIs ==
  ASSUME Tables, NEW p \in Procs, NEW ps \in Seq(Inum), Len(ps) <= 2, Return(p, ps)
  PROVE  /\ pc' \in [Procs -> Labels] /\ puts' \in [Procs -> Seq(Inum)]
         /\ \A q \in Procs : Len(puts'[q]) <= 2
         /\ op' \in [Procs -> OpRec]
         /\ op'[p].at = None /\ op'[p].ip = None /\ puts'[p] = ps
         /\ OpAt(op'[p], pc'[p])
         /\ \A q \in Procs : q # p => /\ pc'[q] = pc[q] /\ puts'[q] = puts[q]
                                      /\ op'[q] = op[q]
<1>1. Goto(p, "idle", ps) /\ op' = [op EXCEPT ![p] = NoOp]
  BY DEF Return
<1>2. op'[p] = NoOp /\ op' \in [Procs -> OpRec] /\ \A q \in Procs : q # p => op'[q] = op[q]
  BY <1>1, NoOpIs DEF Tables
<1>3. "idle" \in Labels
  BY DEF Labels
<1> QED
  BY <1>1, <1>2, <1>3, NoOpIs, GotoIs

\* Seq() of the inodes to put.
LEMMA PutsAre ==
  /\ << >> \in Seq(Inum) /\ Len(<< >>) = 0
  /\ \A i \in Inum : <<i>> \in Seq(Inum) /\ Len(<<i>>) = 1 /\ <<i>>[1] = i
  /\ \A i, j \in Inum : /\ <<i, j>> \in Seq(Inum) /\ Len(<<i, j>>) = 2
                        /\ <<i, j>>[1] = i /\ <<i, j>>[2] = j
  OBVIOUS

LEMMA IsCount ==
  /\ \A x, j : Is(x, j) \in {0, 1}
  /\ \A j \in Inum : Is(None, j) = 0
  /\ \A j : InPuts(<< >>, j) = 0
  /\ \A x \in Inum : \A j : InPuts(<<x>>, j) = Is(x, j)
  /\ \A x, y \in Inum : \A j : InPuts(<<x, y>>, j) = Is(x, j) + Is(y, j)
  BY Constants DEF Is, InPuts

LEMMA RefIs ==
  ASSUME IInv
  PROVE  ref \in [Inum -> Int] /\ \A j \in Inum : ref[j] \in Nat
  BY DEF IInv

\* iget() of x, or no iget() at all.
Got(x) == IF x = None THEN UNCHANGED ref ELSE Iget(x)

LEMMA GotIs ==
  ASSUME IInv, NEW x \in Inum \cup {None}, Got(x)
  PROVE  ref' \in [Inum -> Int] /\ \A i \in Inum : ref'[i] = ref[i] + Is(x, i)
<1>1. CASE x = None
  BY <1>1, RefIs, Constants DEF Got, Is
<1>2. CASE x \in Inum
  BY <1>2, RefIs, Constants DEF Got, Is, Iget
<1> QED
  BY <1>1, <1>2

\* A call that ends: what it pointed to is put, or is a descriptor or a
\* directory now.
LEMMA ReturnIInv ==
  ASSUME IInv, NEW p \in Procs, NEW ps \in Seq(Inum), Len(ps) <= 2, Return(p, ps),
         cwd' \in [Procs -> Inum], fd' \in [Procs -> Inum \cup {None}],
         ents' \in [Inum -> [EntryNames -> Inum \cup {None}]],
         ref' \in [Inum -> Int], puts[p] = << >>,
         \A q \in Procs : q # p => cwd'[q] = cwd[q] /\ fd'[q] = fd[q],
         \A i \in Inum :
           ref'[i] + (Is(cwd[p], i) + Is(fd[p], i) + Is(op[p].at, i) + Is(op[p].ip, i))
             = ref[i] + (Is(cwd'[p], i) + Is(fd'[p], i) + InPuts(ps, i))
  PROVE  IInv'
<1>0. Tables
  BY DEF IInv
<1>1. /\ pc' \in [Procs -> Labels] /\ puts' \in [Procs -> Seq(Inum)]
      /\ \A q \in Procs : Len(puts'[q]) <= 2
      /\ op' \in [Procs -> OpRec]
      /\ op'[p].at = None /\ op'[p].ip = None /\ puts'[p] = ps
      /\ OpAt(op'[p], pc'[p])
      /\ \A q \in Procs : q # p => /\ pc'[q] = pc[q] /\ puts'[q] = puts[q]
                                   /\ op'[q] = op[q]
  BY <1>0, ReturnIs
<1>2. Tables'
  BY <1>1 DEF Tables
<1>3. ASSUME NEW i \in Inum
      PROVE  ref'[i] + Holds(cwd[p], fd[p], op[p], puts[p], i)
               = ref[i] + Holds(cwd'[p], fd'[p], op'[p], puts'[p], i)
  <2>1. Is(op'[p].at, i) = 0 /\ Is(op'[p].ip, i) = 0
    BY <1>1, Constants DEF Is
  <2>2. InPuts(puts[p], i) = 0
    BY DEF InPuts
  <2>3. /\ Is(cwd[p], i) \in Nat /\ Is(cwd'[p], i) \in Nat
        /\ Is(fd[p], i) \in Nat /\ Is(fd'[p], i) \in Nat
        /\ Is(op[p].at, i) \in Nat /\ Is(op[p].ip, i) \in Nat /\ InPuts(ps, i) \in Nat
    <3>1. InPuts(ps, i) \in Nat
      BY DEF InPuts
    <3>2. \A x : Is(x, i) \in Nat
      BY DEF Is
    <3> QED
      BY <3>1, <3>2
  <2>4. InPuts(puts'[p], i) = InPuts(ps, i)
    BY <1>1
  <2>5. Holds(cwd[p], fd[p], op[p], puts[p], i)
          = Is(cwd[p], i) + Is(fd[p], i) + Is(op[p].at, i) + Is(op[p].ip, i)
    BY <2>2, <2>3 DEF Holds
  <2>6. Holds(cwd'[p], fd'[p], op'[p], puts'[p], i)
          = Is(cwd'[p], i) + Is(fd'[p], i) + InPuts(ps, i)
    BY <2>1, <2>3, <2>4 DEF Holds
  <2> QED
    BY <2>5, <2>6
<1> QED
  BY <1>1, <1>2, <1>3, StepIInv

\* Process p goes on at label l with record o, and puts the inodes in ps first.
Moves(p, l, o, ps) ==
  /\ puts[p] = << >> /\ Goto(p, l, ps) /\ op' = [op EXCEPT ![p] = o]
  /\ UNCHANGED <<cwd, fd>> /\ ents' \in [Inum -> [EntryNames -> Inum \cup {None}]]

IsPuts(ps) == ps \in Seq(Inum) /\ Len(ps) <= 2

\* What was got and what the record held is in the new record or to be put.
Balanced(got, o, new, ps) ==
  \A i \in Inum : Is(got, i) + Is(o.at, i) + Is(o.ip, i)
                    = Is(new.at, i) + Is(new.ip, i) + InPuts(ps, i)

\* A call that goes on: the working directory and the descriptor stay.
LEMMA GotoIInv ==
  ASSUME IInv, NEW p \in Procs, NEW l \in Labels, NEW o \in OpRec, NEW ps, IsPuts(ps),
         Moves(p, l, o, ps), OpAt(o, l),
         NEW got \in Inum \cup {None}, Got(got), Balanced(got, op[p], o, ps)
  PROVE  IInv'
<1>0. Tables /\ ps \in Seq(Inum) /\ Len(ps) <= 2
  BY DEF IInv, IsPuts
<1> USE DEF Moves
<1>1. /\ pc' \in [Procs -> Labels] /\ puts' \in [Procs -> Seq(Inum)]
      /\ \A q \in Procs : Len(puts'[q]) <= 2
      /\ pc'[p] = l /\ puts'[p] = ps
      /\ \A q \in Procs : q # p => pc'[q] = pc[q] /\ puts'[q] = puts[q]
  BY <1>0, GotoIs
<1>2. /\ op' \in [Procs -> OpRec] /\ op'[p] = o
      /\ \A q \in Procs : q # p => op'[q] = op[q]
  BY <1>0 DEF Tables
<1>3. Tables'
  BY <1>0, <1>1, <1>2 DEF Tables
<1>4. ASSUME NEW i \in Inum
      PROVE  ref'[i] + Holds(cwd[p], fd[p], op[p], puts[p], i)
               = ref[i] + Holds(cwd'[p], fd'[p], op'[p], puts'[p], i)
  <2>1. InPuts(puts[p], i) = 0
    BY DEF InPuts
  <2>2. /\ Is(cwd[p], i) \in Nat /\ Is(fd[p], i) \in Nat
        /\ Is(op[p].at, i) \in Nat /\ Is(op[p].ip, i) \in Nat
        /\ Is(o.at, i) \in Nat /\ Is(o.ip, i) \in Nat /\ InPuts(ps, i) \in Nat
    BY DEF Is, InPuts
  <2>4. PICK c \in Nat, f \in Nat : c = Is(cwd[p], i) /\ f = Is(fd[p], i)
    BY <2>2
  <2>5. PICK a \in Nat, b \in Nat : a = Is(op[p].at, i) /\ b = Is(op[p].ip, i)
    BY <2>2
  <2>6. PICK x \in Nat, y \in Nat, z \in Nat :
          x = Is(o.at, i) /\ y = Is(o.ip, i) /\ z = InPuts(ps, i)
    BY <2>2
  <2>7. PICK r \in Int, s \in Int, g \in Nat :
          r = ref[i] /\ s = ref'[i] /\ g = Is(got, i) /\ s = r + g
    BY RefIs, GotIs DEF Is
  <2>8. Holds(cwd[p], fd[p], op[p], puts[p], i) = c + f + a + b
    BY <2>1, <2>4, <2>5 DEF Holds
  <2>9. Holds(cwd'[p], fd'[p], op'[p], puts'[p], i) = c + f + x + y + z
    BY <1>1, <1>2, <2>4, <2>6 DEF Holds
  <2>10. g + a + b = x + y + z
    BY <2>5, <2>6, <2>7 DEF Balanced
  <2>11. s = r + g
    BY <2>7
  <2>12. s + (c + f + a + b) = r + (c + f + x + y + z)
    BY <2>10, <2>11
  <2> QED
    BY <2>7, <2>8, <2>9, <2>12
<1>5. ref' \in [Inum -> Int]
  BY GotIs
<1> QED
  BY <1>1, <1>2, <1>3, <1>4, <1>5, StepIInv

\* Nothing that points to an inode changes.
LEMMA StutterIInv ==
  ASSUME IInv, UNCHANGED <<ref, cwd, fd, op, pc, puts>>,
         ents' \in [Inum -> [EntryNames -> Inum \cup {None}]]
  PROVE  IInv'
  BY DEF IInv, Tables, CallsAt, RefsExact

LEMMA InitIInv == Init => IInv
<1> SUFFICES ASSUME Init PROVE IInv
  OBVIOUS
<1> USE DEF Init
<1>1. Tables
  <2>1. ents \in [Inum -> [EntryNames -> Inum \cup {None}]]
    BY Constants DEF NoEnts, EntryNames
  <2> QED
    BY <2>1, Constants, NoOpIs DEF Tables, Labels
<1>2. CallsAt
  BY NoOpIs DEF CallsAt
<1>3. Cardinality(Procs) \in Nat /\ Cardinality({}) = 0
  BY Constants, FS_CardinalityType, FS_EmptySet
<1>4. \A i \in Inum : /\ CwdAt(i) = IF i = ROOTINO THEN Procs ELSE {}
                      /\ FdAt(i) = {} /\ AtAt(i) = {} /\ IpAt(i) = {} /\ PutsAt(i) = {}
  BY Constants, NoOpIs DEF CwdAt, FdAt, AtAt, IpAt, PutsAt
<1>5. RefsExact
  <2>1. \A i \in Inum : ref[i] = Cardinality(CwdAt(i)) + Cardinality(FdAt(i))
          + Cardinality(AtAt(i)) + Cardinality(IpAt(i)) + Cardinality(PutsAt(i))
    <3> TAKE i \in Inum
    <3>1. ref[i] = IF i = ROOTINO THEN Cardinality(Procs) ELSE 0
      OBVIOUS
    <3>2. Cardinality(CwdAt(i)) = ref[i]
      BY <1>3, <1>4, <3>1
    <3>3. /\ Cardinality(FdAt(i)) = 0 /\ Cardinality(AtAt(i)) = 0
          /\ Cardinality(IpAt(i)) = 0 /\ Cardinality(PutsAt(i)) = 0
      BY <1>3, <1>4
    <3> QED
      BY <1>3, <3>1, <3>2, <3>3
  <2> QED
    BY <2>1, CountsAre
<1> QED
  BY <1>1, <1>2, <1>3, <1>5 DEF IInv

-----------------------------------------------------------------------------
LEMMA OpIs ==
  ASSUME IInv, NEW p \in Procs
  PROVE  /\ op[p] \in OpRec /\ OpAt(op[p], pc[p])
         /\ op[p].at \in Inum \cup {None} /\ op[p].ip \in Inum \cup {None}
         /\ op[p].path \in Seq(EntryNames) /\ op[p].new \in Seq(EntryNames)
         /\ op[p].call \in Calls \cup {"none"}
         /\ cwd[p] \in Inum /\ fd[p] \in Inum \cup {None}
         /\ puts[p] \in Seq(Inum) /\ Len(puts[p]) <= 2
  BY DEF IInv, Tables, CallsAt, OpRec

LEMMA LookupIs ==
  ASSUME IInv, NEW d \in Inum, NEW path \in Seq(EntryNames), path # << >>
  PROVE  DirLookup(d, Name(path)) \in Inum \cup {None}
<1>1. Head(path) \in EntryNames
  OBVIOUS
<1> QED
  BY <1>1 DEF DirLookup, Name, IInv, Tables

LEMMA EntsSame ==
  ASSUME IInv, UNCHANGED ents
  PROVE  ents' \in [Inum -> [EntryNames -> Inum \cup {None}]]
  BY DEF IInv, Tables

LEMMA EntsLinked ==
  ASSUME NEW e \in [Inum -> [EntryNames -> Inum \cup {None}]], NEW d \in Inum,
         NEW n \in EntryNames, NEW i \in Inum \cup {None}
  PROVE  DirLink(e, d, n, i) \in [Inum -> [EntryNames -> Inum \cup {None}]]
  BY DEF DirLink

LEMMA LabelsAre ==
  /\ "idle" \in Labels /\ "walk" \in Labels /\ "target" \in Labels /\ "parent" \in Labels
  /\ "child" \in Labels /\ "unlinked" \in Labels /\ "exists" \in Labels
  /\ "locked" \in Labels /\ "undo" \in Labels /\ "full" \in Labels
  BY DEF Labels

\* The record and the label of a call that ends.
LEMMA ReturnMoves ==
  ASSUME NEW p, NEW ps, Return(p, ps), puts[p] = << >>, UNCHANGED <<cwd, fd>>,
         ents' \in [Inum -> [EntryNames -> Inum \cup {None}]]
  PROVE  Moves(p, "idle", NoOp, ps)
  BY DEF Return, Moves

LEMMA ListsArePuts ==
  /\ IsPuts(<< >>)
  /\ \A i \in Inum : IsPuts(<<i>>)
  /\ \A i, j \in Inum : IsPuts(<<i, j>>)
  BY DEF IsPuts

\* A path lookup starts with a reference to where it starts.
LEMMA StartIInv ==
  ASSUME IInv, NEW p \in Procs, NEW call \in CallsOf[p], NEW path \in Paths,
         NEW from \in {ROOTINO, cwd[p]},
         NEW new \in IF call = "link" THEN Paths ELSE {<< >>},
         Start(p, call, path, new, from)
  PROVE  IInv'
<1>1. from \in Inum
  BY Constants, OpIs
<1>2. call \in Calls /\ path \in Seq(EntryNames) /\ path # << >>
  BY Constants
<1>3. new \in Seq(EntryNames) /\ (call = "link" => new # << >>)
  <2>1. CASE call = "link"
    BY <2>1, Constants
  <2>2. CASE call # "link"
    BY <2>2
  <2> QED
    BY <2>1, <2>2
<1> DEFINE o == [call |-> call, path |-> path, new |-> new, at |-> from, ip |-> None]
<1>4. o \in OpRec /\ o.at = from /\ o.ip = None
  BY <1>1, <1>2, <1>3 DEF OpRec
<1>5. OpAt(o, "walk")
  BY <1>1, <1>2, <1>3, Constants DEF OpAt
<1>6. /\ puts[p] = << >> /\ pc[p] = "idle" /\ op' = [op EXCEPT ![p] = o]
      /\ Iget(from) /\ Goto(p, "walk", << >>) /\ UNCHANGED ents /\ UNCHANGED <<cwd, fd>>
  BY DEF Start, At, tableVars
<1> HIDE DEF o
<1>7. Moves(p, "walk", o, << >>)
  BY <1>6, EntsSame DEF Moves
<1>8. op[p].at = None /\ op[p].ip = None
  BY <1>6, OpIs DEF OpAt
<1>9. Balanced(from, op[p], o, << >>)
  BY <1>4, <1>8, IsCount DEF Balanced
<1>10. Got(from) /\ from \in Inum \cup {None}
  BY <1>1, <1>6, Constants DEF Got
<1> QED
  BY <1>4, <1>5, <1>7, <1>9, <1>10, LabelsAre, ListsArePuts, GotoIInv

\* The failure of a lookup, after which link has its inode still.
LEMMA LookupFailsIInv ==
  ASSUME IInv, NEW p \in Procs, NEW ps, IsPuts(ps), LookupFails(p, ps), puts[p] = << >>,
         op[p].ip # None => op[p].call = "link", UNCHANGED ents, UNCHANGED <<cwd, fd>>,
         NEW got \in Inum \cup {None}, Got(got),
         \A i \in Inum : Is(got, i) + Is(op[p].at, i) = InPuts(ps, i)
  PROVE  IInv'
<1>1. ents' \in [Inum -> [EntryNames -> Inum \cup {None}]]
  BY EntsSame
<1>2. CASE op[p].ip = None
  <2>1. Moves(p, "idle", NoOp, ps)
    BY <1>1, <1>2, ReturnMoves DEF LookupFails
  <2>2. Balanced(got, op[p], NoOp, ps)
    BY <1>2, NoOpIs, IsCount DEF Balanced, Is
  <2> QED
    BY <2>1, <2>2, NoOpIs, LabelsAre, GotoIInv
<1>3. CASE op[p].ip # None
  <2> DEFINE o == [op[p] EXCEPT !.at = None]
  <2>1. Goto(p, "undo", ps) /\ op' = [op EXCEPT ![p].at = None]
    BY <1>3 DEF LookupFails
  <2>2. op' = [op EXCEPT ![p] = o]
    BY <2>1 DEF IInv, Tables
  <2>3. o \in OpRec /\ o.at = None /\ o.ip = op[p].ip
    BY OpIs DEF OpRec
  <2>4. OpAt(o, "undo")
    BY <1>3, <2>3 DEF OpAt
  <2> HIDE DEF o
  <2>5. Moves(p, "undo", o, ps)
    BY <1>1, <2>1, <2>2 DEF Moves
  <2>6. Balanced(got, op[p], o, ps)
    <3> SUFFICES ASSUME NEW i \in Inum
                 PROVE  Is(got, i) + Is(op[p].at, i) + Is(op[p].ip, i)
                          = Is(o.at, i) + Is(o.ip, i) + InPuts(ps, i)
      BY DEF Balanced
    <3>1. PICK a \in Nat, b \in Nat, g \in Nat, z \in Nat :
            a = Is(op[p].at, i) /\ b = Is(op[p].ip, i) /\ g = Is(got, i) /\ z = InPuts(ps, i)
      BY DEF Is, InPuts
    <3>2. g + a = z
      BY <3>1
    <3>3. Is(o.at, i) = 0 /\ Is(o.ip, i) = b
      BY <2>3, <3>1, IsCount
    <3>4. g + a + b = 0 + b + z
      BY <3>2
    <3> QED
      BY <3>1, <3>3, <3>4
  <2> QED
    BY <2>3, <2>4, <2>5, <2>6, LabelsAre, GotoIInv
<1> QED
  BY <1>2, <1>3

\* namex() has one reference at a time: iget() of the next inode comes before
\* the put of the directory it is in.
LEMMA WalkIInv ==
  ASSUME IInv, NEW p \in Procs, Walk(p)
  PROVE  IInv'
<1> DEFINE i == op[p].at
           next == DirLookup(i, Name(op[p].path))
<1>1. /\ puts[p] = << >> /\ pc[p] = "walk" /\ UNCHANGED ents /\ UNCHANGED <<cwd, fd>>
      /\ \/ LookupFails(p, <<i>>) /\ UNCHANGED ref
         \/ /\ WantsParent(op[p]) /\ Len(op[p].path) = 1
            /\ Goto(p, "parent", << >>) /\ UNCHANGED <<op, ref>>
         \/ /\ next # None /\ ~(WantsParent(op[p]) /\ Len(op[p].path) = 1)
            /\ Iget(next)
            /\ op' = [op EXCEPT ![p].at = next, ![p].path = SkipElem(@)]
            /\ Goto(p, IF Len(op[p].path) = 1 THEN "target" ELSE "walk", <<i>>)
  BY DEF Walk, At
<1>2. i \in Inum /\ op[p].path # << >> /\ (op[p].ip # None => op[p].call = "link")
      /\ (op[p].call = "link" /\ op[p].ip = None => op[p].new # << >>)
  BY <1>1, OpIs DEF OpAt
<1>3. next \in Inum \cup {None}
  BY <1>2, OpIs, LookupIs
<1>4. ents' \in [Inum -> [EntryNames -> Inum \cup {None}]]
  BY <1>1, EntsSame
<1>5. IsPuts(<<i>>) /\ None \in Inum \cup {None}
  BY <1>2, ListsArePuts
<1>6. CASE LookupFails(p, <<i>>) /\ UNCHANGED ref
  <2>1. Got(None)
    BY <1>6 DEF Got
  <2>2. \A j \in Inum : Is(None, j) + Is(op[p].at, j) = InPuts(<<i>>, j)
    BY <1>2, IsCount
  <2> QED
    BY <1>1, <1>2, <1>5, <1>6, <2>1, <2>2, LookupFailsIInv
<1>7. CASE /\ WantsParent(op[p]) /\ Len(op[p].path) = 1
           /\ Goto(p, "parent", << >>) /\ UNCHANGED <<op, ref>>
  <2>1. Got(None)
    BY <1>7 DEF Got
  <2>2. op' = [op EXCEPT ![p] = op[p]]
    BY <1>7 DEF IInv, Tables
  <2>3. OpAt(op[p], "parent")
    BY <1>2, <1>7, Constants DEF OpAt
  <2>4. Balanced(None, op[p], op[p], << >>)
    BY IsCount DEF Balanced, Is
  <2>5. Moves(p, "parent", op[p], << >>)
    BY <1>1, <1>4, <1>7, <2>2 DEF Moves
  <2>6. op[p] \in OpRec
    BY OpIs
  <2> QED
    BY <1>5, <2>1, <2>3, <2>4, <2>5, <2>6, LabelsAre, ListsArePuts, GotoIInv
<1>8. CASE /\ next # None /\ ~(WantsParent(op[p]) /\ Len(op[p].path) = 1)
           /\ Iget(next)
           /\ op' = [op EXCEPT ![p].at = next, ![p].path = SkipElem(@)]
           /\ Goto(p, IF Len(op[p].path) = 1 THEN "target" ELSE "walk", <<i>>)
  <2> DEFINE o == [op[p] EXCEPT !.at = next, !.path = SkipElem(@)]
             l == IF Len(op[p].path) = 1 THEN "target" ELSE "walk"
  <2>1. Got(next)
    BY <1>8 DEF Got
  <2>2. op' = [op EXCEPT ![p] = o]
    BY <1>8 DEF IInv, Tables
  <2>3. SkipElem(op[p].path) \in Seq(EntryNames)
        /\ (Len(op[p].path) # 1 => SkipElem(op[p].path) # << >>)
    <3>1. PICK path \in Seq(EntryNames) : path = op[p].path /\ path # << >>
      BY <1>2, OpIs
    <3>2. Tail(path) \in Seq(EntryNames) /\ Len(Tail(path)) = Len(path) - 1
      BY <3>1
    <3>3. Len(path) # 1 => Len(Tail(path)) # 0
      BY <3>2
    <3>4. Len(path) # 1 => Tail(path) # << >>
      BY <3>3
    <3> QED
      BY <3>1, <3>2, <3>4 DEF SkipElem
  <2>4. /\ o \in OpRec /\ o.at = next /\ o.ip = op[p].ip /\ o.call = op[p].call
        /\ o.path = SkipElem(op[p].path) /\ o.new = op[p].new
    BY <1>3, <2>3, OpIs DEF OpRec
  <2>5. l \in Labels
    BY LabelsAre
  <2> HIDE DEF o, next
  <2>6. OpAt(o, l)
    <3>1. CASE Len(op[p].path) = 1
      <4>1. op[p].ip = None
        BY <1>8, <3>1 DEF WantsParent
      <4> QED
        BY <1>2, <1>8, <2>4, <3>1, <4>1 DEF OpAt
    <3>2. CASE Len(op[p].path) # 1
      BY <1>2, <1>8, <2>3, <2>4, <3>2 DEF OpAt
    <3> QED
      BY <3>1, <3>2
  <2>7. Balanced(next, op[p], o, <<i>>)
    BY <1>2, <2>4, IsCount DEF Balanced, Is
  <2>8. Moves(p, l, o, <<i>>)
    BY <1>1, <1>4, <1>8, <2>2 DEF Moves
  <2> HIDE DEF l, i
  <2> QED
    BY <1>3, <1>5, <2>1, <2>4, <2>5, <2>6, <2>7, <2>8, GotoIInv
<1> QED
  BY <1>1, <1>6, <1>7, <1>8

\* A call that ends and puts all it points to.
LEMMA EndIInv ==
  ASSUME IInv, NEW p \in Procs, NEW ps, IsPuts(ps), Return(p, ps), puts[p] = << >>,
         UNCHANGED <<cwd, fd>>, ents' \in [Inum -> [EntryNames -> Inum \cup {None}]],
         NEW got \in Inum \cup {None}, Got(got), Balanced(got, op[p], NoOp, ps)
  PROVE  IInv'
<1>1. Moves(p, "idle", NoOp, ps)
  BY ReturnMoves
<1> QED
  BY <1>1, NoOpIs, LabelsAre, GotoIInv

\* A call that ends when ip->ref of what it points to stays.
LEMMA PutsAllIInv ==
  ASSUME IInv, NEW p \in Procs, NEW ps, IsPuts(ps), Return(p, ps), puts[p] = << >>,
         UNCHANGED <<cwd, fd>>, ents' \in [Inum -> [EntryNames -> Inum \cup {None}]],
         UNCHANGED ref,
         \/ op[p].at \in Inum /\ op[p].ip = None /\ ps = <<op[p].at>>
         \/ op[p].at = None /\ op[p].ip \in Inum /\ ps = <<op[p].ip>>
         \/ op[p].at \in Inum /\ op[p].ip \in Inum
            /\ (ps = <<op[p].at, op[p].ip>> \/ ps = <<op[p].ip, op[p].at>>)
  PROVE  IInv'
<1>1. Balanced(None, op[p], NoOp, ps)
  <2> SUFFICES ASSUME NEW i \in Inum
               PROVE  Is(None, i) + Is(op[p].at, i) + Is(op[p].ip, i)
                        = Is(NoOp.at, i) + Is(NoOp.ip, i) + InPuts(ps, i)
    BY DEF Balanced
  <2>1. Is(None, i) = 0 /\ Is(NoOp.at, i) = 0 /\ Is(NoOp.ip, i) = 0
    BY NoOpIs, IsCount
  <2>2. PICK a \in Nat, b \in Nat : a = Is(op[p].at, i) /\ b = Is(op[p].ip, i)
    BY DEF Is
  <2>3. InPuts(ps, i) = a + b
    <3>1. CASE op[p].at \in Inum /\ op[p].ip = None /\ ps = <<op[p].at>>
      BY <2>2, <3>1, IsCount
    <3>2. CASE op[p].at = None /\ op[p].ip \in Inum /\ ps = <<op[p].ip>>
      BY <2>2, <3>2, IsCount
    <3>3. CASE op[p].at \in Inum /\ op[p].ip \in Inum /\ ps = <<op[p].at, op[p].ip>>
      BY <2>2, <3>3, IsCount
    <3>4. CASE op[p].at \in Inum /\ op[p].ip \in Inum /\ ps = <<op[p].ip, op[p].at>>
      BY <2>2, <3>4, IsCount
    <3> QED
      BY <3>1, <3>2, <3>3, <3>4
  <2> QED
    BY <2>1, <2>2, <2>3
<1>2. Got(None) /\ None \in Inum \cup {None}
  BY DEF Got
<1> QED
  BY <1>1, <1>2, EndIInv

LEMMA OpenTargetIInv ==
  ASSUME IInv, NEW p \in Procs, OpenTarget(p)
  PROVE  IInv'
<1> DEFINE i == op[p].at
           o == [op[p] EXCEPT !.at = None, !.ip = i]
<1>1. /\ puts[p] = << >> /\ pc[p] = "target"
      /\ UNCHANGED ref /\ UNCHANGED ents /\ UNCHANGED <<cwd, fd>>
      /\ \/ Return(p, <<i>>)
         \/ op' = [op EXCEPT ![p].at = None, ![p].ip = i] /\ Goto(p, "locked", << >>)
  BY DEF OpenTarget, At
<1>2. i \in Inum /\ op[p].ip = None
  BY <1>1, OpIs DEF OpAt
<1>3. ents' \in [Inum -> [EntryNames -> Inum \cup {None}]]
  BY <1>1, EntsSame
<1>4. CASE Return(p, <<i>>)
  BY <1>1, <1>2, <1>3, <1>4, ListsArePuts, PutsAllIInv
<1>5. CASE op' = [op EXCEPT ![p].at = None, ![p].ip = i] /\ Goto(p, "locked", << >>)
  <2>1. op' = [op EXCEPT ![p] = o]
    BY <1>5 DEF IInv, Tables
  <2>2. o \in OpRec /\ o.at = None /\ o.ip = i
    BY <1>2, OpIs DEF OpRec
  <2> HIDE DEF o
  <2>3. OpAt(o, "locked")
    BY <1>2, <2>2, Constants DEF OpAt
  <2>4. Moves(p, "locked", o, << >>)
    BY <1>1, <1>3, <1>5, <2>1 DEF Moves
  <2>5. Balanced(None, op[p], o, << >>)
    BY <1>2, <2>2, IsCount DEF Balanced
  <2>6. Got(None) /\ None \in Inum \cup {None}
    BY <1>1 DEF Got
  <2> QED
    BY <2>2, <2>3, <2>4, <2>5, <2>6, LabelsAre, ListsArePuts, GotoIInv
<1> QED
  BY <1>1, <1>4, <1>5

\* The directory that was the current one is put, the new one is not.
LEMMA ChdirIInv ==
  ASSUME IInv, NEW p \in Procs, Chdir(p)
  PROVE  IInv'
<1> DEFINE i == op[p].at
<1>1. /\ puts[p] = << >> /\ pc[p] = "target" /\ UNCHANGED ref /\ UNCHANGED ents
      /\ UNCHANGED fd
      /\ \/ Return(p, <<i>>) /\ UNCHANGED cwd
         \/ Return(p, <<cwd[p]>>) /\ cwd' = [cwd EXCEPT ![p] = i]
  BY DEF Chdir, At
<1>2. i \in Inum /\ op[p].ip = None /\ cwd[p] \in Inum
  BY <1>1, OpIs DEF OpAt
<1>3. ents' \in [Inum -> [EntryNames -> Inum \cup {None}]]
  BY <1>1, EntsSame
<1>4. CASE Return(p, <<i>>) /\ UNCHANGED cwd
  <2>1. UNCHANGED <<cwd, fd>>
    BY <1>1, <1>4
  <2> QED
    BY <1>1, <1>2, <1>3, <1>4, <2>1, ListsArePuts, PutsAllIInv
<1>5. CASE Return(p, <<cwd[p]>>) /\ cwd' = [cwd EXCEPT ![p] = i]
  <2>1. cwd' \in [Procs -> Inum] /\ cwd'[p] = i /\ \A q \in Procs : q # p => cwd'[q] = cwd[q]
    BY <1>2, <1>5 DEF IInv, Tables
  <2>2. fd' \in [Procs -> Inum \cup {None}] /\ \A q \in Procs : fd'[q] = fd[q]
    BY <1>1 DEF IInv, Tables
  <2>3. ASSUME NEW j \in Inum
        PROVE  ref'[j] + (Is(cwd[p], j) + Is(fd[p], j) + Is(op[p].at, j) + Is(op[p].ip, j))
                 = ref[j] + (Is(cwd'[p], j) + Is(fd'[p], j) + InPuts(<<cwd[p]>>, j))
    <3>1. Is(op[p].ip, j) = 0 /\ InPuts(<<cwd[p]>>, j) = Is(cwd[p], j)
      BY <1>2, IsCount
    <3>2. Is(cwd'[p], j) = Is(op[p].at, j) /\ Is(fd'[p], j) = Is(fd[p], j)
      BY <2>1, <2>2
    <3>3. PICK a \in Nat, b \in Nat, c \in Nat :
            a = Is(op[p].at, j) /\ b = Is(fd[p], j) /\ c = Is(cwd[p], j)
      BY DEF Is
    <3>4. c + b + a + 0 = a + b + c
      OBVIOUS
    <3>5. Is(cwd[p], j) + Is(fd[p], j) + Is(op[p].at, j) + Is(op[p].ip, j)
            = Is(cwd'[p], j) + Is(fd'[p], j) + InPuts(<<cwd[p]>>, j)
      BY <3>1, <3>2, <3>3, <3>4
    <3> QED
      BY <1>1, <3>5
  <2>4. ref' \in [Inum -> Int]
    BY <1>1, RefIs
  <2>5. <<cwd[p]>> \in Seq(Inum) /\ Len(<<cwd[p]>>) <= 2
    BY <1>2
  <2> QED
    BY <1>1, <1>3, <1>5, <2>1, <2>2, <2>3, <2>4, <2>5, ReturnIInv
<1> QED
  BY <1>1, <1>4, <1>5

\* link() keeps its reference to the inode during the second lookup.
LEMMA LinkTargetIInv ==
  ASSUME IInv, NEW p \in Procs, LinkTarget(p)
  PROVE  IInv'
<1> DEFINE i == op[p].at
<1>1. /\ puts[p] = << >> /\ pc[p] = "target" /\ op[p].call = "link"
      /\ UNCHANGED ents /\ UNCHANGED <<cwd, fd>>
      /\ \/ Return(p, <<i>>) /\ UNCHANGED ref
         \/ \E from \in {ROOTINO, cwd[p]} :
              /\ Iget(from)
              /\ op' = [op EXCEPT ![p].path = op[p].new, ![p].new = << >>,
                                  ![p].at = from, ![p].ip = i]
              /\ Goto(p, "walk", << >>)
  BY DEF LinkTarget, At
<1>2. i \in Inum /\ op[p].ip = None /\ op[p].new # << >>
  BY <1>1, OpIs DEF OpAt
<1>3. ents' \in [Inum -> [EntryNames -> Inum \cup {None}]]
  BY <1>1, EntsSame
<1>4. CASE Return(p, <<i>>) /\ UNCHANGED ref
  BY <1>1, <1>2, <1>3, <1>4, ListsArePuts, PutsAllIInv
<1>5. ASSUME NEW from \in {ROOTINO, cwd[p]}, Iget(from),
             op' = [op EXCEPT ![p].path = op[p].new, ![p].new = << >>,
                              ![p].at = from, ![p].ip = i],
             Goto(p, "walk", << >>)
      PROVE  IInv'
  <2> DEFINE o == [op[p] EXCEPT !.path = op[p].new, !.new = << >>, !.at = from, !.ip = i]
  <2>1. op' = [op EXCEPT ![p] = o]
    BY <1>5 DEF IInv, Tables
  <2>2. from \in Inum
    BY Constants, OpIs
  <2>3. o \in OpRec /\ o.at = from /\ o.ip = i /\ o.path = op[p].new /\ o.call = op[p].call
    <3>1. /\ op[p] \in OpRec /\ op[p].new \in Seq(EntryNames) /\ << >> \in Seq(EntryNames)
          /\ i \in Inum \cup {None} /\ from \in Inum \cup {None}
      BY <1>2, <2>2, OpIs
    <3> QED
      BY <3>1 DEF OpRec
  <2> HIDE DEF o
  <2>4. OpAt(o, "walk")
    BY <1>1, <1>2, <2>2, <2>3, Constants DEF OpAt
  <2>5. Moves(p, "walk", o, << >>)
    BY <1>1, <1>3, <1>5, <2>1 DEF Moves
  <2>6. Balanced(from, op[p], o, << >>)
    BY <1>2, <2>3, IsCount DEF Balanced
  <2>7. Got(from) /\ from \in Inum \cup {None}
    BY <1>5, <2>2, Constants DEF Got
  <2> QED
    BY <2>3, <2>4, <2>5, <2>6, <2>7, LabelsAre, ListsArePuts, GotoIInv
<1> QED
  BY <1>1, <1>4, <1>5

LEMMA LinkParentIInv ==
  ASSUME IInv, NEW p \in Procs, LinkParent(p)
  PROVE  IInv'
<1> DEFINE d == op[p].at
           n == Name(op[p].path)
           e == DirLookup(d, n)
<1>1. /\ puts[p] = << >> /\ pc[p] = "parent" /\ op[p].call = "link"
      /\ UNCHANGED <<cwd, fd>>
      /\ \/ e # None /\ Iget(e) /\ LookupFails(p, <<e, d>>) /\ UNCHANGED ents
         \/ /\ ents' = DirLink(ents, d, n, op[p].ip)
            /\ Return(p, <<d, op[p].ip>>) /\ UNCHANGED ref
  BY DEF LinkParent, At
<1>2. d \in Inum /\ op[p].ip \in Inum /\ op[p].path # << >>
  BY <1>1, OpIs DEF OpAt, WantsParent
<1>3. e \in Inum \cup {None}
  BY <1>2, OpIs, LookupIs
<1>4. CASE e # None /\ Iget(e) /\ LookupFails(p, <<e, d>>) /\ UNCHANGED ents
  <2>1. IsPuts(<<e, d>>)
    BY <1>2, <1>3, <1>4, ListsArePuts
  <2>2. Got(e)
    BY <1>4 DEF Got
  <2>3. \A j \in Inum : Is(e, j) + Is(op[p].at, j) = InPuts(<<e, d>>, j)
    BY <1>2, <1>3, <1>4, IsCount
  <2> HIDE DEF e, d
  <2> QED
    BY <1>1, <1>3, <1>4, <2>1, <2>2, <2>3, LookupFailsIInv
<1>5. CASE /\ ents' = DirLink(ents, d, n, op[p].ip)
           /\ Return(p, <<d, op[p].ip>>) /\ UNCHANGED ref
  <2>1. n \in EntryNames
    BY <1>2, OpIs DEF Name
  <2>2. ents' \in [Inum -> [EntryNames -> Inum \cup {None}]]
    BY <1>2, <1>5, <2>1, EntsLinked DEF IInv, Tables
  <2>3. IsPuts(<<d, op[p].ip>>)
    BY <1>2, ListsArePuts
  <2> QED
    BY <1>1, <1>2, <1>5, <2>2, <2>3, PutsAllIInv
<1> QED
  BY <1>1, <1>4, <1>5

LEMMA LinkUndoIInv ==
  ASSUME IInv, NEW p \in Procs, LinkUndo(p)
  PROVE  IInv'
<1>1. /\ puts[p] = << >> /\ pc[p] = "undo" /\ Return(p, <<op[p].ip>>)
      /\ UNCHANGED ref /\ UNCHANGED ents /\ UNCHANGED <<cwd, fd>>
  BY DEF LinkUndo, At
<1>2. op[p].at = None /\ op[p].ip \in Inum
  BY <1>1, OpIs DEF OpAt
<1> QED
  BY <1>1, <1>2, EntsSame, ListsArePuts, PutsAllIInv

\* unlink() locks the inode of the entry with a reference of its own.
LEMMA UnlinkParentIInv ==
  ASSUME IInv, NEW p \in Procs, UnlinkParent(p)
  PROVE  IInv'
<1> DEFINE d == op[p].at
           e == DirLookup(d, Name(op[p].path))
           o == [op[p] EXCEPT !.ip = e]
<1>1. /\ puts[p] = << >> /\ pc[p] = "parent" /\ op[p].call = "unlink"
      /\ UNCHANGED ents /\ UNCHANGED <<cwd, fd>>
      /\ \/ Return(p, <<d>>) /\ UNCHANGED ref
         \/ /\ e # None /\ Iget(e) /\ op' = [op EXCEPT ![p].ip = e]
            /\ Goto(p, "child", << >>)
  BY DEF UnlinkParent, At
<1>2. d \in Inum /\ op[p].ip = None /\ op[p].path # << >>
  BY <1>1, OpIs DEF OpAt
<1>3. e \in Inum \cup {None}
  BY <1>2, OpIs, LookupIs
<1>4. ents' \in [Inum -> [EntryNames -> Inum \cup {None}]]
  BY <1>1, EntsSame
<1>5. CASE Return(p, <<d>>) /\ UNCHANGED ref
  BY <1>1, <1>2, <1>4, <1>5, ListsArePuts, PutsAllIInv
<1>6. CASE e # None /\ Iget(e) /\ op' = [op EXCEPT ![p].ip = e] /\ Goto(p, "child", << >>)
  <2>1. op' = [op EXCEPT ![p] = o]
    BY <1>6 DEF IInv, Tables
  <2>2. o \in OpRec /\ o.at = d /\ o.ip = e /\ o.path = op[p].path
    BY <1>3, OpIs DEF OpRec
  <2>3. Got(e)
    BY <1>6 DEF Got
  <2> HIDE DEF o, e
  <2>4. OpAt(o, "child")
    BY <1>2, <1>6, <2>2, Constants DEF OpAt
  <2>5. Moves(p, "child", o, << >>)
    BY <1>1, <1>4, <1>6, <2>1 DEF Moves
  <2>6. Balanced(e, op[p], o, << >>)
    BY <1>2, <2>2, IsCount DEF Balanced, Is
  <2> QED
    BY <1>3, <2>2, <2>3, <2>4, <2>5, <2>6, LabelsAre, ListsArePuts, GotoIInv
<1> QED
  BY <1>1, <1>5, <1>6

LEMMA UnlinkChildIInv ==
  ASSUME IInv, NEW p \in Procs, UnlinkChild(p)
  PROVE  IInv'
<1> DEFINE d == op[p].at
           i == op[p].ip
           n == Name(op[p].path)
           o == [op[p] EXCEPT !.at = None]
<1>1. /\ puts[p] = << >> /\ pc[p] = "child" /\ UNCHANGED ref /\ UNCHANGED <<cwd, fd>>
      /\ \/ Return(p, <<i, d>>) /\ UNCHANGED ents
         \/ /\ ents' = DirLink(ents, d, n, None)
            /\ op' = [op EXCEPT ![p].at = None]
            /\ Goto(p, "unlinked", <<d>>)
  BY DEF UnlinkChild, At
<1>2. d \in Inum /\ i \in Inum
  BY <1>1, OpIs DEF OpAt
<1>3. CASE Return(p, <<i, d>>) /\ UNCHANGED ents
  BY <1>1, <1>2, <1>3, EntsSame, ListsArePuts, PutsAllIInv
<1>4. CASE /\ ents' = DirLink(ents, d, n, None)
           /\ op' = [op EXCEPT ![p].at = None]
           /\ Goto(p, "unlinked", <<d>>)
  <2>1. op' = [op EXCEPT ![p] = o]
    BY <1>4 DEF IInv, Tables
  <2>2. o \in OpRec /\ o.at = None /\ o.ip = i
    BY OpIs DEF OpRec
  <2> HIDE DEF o
  <2>3. OpAt(o, "unlinked")
    BY <1>2, <2>2, Constants DEF OpAt
  <2>4. ents' \in [Inum -> [EntryNames -> Inum \cup {None}]]
    <3>1. n \in EntryNames
      BY <1>1, OpIs DEF OpAt, Name
    <3> QED
      BY <1>2, <1>4, <3>1, EntsLinked DEF IInv, Tables
  <2>5. Moves(p, "unlinked", o, <<d>>)
    BY <1>1, <1>4, <2>1, <2>4 DEF Moves
  <2>6. Balanced(None, op[p], o, <<d>>)
    BY <1>2, <2>2, IsCount DEF Balanced, Is
  <2>7. Got(None) /\ None \in Inum \cup {None}
    BY <1>1 DEF Got
  <2> QED
    BY <1>2, <2>2, <2>3, <2>5, <2>6, <2>7, LabelsAre, ListsArePuts, GotoIInv
<1> QED
  BY <1>1, <1>3, <1>4

\* The steps that end a call with the inode it has in ip.
LEMMA PutsIpIInv ==
  ASSUME IInv, NEW p \in Procs, Unlinked(p) \/ MkdirDone(p) \/ OpenFails(p)
  PROVE  IInv'
<1>1. /\ puts[p] = << >> /\ pc[p] \in {"unlinked", "locked"} /\ Return(p, <<op[p].ip>>)
      /\ UNCHANGED ref /\ UNCHANGED ents /\ UNCHANGED <<cwd, fd>>
  BY DEF Unlinked, MkdirDone, OpenFails, At, tableVars
<1>2. op[p].at = None /\ op[p].ip \in Inum
  BY <1>1, OpIs DEF OpAt
<1> QED
  BY <1>1, <1>2, EntsSame, ListsArePuts, PutsAllIInv

\* The descriptor takes the reference over.
LEMMA OpenDoneIInv ==
  ASSUME IInv, NEW p \in Procs, OpenDone(p)
  PROVE  IInv'
<1> DEFINE i == op[p].ip
<1>1. /\ puts[p] = << >> /\ pc[p] = "locked" /\ Return(p, << >>) /\ fd[p] = None
      /\ fd' = [fd EXCEPT ![p] = i] /\ UNCHANGED ref /\ UNCHANGED ents /\ UNCHANGED cwd
  BY DEF OpenDone, At
<1>2. op[p].at = None /\ i \in Inum
  BY <1>1, OpIs DEF OpAt
<1>3. fd' \in [Procs -> Inum \cup {None}] /\ fd'[p] = i /\ \A q \in Procs : q # p => fd'[q] = fd[q]
  BY <1>1, <1>2 DEF IInv, Tables
<1>4. cwd' \in [Procs -> Inum] /\ cwd' = cwd
  BY <1>1 DEF IInv, Tables
<1>5. ASSUME NEW j \in Inum
      PROVE  ref'[j] + (Is(cwd[p], j) + Is(fd[p], j) + Is(op[p].at, j) + Is(op[p].ip, j))
               = ref[j] + (Is(cwd'[p], j) + Is(fd'[p], j) + InPuts(<< >>, j))
  <2>1. Is(fd[p], j) = 0 /\ Is(op[p].at, j) = 0 /\ InPuts(<< >>, j) = 0
    BY <1>1, <1>2, IsCount
  <2>2. Is(cwd'[p], j) = Is(cwd[p], j) /\ Is(fd'[p], j) = Is(op[p].ip, j)
    BY <1>3, <1>4
  <2>3. PICK a \in Nat, c \in Nat : a = Is(op[p].ip, j) /\ c = Is(cwd[p], j)
    BY DEF Is
  <2>4. c + 0 + 0 + a = c + a + 0
    OBVIOUS
  <2>5. Is(cwd[p], j) + Is(fd[p], j) + Is(op[p].at, j) + Is(op[p].ip, j)
          = Is(cwd'[p], j) + Is(fd'[p], j) + InPuts(<< >>, j)
    BY <2>1, <2>2, <2>3, <2>4
  <2> QED
    BY <1>1, <2>5
<1>6. ref' \in [Inum -> Int]
  BY <1>1, RefIs
<1>7. << >> \in Seq(Inum) /\ Len(<< >>) <= 2 /\ ents' \in [Inum -> [EntryNames -> Inum \cup {None}]]
  BY <1>1, EntsSame
<1> QED
  BY <1>1, <1>3, <1>4, <1>5, <1>6, <1>7, ReturnIInv

\* create() of a name that exists.
LEMMA CreateFindsIInv ==
  ASSUME IInv, NEW p \in Procs, CreateFinds(p)
  PROVE  IInv'
<1> DEFINE d == op[p].at
           e == DirLookup(d, Name(op[p].path))
           o == [op[p] EXCEPT !.at = None, !.ip = e]
<1>1. /\ puts[p] = << >> /\ pc[p] = "parent" /\ op[p].call \in {"create", "mkdir"}
      /\ UNCHANGED ents /\ UNCHANGED <<cwd, fd>>
      /\ e # None /\ Iget(e) /\ op' = [op EXCEPT ![p].at = None, ![p].ip = e]
      /\ Goto(p, "exists", <<d>>)
  BY DEF CreateFinds, At
<1>2. d \in Inum /\ op[p].ip = None /\ op[p].path # << >>
  BY <1>1, OpIs DEF OpAt
<1>3. e \in Inum
  BY <1>1, <1>2, OpIs, LookupIs
<1>4. op' = [op EXCEPT ![p] = o]
  BY <1>1 DEF IInv, Tables
<1>5. o \in OpRec /\ o.at = None /\ o.ip = e
  BY <1>3, OpIs DEF OpRec
<1>6. Got(e) /\ e \in Inum \cup {None}
  BY <1>1, <1>3 DEF Got
<1>7. Moves(p, "exists", o, <<d>>)
  BY <1>1, <1>4, EntsSame DEF Moves
<1> HIDE DEF o, e
<1>8. OpAt(o, "exists")
  BY <1>3, <1>5, Constants DEF OpAt
<1>9. Balanced(e, op[p], o, <<d>>)
  BY <1>2, <1>5, IsCount DEF Balanced, Is
<1> QED
  BY <1>2, <1>5, <1>6, <1>7, <1>8, <1>9, LabelsAre, ListsArePuts, GotoIInv

LEMMA CreateExistsIInv ==
  ASSUME IInv, NEW p \in Procs, CreateExists(p)
  PROVE  IInv'
<1>1. /\ puts[p] = << >> /\ pc[p] = "exists"
      /\ UNCHANGED ref /\ UNCHANGED ents /\ UNCHANGED <<cwd, fd>>
      /\ \/ Goto(p, "locked", << >>) /\ UNCHANGED op
         \/ Return(p, <<op[p].ip>>)
  BY DEF CreateExists, At
<1>2. op[p].at = None /\ op[p].ip \in Inum
  BY <1>1, OpIs DEF OpAt
<1>3. CASE Return(p, <<op[p].ip>>)
  BY <1>1, <1>2, <1>3, EntsSame, ListsArePuts, PutsAllIInv
<1>4. CASE Goto(p, "locked", << >>) /\ UNCHANGED op
  <2>1. op' = [op EXCEPT ![p] = op[p]]
    BY <1>4 DEF IInv, Tables
  <2>2. op[p] \in OpRec
    BY OpIs
  <2>3. OpAt(op[p], "locked")
    BY <1>2, Constants DEF OpAt
  <2>4. Moves(p, "locked", op[p], << >>)
    BY <1>1, <1>4, <2>1, EntsSame DEF Moves
  <2>5. Balanced(None, op[p], op[p], << >>)
    BY IsCount DEF Balanced, Is
  <2>6. Got(None) /\ None \in Inum \cup {None}
    BY <1>1 DEF Got
  <2> QED
    BY <2>2, <2>3, <2>4, <2>5, <2>6, LabelsAre, ListsArePuts, GotoIInv
<1> QED
  BY <1>1, <1>3, <1>4

\* create() has a reference to the new inode and puts the directory.
LEMMA CreateNewIInv ==
  ASSUME IInv, NEW p \in Procs, CreateNew(p)
  PROVE  IInv'
<1> DEFINE d == op[p].at
           n == Name(op[p].path)
           i == Ialloc
           o == [op[p] EXCEPT !.at = None, !.ip = i]
<1>1. /\ puts[p] = << >> /\ pc[p] = "parent" /\ op[p].call \in {"create", "mkdir"}
      /\ Unused # {} /\ UNCHANGED <<cwd, fd>>
      /\ ents' = DirLink(IF op[p].call = "mkdir" THEN DirLink(ents, i, "..", d) ELSE ents,
                         d, n, i)
      /\ Iget(i) /\ op' = [op EXCEPT ![p].at = None, ![p].ip = i]
      /\ Goto(p, "locked", <<d>>)
  BY DEF CreateNew, At
<1>2. d \in Inum /\ op[p].ip = None /\ op[p].path # << >>
  BY <1>1, OpIs DEF OpAt
<1>3. i \in Inum
  <2>1. Unused \subseteq Nat /\ Unused \subseteq Inum
    BY Constants DEF Unused
  <2> QED
    BY <1>1, <2>1, MinInSet DEF Ialloc
<1> HIDE DEF i
<1>4. op' = [op EXCEPT ![p] = o]
  BY <1>1 DEF IInv, Tables
<1>5. o \in OpRec /\ o.at = None /\ o.ip = i
  BY <1>3, OpIs DEF OpRec
<1>6. Got(i) /\ i \in Inum \cup {None}
  BY <1>1, <1>3, Constants DEF Got
<1>7. ents' \in [Inum -> [EntryNames -> Inum \cup {None}]]
  <2>1. n \in EntryNames /\ ".." \in EntryNames
    BY <1>2, OpIs DEF Name, EntryNames
  <2>2. ents \in [Inum -> [EntryNames -> Inum \cup {None}]]
    BY DEF IInv, Tables
  <2>3. CASE op[p].call = "mkdir"
    <3>1. DirLink(ents, i, "..", d) \in [Inum -> [EntryNames -> Inum \cup {None}]]
      BY <1>2, <1>3, <2>1, <2>2, EntsLinked
    <3>2. ents' = DirLink(DirLink(ents, i, "..", d), d, n, i)
      BY <1>1, <2>3
    <3> QED
      BY <1>2, <1>6, <2>1, <3>1, <3>2, EntsLinked
  <2>4. CASE op[p].call # "mkdir"
    <3>1. ents' = DirLink(ents, d, n, i)
      BY <1>1, <2>4
    <3> QED
      BY <1>2, <1>6, <2>1, <2>2, <3>1, EntsLinked
  <2> QED
    BY <2>3, <2>4
<1>8. Moves(p, "locked", o, <<d>>)
  BY <1>1, <1>4, <1>7 DEF Moves
<1> HIDE DEF o
<1>9. OpAt(o, "locked")
  BY <1>3, <1>5, Constants DEF OpAt
<1>10. Balanced(i, op[p], o, <<d>>)
  BY <1>2, <1>5, IsCount DEF Balanced, Is
<1> QED
  BY <1>2, <1>5, <1>6, <1>8, <1>9, <1>10, LabelsAre, ListsArePuts, GotoIInv

\* The disk is full, and the kernel stops with what it has.
LEMMA DiskFullIInv ==
  ASSUME IInv, NEW p \in Procs, DiskFull(p)
  PROVE  IInv'
<1>1. /\ puts[p] = << >> /\ Goto(p, "full", << >>) /\ UNCHANGED op
      /\ UNCHANGED ref /\ UNCHANGED ents /\ UNCHANGED <<cwd, fd>>
  BY DEF DiskFull, At, tableVars
<1>2. op' = [op EXCEPT ![p] = op[p]]
  BY <1>1 DEF IInv, Tables
<1>3. op[p] \in OpRec
  BY OpIs
<1>4. OpAt(op[p], "full")
  BY DEF OpAt
<1>5. Moves(p, "full", op[p], << >>)
  BY <1>1, <1>2, EntsSame DEF Moves
<1>6. Balanced(None, op[p], op[p], << >>)
  BY IsCount DEF Balanced, Is
<1>7. Got(None) /\ None \in Inum \cup {None}
  BY <1>1 DEF Got
<1> QED
  BY <1>3, <1>4, <1>5, <1>6, <1>7, LabelsAre, ListsArePuts, GotoIInv

\* The last descriptor of a file: its reference is to be put.
LEMMA CloseIInv ==
  ASSUME IInv, NEW p \in Procs, Close(p)
  PROVE  IInv'
<1>1. /\ puts[p] = << >> /\ pc[p] = "idle" /\ Goto(p, "idle", <<fd[p]>>) /\ fd[p] # None
      /\ fd' = [fd EXCEPT ![p] = None] /\ UNCHANGED <<ref, ents, cwd, op>>
  BY DEF Close, At, tableVars
<1>2. fd[p] \in Inum /\ Tables
  BY <1>1, OpIs DEF IInv
<1>3. <<fd[p]>> \in Seq(Inum) /\ Len(<<fd[p]>>) <= 2 /\ "idle" \in Labels
  BY <1>2, LabelsAre
<1>4. /\ pc' \in [Procs -> Labels] /\ puts' \in [Procs -> Seq(Inum)]
      /\ \A q \in Procs : Len(puts'[q]) <= 2
      /\ pc'[p] = "idle" /\ puts'[p] = <<fd[p]>>
      /\ \A q \in Procs : q # p => pc'[q] = pc[q] /\ puts'[q] = puts[q]
  BY <1>1, <1>2, <1>3, GotoIs
<1>5. /\ fd' \in [Procs -> Inum \cup {None}] /\ fd'[p] = None
      /\ \A q \in Procs : q # p => fd'[q] = fd[q]
  BY <1>1, <1>2 DEF Tables
<1>6. Tables'
  BY <1>1, <1>2, <1>4, <1>5 DEF Tables
<1>7. OpAt(op'[p], pc'[p])
  BY <1>1, <1>4, OpIs
<1>8. ref' \in [Inum -> Int]
  BY <1>1, RefIs
<1>9. ASSUME NEW i \in Inum
      PROVE  ref'[i] + Holds(cwd[p], fd[p], op[p], puts[p], i)
               = ref[i] + Holds(cwd'[p], fd'[p], op'[p], puts'[p], i)
  <2>1. /\ InPuts(puts[p], i) = 0 /\ Is(fd'[p], i) = 0
        /\ InPuts(puts'[p], i) = Is(fd[p], i) /\ op' = op /\ cwd' = cwd /\ ref' = ref
    BY <1>1, <1>2, <1>4, <1>5, IsCount
  <2>2. PICK a \in Nat, b \in Nat, c \in Nat, f \in Nat :
          /\ a = Is(op[p].at, i) /\ b = Is(op[p].ip, i)
          /\ c = Is(cwd[p], i) /\ f = Is(fd[p], i)
    BY DEF Is
  <2>3. Holds(cwd[p], fd[p], op[p], puts[p], i) = c + f + a + b
    BY <2>1, <2>2 DEF Holds
  <2>4. Holds(cwd'[p], fd'[p], op'[p], puts'[p], i) = c + a + b + f
    BY <2>1, <2>2 DEF Holds
  <2>5. Holds(cwd[p], fd[p], op[p], puts[p], i) = Holds(cwd'[p], fd'[p], op'[p], puts'[p], i)
    BY <2>3, <2>4
  <2> QED
    BY <2>1, <2>5
<1> QED
  BY <1>1, <1>4, <1>5, <1>6, <1>7, <1>8, <1>9, StepIInv

\* The decrement of iput() goes with one inode fewer to put.
LEMMA IputDecIInv ==
  ASSUME IInv, NEW p \in Procs, IputDec(p)
  PROVE  IInv'
<1> DEFINE x == Head(puts[p])
<1>1. /\ puts[p] # << >> /\ ref' = [ref EXCEPT ![x] = @ - 1]
      /\ puts' = [puts EXCEPT ![p] = Tail(@)] /\ UNCHANGED <<ents, cwd, fd, op, pc>>
  BY DEF IputDec
<1>2. PICK s \in Seq(Inum) : s = puts[p] /\ s # << >> /\ Len(s) <= 2
  BY <1>1, OpIs
<1>3. /\ Tail(s) \in Seq(Inum) /\ Len(Tail(s)) = Len(s) - 1 /\ Head(s) \in Inum
      /\ Len(s) \in 1..2 /\ (Len(s) = 2 => Tail(s)[1] = s[2]) /\ Head(s) = s[1]
  <2>1. Len(s) \in 1..2
    <3>1. Len(s) \in Nat /\ Len(s) # 0
      BY <1>2, EmptySeq
    <3>2. PICK k \in Nat : k = Len(s) /\ k # 0 /\ k <= 2
      BY <1>2, <3>1
    <3>3. k \in 1..2
      BY <3>2
    <3> QED
      BY <3>2, <3>3
  <2>2. Tail(s) \in Seq(Inum) /\ Len(Tail(s)) = Len(s) - 1
    BY <1>2
  <2>3. Head(s) = s[1] /\ s[1] \in Inum
    BY <1>2, <2>1
  <2>4. Len(s) = 2 => Tail(s)[1] = s[2]
    BY <1>2, HeadTailProperties
  <2> QED
    BY <2>1, <2>2, <2>3, <2>4
<1>4. /\ puts' \in [Procs -> Seq(Inum)] /\ puts'[p] = Tail(s)
      /\ \A q \in Procs : q # p => puts'[q] = puts[q]
  BY <1>1, <1>2, <1>3 DEF IInv, Tables
<1>5. \A q \in Procs : Len(puts'[q]) <= 2
  <2> TAKE q \in Procs
  <2>1. CASE q = p
    BY <1>3, <1>4, <2>1
  <2>2. CASE q # p
    BY <1>4, <2>2, OpIs
  <2> QED
    BY <2>1, <2>2
<1>6. Tables'
  BY <1>1, <1>4, <1>5 DEF IInv, Tables
<1>7. OpAt(op'[p], pc'[p])
  BY <1>1, OpIs
<1>8. ref' \in [Inum -> Int] /\ \A i \in Inum : ref'[i] = ref[i] - Is(s[1], i)
  <2>1. ref' = [ref EXCEPT ![s[1]] = @ - 1]
    BY <1>1, <1>2, <1>3
  <2> QED
    BY <1>3, <2>1, RefIs DEF Is
<1>9. ASSUME NEW i \in Inum
      PROVE  ref'[i] + Holds(cwd[p], fd[p], op[p], puts[p], i)
               = ref[i] + Holds(cwd'[p], fd'[p], op'[p], puts'[p], i)
  <2>1. op' = op /\ cwd' = cwd /\ fd' = fd
    BY <1>1
  <2>2. InPuts(s, i) = Is(s[1], i) + InPuts(Tail(s), i)
    <3>1. CASE Len(s) = 1
      <4>1. InPuts(s, i) = Is(s[1], i)
        BY <3>1 DEF InPuts, Is
      <4>2. Len(Tail(s)) = 0
        BY <1>3, <3>1
      <4>3. InPuts(Tail(s), i) = 0
        BY <4>2 DEF InPuts
      <4> QED
        BY <4>1, <4>3 DEF Is
    <3>2. CASE Len(s) = 2
      <4>1. InPuts(s, i) = Is(s[1], i) + Is(s[2], i)
        BY <3>2 DEF InPuts, Is
      <4>2. Len(Tail(s)) = 1 /\ Tail(s)[1] = s[2]
        <5>1. Len(Tail(s)) = Len(s) - 1 /\ Tail(s)[1] = s[2]
          BY <1>3, <3>2
        <5>2. Len(s) - 1 = 1
          BY <3>2
        <5> QED
          BY <5>1, <5>2
      <4>3. InPuts(Tail(s), i) = Is(s[2], i)
        BY <4>2 DEF InPuts, Is
      <4> QED
        BY <4>1, <4>3
    <3> QED
      BY <1>3, <3>1, <3>2
  <2>3. PICK a \in Nat, b \in Nat, c \in Nat, f \in Nat, y \in Nat, z \in Nat :
          /\ a = Is(op[p].at, i) /\ b = Is(op[p].ip, i)
          /\ c = Is(cwd[p], i) /\ f = Is(fd[p], i)
          /\ y = Is(s[1], i) /\ z = InPuts(Tail(s), i)
    BY DEF Is, InPuts
  <2>4. Holds(cwd[p], fd[p], op[p], puts[p], i) = c + f + a + b + (y + z)
    BY <1>2, <2>2, <2>3 DEF Holds
  <2>5. Holds(cwd'[p], fd'[p], op'[p], puts'[p], i) = c + f + a + b + z
    BY <1>4, <2>1, <2>3 DEF Holds
  <2>6. PICK r \in Int, r1 \in Int : r = ref[i] /\ r1 = ref'[i] /\ r1 = r - y
    BY <1>8, <2>3, RefIs
  <2>7. r1 = r - y
    BY <2>6
  <2>8. r1 + (c + f + a + b + (y + z)) = r + (c + f + a + b + z)
    BY <2>7
  <2> QED
    BY <2>4, <2>5, <2>6, <2>8
<1> QED
  BY <1>1, <1>4, <1>6, <1>7, <1>8, <1>9, StepIInv

\* Steps that change contents and disk only.
LEMMA ContentsIInv ==
  ASSUME IInv, NEW p \in Procs,
         Read(p) \/ Stat(p) \/ (\E copied \in BOOLEAN : Write(p, copied))
  PROVE  IInv'
<1>1. UNCHANGED <<ref, cwd, fd, op, pc, puts>> /\ UNCHANGED ents
  BY DEF Read, Stat, Write
<1> QED
  BY <1>1, EntsSame, StutterIInv

LEMMA IputFreeIInv ==
  ASSUME IInv, NEW p \in Procs, IputFree(p)
  PROVE  IInv'
<1>1. UNCHANGED <<ref, cwd, fd, op, pc, puts>>
  BY DEF IputFree
<1>2. ents' = [ents EXCEPT ![Head(puts[p])] = NoEnts]
  BY DEF IputFree
<1>3. NoEnts \in [EntryNames -> Inum \cup {None}]
  BY DEF NoEnts, EntryNames
<1>4. ents' \in [Inum -> [EntryNames -> Inum \cup {None}]]
  BY <1>2, <1>3 DEF IInv, Tables
<1> QED
  BY <1>1, <1>4, StutterIInv

LEMMA NextIInv == IInv /\ [Next]_vars => IInv'
<1> SUFFICES ASSUME IInv, [Next]_vars PROVE IInv'
  OBVIOUS
<1>1. ASSUME NEW p \in Procs, SysCall(p) PROVE IInv'
  <2>1. ASSUME NEW call \in CallsOf[p], NEW path \in Paths,
               NEW from \in {ROOTINO, cwd[p]},
               NEW new \in IF call = "link" THEN Paths ELSE {<< >>},
               Start(p, call, path, new, from)
        PROVE  IInv'
    BY <2>1, StartIInv
  <2>2. CASE Walk(p) \/ OpenTarget(p) \/ Chdir(p) \/ LinkTarget(p) \/ LinkParent(p) \/ LinkUndo(p)
    BY <2>2, WalkIInv, OpenTargetIInv, ChdirIInv, LinkTargetIInv, LinkParentIInv, LinkUndoIInv
  <2>3. CASE UnlinkParent(p) \/ UnlinkChild(p) \/ Unlinked(p)
    BY <2>3, UnlinkParentIInv, UnlinkChildIInv, PutsIpIInv
  <2>4. CASE CreateFinds(p) \/ CreateExists(p) \/ CreateNew(p) \/ DiskFull(p) \/ MkdirDone(p)
    BY <2>4, CreateFindsIInv, CreateExistsIInv, CreateNewIInv, DiskFullIInv, PutsIpIInv
  <2>5. CASE OpenFails(p) \/ OpenDone(p) \/ Close(p)
    BY <2>5, PutsIpIInv, OpenDoneIInv, CloseIInv
  <2>6. CASE Read(p) \/ Stat(p) \/ (\E copied \in BOOLEAN : Write(p, copied))
    BY <2>6, ContentsIInv
  <2> QED
    BY <1>1, <2>1, <2>2, <2>3, <2>4, <2>5, <2>6 DEF SysCall
<1>2. ASSUME NEW p \in Procs, IputFree(p) \/ IputDec(p) PROVE IInv'
  BY <1>2, IputFreeIInv, IputDecIInv
<1>3. CASE UNCHANGED vars
  BY <1>3, EntsSame, StutterIInv DEF vars, tableVars
<1> QED
  BY <1>1, <1>2, <1>3 DEF Next

-----------------------------------------------------------------------------
\* ip->ref is exact: what iget() and idup() take, every path through the system
\* calls hands over or puts once (fs.c:246-281, 331-361; sysfile.c:142-390).
THEOREM ReferencesCounted == Spec => []RefsExact
<1>1. IInv => RefsExact
  BY DEF IInv
<1>2. Spec => []IInv
  BY InitIInv, NextIInv, PTL DEF Spec
<1> QED
  BY <1>1, <1>2, PTL
-----------------------------------------------------------------------------
(***************************************************************************)
(* The file system.  FInv adds to IInv what is on the disk (FsInv) and, as *)
(* long as the kernel runs, what the processes may rely on (Holders).      *)
(***************************************************************************)

\* No path goes through "..".  A removed directory keeps its ".." while it is
\* open or current, and what that names may be free by then.
NamesOnly(path) == \A k \in 1..Len(path) : path[k] # ".."
NoParentPaths == \A path \in Paths : NamesOnly(path)

\* The rest of TypeOK.
Domains ==
  /\ disk \in [Inum -> Dinode] /\ mem \in [Inum -> Dinode \cup {NotRead}]
  /\ lock \in [Inum -> Procs \cup {None}] /\ bitmap \subseteq Block
  /\ lost \subseteq Inum
  /\ freeing \in [Procs -> BOOLEAN] /\ panicked \in BOOLEAN

\* What has entries is a directory, and a directory has "..".
Shapes ==
  /\ disk[ROOTINO].type = "dir" /\ ents[ROOTINO][".."] = ROOTINO
  /\ \A i \in Inum : disk[i].type = "dir" => ents[i][".."] # None
  /\ \A i \in Inum : disk[i].type # "dir" => ents[i] = NoEnts

\* Entry n of directory d, which names c.
Entry(d, n, c) ==
  /\ disk[c].type # "free" /\ c # ROOTINO
  /\ disk[c].type = "dir" =>
       /\ ents[c][".."] = d
       /\ \A e \in Inum, m \in Names : ents[e][m] = c => e = d /\ m = n
  /\ \A m \in Names : ents[c][m] # d

\* Entries name inodes that are in use; a directory has one name, in its
\* parent, and no two directories name each other.
Tree == \A d \in Inum, n \in Names, c \in Inum : ents[d][n] = c => Entry(d, n, c)

\* There are blocks for the size of an inode, and none for a free one.
Sizes ==
  /\ \A i \in Inum : disk[i].size <= Len(disk[i].addrs)
  /\ \A i \in Inum : disk[i].type = "free" => BlocksOf(disk[i]) = {}

FsInv == LinkCount /\ BlocksOwned /\ TableIsDisk /\ Shapes /\ Tree /\ Sizes

\* The call of a record at a label.
CallAt(o, l) ==
  /\ l \in {"child", "unlinked", "locked", "exists"} => o.call # "link"
  /\ l = "undo" => o.call = "link"

\* What a process points to is in use once it has been locked, and what it has
\* locked is in the table.
HoldsOK(p) ==
  /\ CallAt(op[p], pc[p])
  /\ disk[cwd[p]].type = "dir"
  /\ fd[p] # None => disk[fd[p]].type # "free"
  /\ pc[p] \in {"parent", "child"} => disk[op[p].at].type = "dir"
  /\ pc[p] \in {"child", "unlinked", "locked"} => disk[op[p].ip].type # "free"
  /\ op[p].call = "link" /\ op[p].ip # None => disk[op[p].ip].type = "file"
  /\ pc[p] = "child" =>
       /\ lock[op[p].at] = p /\ mem[op[p].at] # NotRead
       /\ Name(op[p].path) \in Names /\ ents[op[p].at][Name(op[p].path)] = op[p].ip
  /\ pc[p] \in {"unlinked", "locked"} =>
       lock[op[p].ip] = p /\ mem[op[p].ip] # NotRead
  /\ NoParentPaths =>
       /\ NamesOnly(op[p].path) /\ NamesOnly(op[p].new)
       /\ pc[p] \in {"walk", "target"} => disk[op[p].at].type # "free"
       /\ pc[p] = "exists" => disk[op[p].ip].type # "free"

\* The inode that process p has locked.
Has(p, i) ==
  \/ pc[p] = "child" /\ op[p].at = i
  \/ pc[p] \in {"unlinked", "locked"} /\ op[p].ip = i

LocksHeld == \A i \in Inum : lock[i] # None => Has(lock[i], i)

Holders == (\A p \in Procs : HoldsOK(p)) /\ LocksHeld

FInv == /\ IInv /\ Domains /\ FsInv /\ (~panicked => Holders)
        /\ (NoParentPaths => ~panicked)

-----------------------------------------------------------------------------
\* What the constants are, for the facts about finite sets.
LEMMA FConstants ==
  /\ IsFiniteSet(Inum) /\ IsFiniteSet(Names) /\ IsFiniteSet(Block) /\ IsFiniteSet(Procs)
  /\ IsFiniteSet(Inum \X Names)
  /\ None \notin Procs /\ None \notin Block /\ ".." \notin Names /\ 1 \in Block
  /\ Block \subseteq Nat /\ NDIRECT > 0 /\ NDIRECT \in Nat
<1>1. 1 \in Int /\ NINODES \in Int /\ NBLOCKS \in Int
  BY InodeAssumption
<1>2. IsFiniteSet(Inum) /\ IsFiniteSet(Block)
  BY <1>1, FS_Interval, Zenon DEF Inum, Block
<1>3. IsFiniteSet(Names)
  BY InodeAssumption
<1>4. IsFiniteSet(Inum \X Names)
  BY <1>2, <1>3, FS_Product, Zenon
<1>5. IsFiniteSet(Procs) /\ None \notin Procs
  BY InodeAssumption DEF None
<1> QED
  BY <1>2, <1>3, <1>4, <1>5, InodeAssumption DEF Block, None

\* The fields of dinodes, and which records are none.
LEMMA DinodeIs ==
  /\ NotRead \notin Dinode /\ FreeInode \in Dinode
  /\ FreeInode.type = "free" /\ FreeInode.addrs = << >> /\ FreeInode.ind = None
  /\ FreeInode.size = 0 /\ FreeInode.nlink = 0
  /\ \A n \in Dinode : /\ n.type \in {"free", "dir", "file"} /\ n.nlink \in Nat
                       /\ n.size \in Nat /\ n.addrs \in Seq(Block)
                       /\ n.ind \in Block \cup {None}
<1>1. NotRead.type = "not read"
  BY DEF NotRead, FreeInode
<1>2. \A n \in Dinode : n.type \in {"free", "dir", "file"}
  BY DEF Dinode
<1>3. << >> \in Seq(Block)
  OBVIOUS
<1>4. FreeInode \in Dinode
  BY <1>3 DEF Dinode, FreeInode
<1> QED
  BY <1>1, <1>2, <1>4 DEF Dinode, FreeInode

\* ilock() sees what is on the disk.
LEMMA IlockIs ==
  ASSUME Domains, TableIsDisk, NEW i \in Inum
  PROVE  Ilock(i) = disk[i] /\ Ilock(i) \in Dinode /\ disk[i] # NotRead
  BY DinodeIs DEF Ilock, Domains, TableIsDisk

\* What TypeOK says of one inode and of the lot.
LEMMA TypesHold ==
  ASSUME IInv, Domains
  PROVE  TypeOK
  BY DEF IInv, Tables, Domains, TypeOK, Labels, EntryNames

\* In a tree, names do not lead to free inodes.
LEMMA TreeNoDangling ==
  ASSUME Shapes, Tree, Tables
  PROVE  NoDangling
<1> SUFFICES ASSUME NEW d \in Inum, d = ROOTINO \/ Named(d),
                    NEW n \in Names \cup {".."}, ents[d][n] # None
             PROVE  disk[ents[d][n]].type # "free"
  BY DEF NoDangling
<1>1. ents[d][n] \in Inum
  BY DEF Tables, EntryNames
<1>2. CASE n \in Names
  BY <1>1, <1>2 DEF Tree, Entry
<1>3. CASE n = ".." /\ d = ROOTINO
  BY <1>3 DEF Shapes
<1>4. CASE n = ".." /\ Named(d)
  <2>1. PICK e \in Inum, m \in Names : ents[e][m] = d
    BY <1>4 DEF Named
  <2>2. disk[d].type = "dir"
    BY <1>4 DEF Shapes, NoEnts
  <2>3. ents[d][".."] = e
    BY <2>1, <2>2 DEF Tree, Entry
  <2>4. disk[e].type = "dir"
    BY <2>1, Constants DEF Shapes, NoEnts
  <2> QED
    BY <1>4, <2>3, <2>4
<1> QED
  BY <1>2, <1>3, <1>4

-----------------------------------------------------------------------------
\* Nobody points to i, but for the inodes to put.
Unheld(i) == \A q \in Procs : /\ cwd[q] # i /\ fd[q] # i
                              /\ op[q].at # i /\ op[q].ip # i

\* The last reference is the one that is to be put.
LEMMA LastUnheld ==
  ASSUME IInv, NEW p \in Procs, puts[p] # << >>, ref[Head(puts[p])] = 1
  PROVE  Head(puts[p]) \in Inum /\ Unheld(Head(puts[p]))
<1> DEFINE i == Head(puts[p])
<1>1. puts[p] \in Seq(Inum) /\ puts[p] # << >> /\ i = puts[p][1] /\ 1 <= Len(puts[p])
  BY OpIs
<1>2. i \in Inum
  BY <1>1
<1>3. ref[i] = Cardinality(CwdAt(i)) + Cardinality(FdAt(i)) + Cardinality(AtAt(i))
               + Cardinality(IpAt(i)) + Cardinality(PutsAt(i))
  BY <1>2, CountsAre DEF IInv
<1>4. /\ CwdAt(i) \subseteq Procs /\ FdAt(i) \subseteq Procs /\ AtAt(i) \subseteq Procs
      /\ IpAt(i) \subseteq Procs /\ PutsAt(i) \subseteq Procs \X (1..2)
  BY DEF CwdAt, FdAt, AtAt, IpAt, PutsAt
<1>5. IsFiniteSet(Procs) /\ IsFiniteSet(Procs \X (1..2))
  <2>1. 1 \in Int /\ 2 \in Int
    OBVIOUS
  <2>2. IsFiniteSet(1..2) /\ IsFiniteSet(Procs)
    BY <2>1, FS_Interval, Constants, Zenon
  <2> QED
    BY <2>2, FS_Product, Zenon
<1>6. /\ IsFiniteSet(CwdAt(i)) /\ IsFiniteSet(FdAt(i)) /\ IsFiniteSet(AtAt(i))
      /\ IsFiniteSet(IpAt(i)) /\ IsFiniteSet(PutsAt(i))
  BY <1>4, <1>5, FS_Subset
<1>7. /\ Cardinality(CwdAt(i)) \in Nat /\ Cardinality(FdAt(i)) \in Nat
      /\ Cardinality(AtAt(i)) \in Nat /\ Cardinality(IpAt(i)) \in Nat
      /\ Cardinality(PutsAt(i)) \in Nat
  BY <1>6, FS_CardinalityType
<1>8. <<p, 1>> \in PutsAt(i)
  BY <1>1 DEF PutsAt
<1>9. Cardinality(PutsAt(i)) # 0
  BY <1>6, <1>8, FS_EmptySet
<1> HIDE DEF i
<1>10. PICK a \in Nat, b \in Nat, c \in Nat, e \in Nat, f \in Nat :
         /\ a = Cardinality(CwdAt(i)) /\ b = Cardinality(FdAt(i))
         /\ c = Cardinality(AtAt(i)) /\ e = Cardinality(IpAt(i))
         /\ f = Cardinality(PutsAt(i))
  BY <1>7
<1>11. 1 = a + b + c + e + f /\ f # 0
  BY <1>3, <1>9, <1>10 DEF i
<1>12. a = 0 /\ b = 0 /\ c = 0 /\ e = 0
  BY <1>11
<1>13. CwdAt(i) = {} /\ FdAt(i) = {} /\ AtAt(i) = {} /\ IpAt(i) = {}
  BY <1>6, <1>10, <1>12, FS_EmptySet
<1>14. Unheld(i)
  BY <1>13 DEF Unheld, CwdAt, FdAt, AtAt, IpAt
<1> QED
  BY <1>2, <1>14 DEF i
-----------------------------------------------------------------------------
\* A locked inode is in use, and its holder points to it.
LEMMA LockedHeld ==
  ASSUME IInv, Domains, Holders, NEW i \in Inum, lock[i] # None
  PROVE  /\ lock[i] \in Procs /\ Has(lock[i], i)
         /\ ~Unheld(i) /\ disk[i].type # "free" /\ mem[i] # NotRead
<1>1. lock[i] \in Procs
  BY DEF Domains
<1>2. Has(lock[i], i) /\ HoldsOK(lock[i])
  BY <1>1 DEF Holders, LocksHeld
<1> QED
  BY <1>1, <1>2 DEF Has, HoldsOK, Unheld

\* What a step of process p leaves to the others.
Keeps(p) ==
  /\ \A j \in Inum :
       /\ lock'[j] = lock[j] \/ (lock[j] \in {None, p} /\ lock'[j] \in {None, p})
       /\ mem'[j] # NotRead \/ mem'[j] = mem[j] \/ Unheld(j)
       /\ ents'[j] = ents[j] \/ lock[j] \in {None, p} \/ Unheld(j)
       /\ disk'[j].type = disk[j].type \/ disk[j].type = "free" \/ Unheld(j)
  /\ \A q \in Procs : q # p => /\ cwd'[q] = cwd[q] /\ fd'[q] = fd[q]
                               /\ op'[q] = op[q] /\ pc'[q] = pc[q]

\* What another process relies on survives a step that keeps it.
LEMMA OthersHold ==
  ASSUME IInv, Domains, Holders, NEW p \in Procs, Keeps(p), NEW q \in Procs, q # p
  PROVE  HoldsOK(q)'
<1>1. HoldsOK(q) /\ OpAt(op[q], pc[q])
  BY OpIs DEF Holders
<1>2. cwd'[q] = cwd[q] /\ fd'[q] = fd[q] /\ op'[q] = op[q] /\ pc'[q] = pc[q]
  BY DEF Keeps
<1>3. /\ ~Unheld(cwd[q]) /\ ~Unheld(fd[q]) /\ ~Unheld(op[q].at) /\ ~Unheld(op[q].ip)
      /\ cwd[q] \in Inum /\ fd[q] \in Inum \cup {None}
      /\ op[q].at \in Inum \cup {None} /\ op[q].ip \in Inum \cup {None}
  BY OpIs DEF Unheld
<1>4. \A j \in Inum : ~Unheld(j) /\ disk[j].type # "free" => disk'[j].type = disk[j].type
  BY DEF Keeps
<1>5. \A j \in Inum : ~Unheld(j) /\ lock[j] = q =>
        lock'[j] = q /\ ents'[j] = ents[j] /\ (mem[j] # NotRead => mem'[j] # NotRead)
  BY FConstants DEF Keeps
<1>6. disk'[cwd'[q]].type = "dir"
  BY <1>1, <1>2, <1>3, <1>4 DEF HoldsOK
<1>7. fd'[q] # None => disk'[fd'[q]].type # "free"
  BY <1>1, <1>2, <1>3, <1>4 DEF HoldsOK
<1>8. pc'[q] \in {"parent", "child"} => disk'[op'[q].at].type = "dir"
  BY <1>1, <1>2, <1>3, <1>4 DEF HoldsOK, OpAt
<1>9. pc'[q] \in {"child", "unlinked", "locked"} => disk'[op'[q].ip].type # "free"
  BY <1>1, <1>2, <1>3, <1>4 DEF HoldsOK, OpAt
<1>10. op'[q].call = "link" /\ op'[q].ip # None => disk'[op'[q].ip].type = "file"
  BY <1>1, <1>2, <1>3, <1>4 DEF HoldsOK
<1>11. pc'[q] = "child" =>
         /\ lock'[op'[q].at] = q /\ mem'[op'[q].at] # NotRead
         /\ Name(op'[q].path) \in Names /\ ents'[op'[q].at][Name(op'[q].path)] = op'[q].ip
  BY <1>1, <1>2, <1>3, <1>5 DEF HoldsOK, OpAt
<1>12. pc'[q] \in {"unlinked", "locked"} => lock'[op'[q].ip] = q /\ mem'[op'[q].ip] # NotRead
  BY <1>1, <1>2, <1>3, <1>5 DEF HoldsOK, OpAt
<1>13. NoParentPaths =>
         /\ NamesOnly(op'[q].path) /\ NamesOnly(op'[q].new)
         /\ pc'[q] \in {"walk", "target"} => disk'[op'[q].at].type # "free"
         /\ pc'[q] = "exists" => disk'[op'[q].ip].type # "free"
  BY <1>1, <1>2, <1>3, <1>4 DEF HoldsOK, OpAt
<1>14. CallAt(op'[q], pc'[q])
  BY <1>1, <1>2 DEF HoldsOK
<1> QED
  BY <1>6, <1>7, <1>8, <1>9, <1>10, <1>11, <1>12, <1>13, <1>14 DEF HoldsOK

\* What is left to show of Holders after a step of p.
LEMMA HoldersKept ==
  ASSUME IInv, Domains, Domains', Holders, NEW p \in Procs, Keeps(p), HoldsOK(p)',
         \A j \in Inum : lock'[j] = p => Has(p, j)'
  PROVE  Holders'
<1>1. \A q \in Procs : HoldsOK(q)'
  <2> TAKE q \in Procs
  <2>1. CASE q = p
    BY <2>1
  <2>2. CASE q # p
    BY <2>2, OthersHold
  <2> QED
    BY <2>1, <2>2
<1>2. ASSUME NEW j \in Inum, lock'[j] # None PROVE Has(lock[j], j)'
  <2>1. CASE lock'[j] = p
    BY <2>1
  <2>2. CASE lock'[j] # p
    <3>1. lock'[j] = lock[j]
      BY <1>2, <2>2 DEF Keeps
    <3>2. lock[j] \in Procs /\ lock[j] # p /\ Has(lock[j], j)
      BY <1>2, <2>2, <3>1, LockedHeld
    <3>3. op'[lock[j]] = op[lock[j]] /\ pc'[lock[j]] = pc[lock[j]]
      BY <3>2 DEF Keeps
    <3> QED
      BY <3>1, <3>2, <3>3 DEF Has
  <2> QED
    BY <2>1, <2>2
<1> QED
  BY <1>1, <1>2 DEF Holders, LocksHeld

-----------------------------------------------------------------------------
\* One link of i that is not an entry: nlink++ before it, or nlink-- after it.
Pend(o, l, i) == o.ip = i /\ (o.call = "link" \/ l = "unlinked")

\* LinkCount of one inode.
Links(i) == Cardinality(EntriesOf(i)) + Cardinality(SubdirsOf(i))
            + Cardinality(Pending(i)) + (IF i = ROOTINO THEN 1 ELSE 0)
LinkOK(i) == disk[i].type # "free" =>
               IF i \in lost THEN disk[i].nlink >= Links(i) ELSE disk[i].nlink = Links(i)

\* LinkCount, one inode at a time.
LEMMA LinksAre == LinkCount <=> \A i \in Inum : LinkOK(i)
  BY DEF LinkCount, LinkOK, Links

\* The sets that LinkCount counts are finite.
LEMMA LinkSets ==
  ASSUME NEW i
  PROVE  /\ EntriesOf(i) \in SUBSET (Inum \X Names) /\ IsFiniteSet(EntriesOf(i))
         /\ SubdirsOf(i) \in SUBSET Inum /\ IsFiniteSet(SubdirsOf(i))
         /\ Pending(i) \in SUBSET Procs /\ IsFiniteSet(Pending(i))
         /\ Cardinality(EntriesOf(i)) \in Nat /\ Cardinality(SubdirsOf(i)) \in Nat
         /\ Cardinality(Pending(i)) \in Nat
<1>1. /\ EntriesOf(i) \in SUBSET (Inum \X Names) /\ SubdirsOf(i) \in SUBSET Inum
      /\ Pending(i) \in SUBSET Procs
  BY DEF EntriesOf, SubdirsOf, Pending
<1>2. IsFiniteSet(EntriesOf(i)) /\ IsFiniteSet(SubdirsOf(i)) /\ IsFiniteSet(Pending(i))
  BY <1>1, FConstants, FS_Subset
<1> QED
  BY <1>1, <1>2, FS_CardinalityType

\* The same after the step.
LEMMA LinkSetsNext ==
  ASSUME NEW i
  PROVE  /\ EntriesOf(i)' \in SUBSET (Inum \X Names) /\ IsFiniteSet(EntriesOf(i)')
         /\ SubdirsOf(i)' \in SUBSET Inum /\ IsFiniteSet(SubdirsOf(i)')
         /\ Pending(i)' \in SUBSET Procs /\ IsFiniteSet(Pending(i)')
         /\ Cardinality(EntriesOf(i)') \in Nat /\ Cardinality(SubdirsOf(i)') \in Nat
         /\ Cardinality(Pending(i)') \in Nat
<1>1. /\ EntriesOf(i)' \in SUBSET (Inum \X Names) /\ SubdirsOf(i)' \in SUBSET Inum
      /\ Pending(i)' \in SUBSET Procs
  BY DEF EntriesOf, SubdirsOf, Pending
<1>2. IsFiniteSet(EntriesOf(i)') /\ IsFiniteSet(SubdirsOf(i)') /\ IsFiniteSet(Pending(i)')
  BY <1>1, FConstants, FS_Subset
<1> QED
  BY <1>1, <1>2, FS_CardinalityType

\* A step moves one process in or out of Pending(i).
LEMMA PendingMoves ==
  ASSUME NEW p \in Procs, NEW i,
         \A q \in Procs : q # p => op'[q] = op[q] /\ pc'[q] = pc[q]
  PROVE  /\ Cardinality(Pending(i)') + (IF Pend(op[p], pc[p], i) THEN 1 ELSE 0)
              = Cardinality(Pending(i)) + (IF Pend(op'[p], pc'[p], i) THEN 1 ELSE 0)
         /\ Cardinality(Pending(i)') \in Nat /\ Cardinality(Pending(i)) \in Nat
<1>1. Pending(i) \in SUBSET Procs /\ Pending(i)' \in SUBSET Procs
  BY DEF Pending
<1>2. \A q \in Procs : q # p => (q \in Pending(i) <=> q \in Pending(i)')
  BY DEF Pending
<1>3. (p \in Pending(i) <=> Pend(op[p], pc[p], i)) /\ (p \in Pending(i)' <=> Pend(op'[p], pc'[p], i))
  BY DEF Pending, Pend
<1> QED
  BY <1>1, <1>2, <1>3, FConstants, OneMoves

\* A step that leaves the links of i alone.
LEMMA SameLinkOK ==
  ASSUME NEW i \in Inum, LinkOK(i), NEW p \in Procs,
         \A q \in Procs : q # p => op'[q] = op[q] /\ pc'[q] = pc[q],
         disk[i].type # "free" => (Pend(op[p], pc[p], i) <=> Pend(op'[p], pc'[p], i)),
         disk[i].type = "free" <=> disk'[i].type = "free", disk'[i].nlink = disk[i].nlink,
         Cardinality(EntriesOf(i)') = Cardinality(EntriesOf(i)),
         Cardinality(SubdirsOf(i)') = Cardinality(SubdirsOf(i)),
         i \in lost <=> i \in lost'
  PROVE  LinkOK(i)'
<1>1. CASE disk[i].type = "free"
  BY <1>1 DEF LinkOK
<1>2. CASE disk[i].type # "free"
  <2>1. Cardinality(Pending(i)') = Cardinality(Pending(i))
    <3>1. PICK a \in Nat, b \in Nat : a = Cardinality(Pending(i)') /\ b = Cardinality(Pending(i))
      BY PendingMoves
    <3>2. a + (IF Pend(op[p], pc[p], i) THEN 1 ELSE 0) = b + (IF Pend(op'[p], pc'[p], i) THEN 1 ELSE 0)
      BY <3>1, PendingMoves
    <3>3. a = b
      BY <1>2, <3>2
    <3> QED
      BY <3>1, <3>3
  <2>2. Links(i)' = Links(i)
    BY <2>1 DEF Links
  <2> QED
    BY <1>2, <2>2 DEF LinkOK
<1> QED
  BY <1>1, <1>2

\* A step of p that changes neither directories nor the disk.
Quiet(p) ==
  /\ disk' = disk /\ ents' = ents /\ bitmap' = bitmap /\ lost' = lost
  /\ \A j \in Inum : mem'[j] \in {mem[j], disk[j], NotRead}
  /\ \A q \in Procs : q # p => op'[q] = op[q] /\ pc'[q] = pc[q]
  /\ \A j \in Inum : disk[j].type # "free" => (Pend(op[p], pc[p], j) <=> Pend(op'[p], pc'[p], j))

\* A step that changes no entry, link or block leaves the file system as it is.
LEMMA QuietFs ==
  ASSUME FsInv, NEW p \in Procs, Quiet(p)
  PROVE  FsInv'
<1>1. LinkCount'
  <2>1. ASSUME NEW i \in Inum PROVE LinkOK(i)'
    <3>1. EntriesOf(i)' = EntriesOf(i) /\ SubdirsOf(i)' = SubdirsOf(i)
      BY DEF Quiet, EntriesOf, SubdirsOf, Named
    <3>2. LinkOK(i)
      BY LinksAre DEF FsInv
    <3> QED
      BY <3>1, <3>2, SameLinkOK DEF Quiet
  <2> QED
    BY <2>1 DEF LinkCount, LinkOK, Links
<1>2. BlocksOwned'
  BY DEF FsInv, Quiet, BlocksOwned
<1>3. TableIsDisk'
  BY DEF FsInv, Quiet, TableIsDisk
<1>4. Shapes' /\ Tree' /\ Sizes'
  BY DEF FsInv, Quiet, Shapes, Tree, Entry, Sizes
<1> QED
  BY <1>1, <1>2, <1>3, <1>4 DEF FsInv
-----------------------------------------------------------------------------
\* Only process p moves.
Others(p) == \A q \in Procs : q # p => /\ cwd'[q] = cwd[q] /\ fd'[q] = fd[q]
                                       /\ op'[q] = op[q] /\ pc'[q] = pc[q]

\* Process p takes or gives back locks, nobody else.
LockStep(p) ==
  /\ lock' \in [Inum -> Procs \cup {None}]
  /\ \A j \in Inum : lock'[j] = lock[j]
                     \/ (lock[j] \in {None, p} /\ lock'[j] \in {None, p})

\* A step that looks at inode i and changes nothing of the file system.
Looks(i) ==
  /\ disk' = disk /\ ents' = ents /\ bitmap' = bitmap /\ lost' = lost
  /\ freeing' = freeing /\ panicked' \in BOOLEAN
  /\ mem' = mem \/ mem' = [mem EXCEPT ![i] = Ilock(i)]

\* The step does not change which link of an inode in use p has pending.
PendSame(p) ==
  \A j \in Inum : disk[j].type # "free" => (Pend(op[p], pc[p], j) <=> Pend(op'[p], pc'[p], j))

\* What p itself relies on after the step.
OwnOK(p) == HoldsOK(p)' /\ \A j \in Inum : lock'[j] = p => Has(p, j)'

\* The rest of FInv after a step whose effect on the file system is known.
LEMMA EndFInv ==
  ASSUME FInv, ~panicked, IInv', NEW p \in Procs, Domains', FsInv', Keeps(p),
         ~panicked' => OwnOK(p), NoParentPaths => ~panicked'
  PROVE  FInv'
  BY HoldersKept DEF FInv, OwnOK

\* A step that only reads inode i into the table.
LEMMA LooksFInv ==
  ASSUME FInv, ~panicked, IInv', NEW p \in Procs, NEW i \in Inum, Looks(i), LockStep(p),
         Others(p), PendSame(p), ~panicked' => OwnOK(p), NoParentPaths => ~panicked'
  PROVE  FInv'
<1>1. Domains /\ FsInv
  BY DEF FInv
<1>2. Ilock(i) = disk[i] /\ disk[i] \in Dinode /\ disk[i] # NotRead
  BY <1>1, IlockIs DEF FsInv
<1>3. mem' \in [Inum -> Dinode \cup {NotRead}]
      /\ \A j \in Inum : mem'[j] = mem[j] \/ (mem'[j] = disk[j] /\ mem'[j] # NotRead)
  BY <1>1, <1>2 DEF Domains, Looks
<1>4. Domains'
  BY <1>1, <1>3 DEF Domains, Looks, LockStep
<1>5. Quiet(p)
  BY <1>3 DEF Quiet, Looks, Others, PendSame
<1>6. FsInv'
  BY <1>1, <1>5, QuietFs
<1>7. Keeps(p)
  BY <1>3 DEF Keeps, LockStep, Looks, Others
<1> QED
  BY <1>4, <1>6, <1>7, EndFInv

\* A process that has nothing locked.
LEMMA NoLocks ==
  ASSUME FInv, ~panicked, NEW p \in Procs, pc[p] \notin {"child", "unlinked", "locked"}
  PROVE  \A j \in Inum : lock[j] # p
<1>1. Holders
  BY DEF FInv
<1> QED
  BY <1>1, FConstants DEF Holders, LocksHeld, Has

\* With the locks unchanged nobody gets or loses one.
LEMMA LocksSame ==
  ASSUME FInv, UNCHANGED lock
  PROVE  \A p \in Procs : LockStep(p)
  BY DEF FInv, Domains, LockStep

\* What FInv gives to the steps of process p.
LEMMA FInvIs ==
  ASSUME FInv, ~panicked, NEW p \in Procs
  PROVE  /\ IInv /\ Domains /\ FsInv /\ Tables /\ HoldsOK(p) /\ Holders
         /\ panicked \in BOOLEAN
         /\ disk \in [Inum -> Dinode] /\ disk[cwd[p]].type = "dir"
         /\ \A i \in Inum : Ilock(i) = disk[i] /\ disk[i] # NotRead
<1>1. Domains /\ FsInv
  BY DEF FInv
<1>2. \A i \in Inum : Ilock(i) = disk[i] /\ disk[i] # NotRead
  BY <1>1, IlockIs DEF FsInv
<1> QED
  BY <1>1, <1>2 DEF FInv, IInv, Holders, HoldsOK, Domains

\* What Goto() and Return() leave, for those who only need the moves.
LEMMA GotoOwn ==
  ASSUME Tables, NEW p \in Procs, NEW l, NEW ps, Goto(p, l, ps)
  PROVE  pc'[p] = l /\ \A q \in Procs : q # p => pc'[q] = pc[q]
  BY DEF Tables, Goto

\* Where Return leaves p, and the others.
LEMMA ReturnOwn ==
  ASSUME Tables, NEW p \in Procs, NEW ps, Return(p, ps)
  PROVE  /\ pc'[p] = "idle" /\ op'[p] = NoOp
         /\ \A q \in Procs : q # p => pc'[q] = pc[q] /\ op'[q] = op[q]
  BY DEF Tables, Goto, Return

\* Between two calls.
LEMMA IdleOwn ==
  ASSUME NEW p \in Procs, op'[p] = NoOp, pc'[p] = "idle", disk'[cwd'[p]].type = "dir",
         fd'[p] # None => disk'[fd'[p]].type # "free", \A j \in Inum : lock'[j] # p
  PROVE  OwnOK(p)
<1>1. NoOp.call = "none" /\ NoOp.path = << >> /\ NoOp.new = << >> /\ NoOp.ip = None
  BY DEF NoOp
<1>2. NamesOnly(<< >>)
  BY DEF NamesOnly
<1> QED
  BY <1>1, <1>2 DEF OwnOK, HoldsOK, CallAt

\* A call that ends and holds no lock.
LEMMA ReturnsFInv ==
  ASSUME FInv, ~panicked, IInv', NEW p \in Procs, NEW i \in Inum, NEW ps,
         Looks(i), UNCHANGED lock, UNCHANGED cwd, UNCHANGED fd, Return(p, ps),
         pc[p] \notin {"child", "unlinked", "locked"},
         op[p].ip # None => op[p].call # "link",
         NoParentPaths => ~panicked'
  PROVE  FInv'
<1>1. Tables /\ HoldsOK(p)
  BY FInvIs
<1>2. /\ pc'[p] = "idle" /\ op'[p] = NoOp
      /\ \A q \in Procs : q # p => pc'[q] = pc[q] /\ op'[q] = op[q]
  BY <1>1, ReturnOwn
<1>3. OwnOK(p)
  BY <1>1, <1>2, NoLocks, IdleOwn DEF Looks, HoldsOK
<1>4. PendSame(p)
  BY <1>2, Constants DEF PendSame, Pend, NoOp
<1>5. Others(p)
  BY <1>2 DEF Others
<1>6. LockStep(p)
  BY LocksSame
<1> QED
  BY <1>3, <1>4, <1>5, <1>6, LooksFInv

\* A call that goes on without a lock: what has to hold of its new record.
MayGo(o, l) ==
  /\ CallAt(o, l) /\ l \notin {"child", "unlinked", "locked"}
  /\ l = "parent" => disk[o.at].type = "dir"
  /\ o.call = "link" /\ o.ip # None => disk[o.ip].type = "file"
  /\ NoParentPaths =>
       /\ NamesOnly(o.path) /\ NamesOnly(o.new)
       /\ l \in {"walk", "target"} => disk[o.at].type # "free"
       /\ l = "exists" => disk[o.ip].type # "free"

\* Both records have the same link to take back.
SameLink(o, new) ==
  \A j \in Inum : (o.ip = j /\ o.call = "link") <=> (new.ip = j /\ new.call = "link")

\* A step that reads inode i and goes on at a label where nothing is locked.
LEMMA GoesFInv ==
  ASSUME FInv, ~panicked, IInv', NEW p \in Procs, NEW i \in Inum, NEW o, NEW l, NEW ps,
         Looks(i), UNCHANGED lock, UNCHANGED cwd, UNCHANGED fd,
         Goto(p, l, ps), op' = [op EXCEPT ![p] = o],
         pc[p] \notin {"child", "unlinked", "locked"}, MayGo(o, l), SameLink(op[p], o),
         NoParentPaths => ~panicked'
  PROVE  FInv'
<1>1. Tables /\ HoldsOK(p)
  BY FInvIs
<1>2. /\ pc'[p] = l /\ op'[p] = o
      /\ \A q \in Procs : q # p => pc'[q] = pc[q] /\ op'[q] = op[q]
  BY <1>1, GotoOwn DEF Tables
<1>3. \A j \in Inum : lock'[j] # p
  BY NoLocks
<1>4. OwnOK(p)
  <2>1. disk'[cwd'[p]].type = "dir" /\ (fd'[p] # None => disk'[fd'[p]].type # "free")
    BY <1>1 DEF HoldsOK, Looks
  <2> QED
    BY <1>2, <1>3, <2>1 DEF OwnOK, HoldsOK, MayGo, Looks
<1>5. PendSame(p)
  BY <1>2 DEF PendSame, Pend, SameLink, MayGo
<1>6. Others(p) /\ LockStep(p)
  BY <1>2, LocksSame DEF Others
<1> QED
  BY <1>4, <1>5, <1>6, LooksFInv

\* The steps that only read inodes, one lemma each.
LEMMA StartFInv ==
  ASSUME FInv, ~panicked, IInv', NEW p \in Procs, NEW call \in CallsOf[p],
         NEW path \in Paths, NEW from \in {ROOTINO, cwd[p]},
         NEW new \in IF call = "link" THEN Paths ELSE {<< >>},
         Start(p, call, path, new, from)
  PROVE  FInv'
<1> DEFINE o == [call |-> call, path |-> path, new |-> new, at |-> from, ip |-> None]
<1>1. /\ pc[p] = "idle" /\ op' = [op EXCEPT ![p] = o] /\ Goto(p, "walk", << >>)
      /\ UNCHANGED lock /\ UNCHANGED cwd /\ UNCHANGED fd /\ panicked' = panicked
      /\ disk' = disk /\ ents' = ents /\ bitmap' = bitmap /\ lost' = lost
      /\ freeing' = freeing /\ mem' = mem
  BY DEF Start, At, tableVars
<1>2. IInv /\ Shapes /\ panicked \in BOOLEAN /\ disk[cwd[p]].type = "dir"
  BY FInvIs DEF FsInv
<1>3. /\ o.call = call /\ o.path = path /\ o.new = new /\ o.at = from /\ o.ip = None
  OBVIOUS
<1> HIDE DEF o
<1>4. disk[from].type = "dir"
  BY <1>2 DEF Shapes
<1>5. NoParentPaths => NamesOnly(path) /\ NamesOnly(new)
  <2>1. NamesOnly(<< >>)
    BY DEF NamesOnly
  <2> QED
    BY <2>1 DEF NoParentPaths
<1>6. MayGo(o, "walk")
  BY <1>3, <1>4, <1>5 DEF MayGo, CallAt
<1>7. SameLink(op[p], o)
  <2>1. op[p].ip = None
    BY <1>1, <1>2, OpIs DEF OpAt
  <2> QED
    BY <1>3, <2>1, Constants DEF SameLink
<1>8. Looks(ROOTINO)
  BY <1>1, <1>2 DEF Looks
<1> QED
  BY <1>1, <1>6, <1>7, <1>8, Constants, GoesFInv

\* A lookup that fails.
LEMMA LookupFailsFInv ==
  ASSUME FInv, ~panicked, IInv', NEW p \in Procs, NEW i \in Inum, NEW ps,
         Looks(i), UNCHANGED lock, UNCHANGED cwd, UNCHANGED fd, LookupFails(p, ps),
         pc[p] \in {"walk", "parent"}, NoParentPaths => ~panicked'
  PROVE  FInv'
<1>1. IInv /\ HoldsOK(p)
  BY FInvIs
<1>2. op[p] \in OpRec /\ op[p].ip \in Inum \cup {None}
  BY <1>1, OpIs
<1>3. CASE op[p].call = "link" /\ op[p].ip # None
  <2> DEFINE o == [op[p] EXCEPT !.at = None]
  <2>1. Goto(p, "undo", ps) /\ op' = [op EXCEPT ![p].at = None]
    BY <1>3 DEF LookupFails
  <2>2. op' = [op EXCEPT ![p] = o]
    BY <1>1, <2>1 DEF IInv, Tables
  <2>3. /\ o.call = op[p].call /\ o.ip = op[p].ip /\ o.path = op[p].path
        /\ o.new = op[p].new
    BY <1>2 DEF OpRec
  <2> HIDE DEF o
  <2>4. MayGo(o, "undo")
    BY <1>1, <1>3, <2>3 DEF MayGo, CallAt, HoldsOK
  <2>5. SameLink(op[p], o)
    BY <2>3 DEF SameLink
  <2> QED
    BY <2>1, <2>2, <2>4, <2>5, GoesFInv
<1>4. CASE ~(op[p].call = "link" /\ op[p].ip # None)
  <2>1. Return(p, ps)
    BY <1>4 DEF LookupFails
  <2> QED
    BY <1>4, <2>1, ReturnsFInv
<1> QED
  BY <1>3, <1>4

\* Without "..", a name that is found leads to an inode in use.
LEMMA FoundInUse ==
  ASSUME FInv, ~panicked, NEW d \in Inum, NEW n \in Names, ents[d][n] # None
  PROVE  ents[d][n] \in Inum /\ disk[ents[d][n]].type # "free"
<1>1. ents[d][n] \in Inum
  BY DEF FInv, IInv, Tables, EntryNames
<1> QED
  BY <1>1 DEF FInv, FsInv, Tree, Entry

\* The parts of a path.
LEMMA PathParts ==
  ASSUME NEW path \in Seq(EntryNames), path # << >>
  PROVE  /\ Name(path) \in EntryNames
         /\ NamesOnly(path) => Name(path) \in Names /\ NamesOnly(SkipElem(path))
<1>1. Name(path) = path[1] /\ path[1] \in EntryNames /\ Len(path) \in Nat /\ Len(path) # 0
  BY EmptySeq DEF Name
<1>2. ASSUME NamesOnly(path) PROVE path[1] # ".."
  <2>1. 1 \in 1..Len(path)
    BY <1>1
  <2> QED
    BY <1>2, <2>1 DEF NamesOnly
<1>3. ASSUME NamesOnly(path), NEW k \in 1..Len(Tail(path)) PROVE Tail(path)[k] # ".."
  <2>1. Len(Tail(path)) = Len(path) - 1
    OBVIOUS
  <2>2. k + 1 \in 1..Len(path)
    BY <1>1, <2>1
  <2>3. Tail(path)[k] = path[k + 1]
    BY <1>3, HeadTailProperties
  <2> QED
    BY <1>3, <2>2, <2>3 DEF NamesOnly
<1> QED
  BY <1>1, <1>2, <1>3 DEF NamesOnly, SkipElem, EntryNames

LEMMA WalkFInv ==
  ASSUME FInv, ~panicked, IInv', NEW p \in Procs, Walk(p)
  PROVE  FInv'
<1> DEFINE i == op[p].at
           next == DirLookup(i, Name(op[p].path))
<1>1. /\ pc[p] = "walk" /\ UNCHANGED lock /\ UNCHANGED cwd /\ UNCHANGED fd
      /\ panicked' = NoType(i) /\ mem' = [mem EXCEPT ![i] = Ilock(i)] /\ disk' = disk
      /\ ents' = ents /\ bitmap' = bitmap /\ lost' = lost /\ freeing' = freeing
      /\ \/ LookupFails(p, <<i>>)
         \/ /\ Ilock(i).type = "dir" /\ WantsParent(op[p])
            /\ Goto(p, "parent", << >>) /\ UNCHANGED op
         \/ /\ next # None
            /\ op' = [op EXCEPT ![p].at = next, ![p].path = SkipElem(@)]
            /\ Goto(p, IF Len(op[p].path) = 1 THEN "target" ELSE "walk", <<i>>)
  BY DEF Walk, At, Load
<1>2. /\ IInv /\ HoldsOK(p) /\ op[p] \in OpRec /\ i \in Inum
      /\ op[p].path \in Seq(EntryNames) /\ op[p].path # << >>
  BY <1>1, FInvIs, OpIs DEF OpAt
<1>3. Looks(i) /\ Ilock(i) = disk[i]
  BY <1>1, <1>2, FInvIs DEF Looks, NoType
<1>4. NoParentPaths => ~panicked'
  BY <1>1, <1>2, <1>3 DEF HoldsOK, NoType
<1>5. CASE LookupFails(p, <<i>>)
  BY <1>1, <1>2, <1>3, <1>4, <1>5, LookupFailsFInv
<1>6. CASE Ilock(i).type = "dir" /\ Goto(p, "parent", << >>) /\ UNCHANGED op
  <2>1. op' = [op EXCEPT ![p] = op[p]]
    BY <1>2, <1>6 DEF IInv, Tables
  <2>2. MayGo(op[p], "parent")
    BY <1>1, <1>2, <1>3, <1>6 DEF MayGo, HoldsOK, CallAt
  <2>3. SameLink(op[p], op[p])
    BY DEF SameLink
  <2> QED
    BY <1>1, <1>2, <1>3, <1>4, <1>6, <2>1, <2>2, <2>3, GoesFInv
<1>7. CASE /\ next # None
           /\ op' = [op EXCEPT ![p].at = next, ![p].path = SkipElem(@)]
           /\ Goto(p, IF Len(op[p].path) = 1 THEN "target" ELSE "walk", <<i>>)
  <2> DEFINE o == [op[p] EXCEPT !.at = next, !.path = SkipElem(@)]
             l == IF Len(op[p].path) = 1 THEN "target" ELSE "walk"
  <2>1. op' = [op EXCEPT ![p] = o]
    BY <1>2, <1>7 DEF IInv, Tables
  <2>2. /\ o.at = next /\ o.ip = op[p].ip /\ o.call = op[p].call
        /\ o.path = SkipElem(op[p].path) /\ o.new = op[p].new
    BY <1>2 DEF OpRec
  <2>3. l \in {"walk", "target"} /\ Goto(p, l, <<i>>)
    BY <1>7
  <2>4. NamesOnly(op[p].path) => NamesOnly(SkipElem(op[p].path)) /\ disk[next].type # "free"
    BY <1>2, <1>7, PathParts, FoundInUse DEF DirLookup
  <2> HIDE DEF o, l, next
  <2>5. MayGo(o, l)
    BY <1>1, <1>2, <2>2, <2>3, <2>4 DEF MayGo, HoldsOK, CallAt
  <2>6. SameLink(op[p], o)
    BY <2>2 DEF SameLink
  <2> QED
    BY <1>1, <1>2, <1>3, <1>4, <2>1, <2>3, <2>5, <2>6, GoesFInv
<1> QED
  BY <1>1, <1>5, <1>6, <1>7
-----------------------------------------------------------------------------
\* open() and create() keep the lock of the inode they found.
LEMMA LockedFInv ==
  ASSUME FInv, ~panicked, IInv', NEW p \in Procs, NEW i \in Inum, NEW o, NEW ps,
         Looks(i), mem' = [mem EXCEPT ![i] = Ilock(i)], UNCHANGED cwd, UNCHANGED fd,
         lock[i] = None, lock' = [lock EXCEPT ![i] = p],
         Goto(p, "locked", ps), op' = [op EXCEPT ![p] = o], o.ip = i,
         o.path = op[p].path, o.new = op[p].new,
         op[p].call # "link", o.call # "link",
         pc[p] \notin {"child", "unlinked", "locked"},
         ~panicked' => disk[i].type # "free", NoParentPaths => ~panicked'
  PROVE  FInv'
<1>1. /\ Tables /\ HoldsOK(p) /\ Domains /\ Ilock(i) = disk[i] /\ disk[i] # NotRead
  BY FInvIs
<1>2. /\ pc'[p] = "locked" /\ op'[p] = o
      /\ \A q \in Procs : q # p => pc'[q] = pc[q] /\ op'[q] = op[q]
  BY <1>1, GotoOwn DEF Tables
<1>3. /\ lock'[i] = p /\ \A j \in Inum : lock'[j] = p => j = i
      /\ LockStep(p)
  BY <1>1, NoLocks DEF Domains, LockStep
<1>4. mem'[i] # NotRead
  BY <1>1 DEF Domains
<1>5. ASSUME ~panicked' PROVE OwnOK(p)
  <2>1. disk'[cwd'[p]].type = "dir" /\ (fd'[p] # None => disk'[fd'[p]].type # "free")
    BY <1>1 DEF HoldsOK, Looks
  <2>2. CallAt(op'[p], pc'[p]) /\ disk'[i].type # "free"
    BY <1>2, <1>5 DEF CallAt, Looks
  <2>3. NoParentPaths => NamesOnly(o.path) /\ NamesOnly(o.new)
    BY <1>1 DEF HoldsOK
  <2>4. \A j \in Inum : lock'[j] = p => Has(p, j)'
    BY <1>2, <1>3 DEF Has
  <2> QED
    BY <1>2, <1>3, <1>4, <2>1, <2>2, <2>3, <2>4 DEF OwnOK, HoldsOK
<1>6. PendSame(p) /\ Others(p)
  BY <1>2 DEF PendSame, Pend, Others
<1> QED
  BY <1>3, <1>5, <1>6, LooksFInv

LEMMA OpenTargetFInv ==
  ASSUME FInv, ~panicked, IInv', NEW p \in Procs, OpenTarget(p)
  PROVE  FInv'
<1> DEFINE i == op[p].at
           o == [op[p] EXCEPT !.at = None, !.ip = i]
<1>1. /\ pc[p] = "target" /\ op[p].call \in {"open", "trunc"} /\ lock[i] = None
      /\ UNCHANGED cwd /\ UNCHANGED fd
      /\ panicked' = NoType(i) /\ mem' = [mem EXCEPT ![i] = Ilock(i)] /\ disk' = disk
      /\ ents' = ents /\ bitmap' = bitmap /\ lost' = lost /\ freeing' = freeing
      /\ \/ Return(p, <<i>>) /\ UNCHANGED lock
         \/ /\ lock' = [lock EXCEPT ![i] = p] /\ Goto(p, "locked", << >>)
            /\ op' = [op EXCEPT ![p].at = None, ![p].ip = i]
  BY DEF OpenTarget, At, Load
<1>2. /\ IInv /\ HoldsOK(p) /\ op[p] \in OpRec /\ i \in Inum /\ op[p].ip = None
  BY <1>1, FInvIs, OpIs DEF OpAt
<1>3. Looks(i) /\ Ilock(i) = disk[i]
  BY <1>1, <1>2, FInvIs DEF Looks, NoType
<1>4. NoParentPaths => ~panicked'
  BY <1>1, <1>2, <1>3 DEF HoldsOK, NoType
<1>5. CASE Return(p, <<i>>) /\ UNCHANGED lock
  BY <1>1, <1>2, <1>3, <1>4, <1>5, ReturnsFInv
<1>6. CASE /\ lock' = [lock EXCEPT ![i] = p] /\ Goto(p, "locked", << >>)
           /\ op' = [op EXCEPT ![p].at = None, ![p].ip = i]
  <2>1. op' = [op EXCEPT ![p] = o]
    BY <1>2, <1>6 DEF IInv, Tables
  <2>2. /\ o.ip = i /\ o.call = op[p].call /\ o.path = op[p].path /\ o.new = op[p].new
    BY <1>2 DEF OpRec
  <2>3. ~panicked' => disk[i].type # "free"
    BY <1>1, <1>3 DEF NoType
  <2> HIDE DEF o
  <2> QED
    BY <1>1, <1>2, <1>3, <1>4, <1>6, <2>1, <2>2, <2>3, LockedFInv
<1> QED
  BY <1>1, <1>5, <1>6

LEMMA ChdirFInv ==
  ASSUME FInv, ~panicked, IInv', NEW p \in Procs, Chdir(p)
  PROVE  FInv'
<1> DEFINE i == op[p].at
<1>1. /\ pc[p] = "target" /\ UNCHANGED lock /\ UNCHANGED fd
      /\ panicked' = NoType(i) /\ mem' = [mem EXCEPT ![i] = Ilock(i)] /\ disk' = disk
      /\ ents' = ents /\ bitmap' = bitmap /\ lost' = lost /\ freeing' = freeing
      /\ \/ Return(p, <<i>>) /\ UNCHANGED cwd
         \/ /\ Ilock(i).type = "dir" /\ Return(p, <<cwd[p]>>)
            /\ cwd' = [cwd EXCEPT ![p] = i]
  BY DEF Chdir, At, Load
<1>2. /\ IInv /\ Tables /\ HoldsOK(p) /\ op[p] \in OpRec /\ i \in Inum /\ op[p].ip = None
  BY <1>1, FInvIs, OpIs DEF OpAt
<1>3. Looks(i) /\ Ilock(i) = disk[i]
  BY <1>1, <1>2, FInvIs DEF Looks, NoType
<1>4. NoParentPaths => ~panicked'
  BY <1>1, <1>2, <1>3 DEF HoldsOK, NoType
<1>5. CASE Return(p, <<i>>) /\ UNCHANGED cwd
  BY <1>1, <1>2, <1>3, <1>4, <1>5, ReturnsFInv
<1>6. CASE /\ Ilock(i).type = "dir" /\ Return(p, <<cwd[p]>>)
           /\ cwd' = [cwd EXCEPT ![p] = i]
  <2>1. /\ pc'[p] = "idle" /\ op'[p] = NoOp
        /\ \A q \in Procs : q # p => pc'[q] = pc[q] /\ op'[q] = op[q]
    BY <1>2, <1>6, ReturnOwn
  <2>2. cwd'[p] = i /\ \A q \in Procs : q # p => cwd'[q] = cwd[q]
    BY <1>2, <1>6 DEF Tables
  <2>3. OwnOK(p)
    BY <1>1, <1>2, <1>3, <1>6, <2>1, <2>2, NoLocks, IdleOwn DEF HoldsOK
  <2>4. PendSame(p)
    BY <1>1, <1>2, <2>1, Constants DEF PendSame, Pend, NoOp
  <2>5. Others(p) /\ LockStep(p)
    BY <1>1, <2>1, <2>2, LocksSame DEF Others
  <2> QED
    BY <1>2, <1>3, <1>4, <2>3, <2>4, <2>5, LooksFInv
<1> QED
  BY <1>1, <1>5, <1>6

\* link() of a name that exists.
LEMMA LinkParentFailsFInv ==
  ASSUME FInv, ~panicked, IInv', NEW p \in Procs, LinkParent(p),
         DirLookup(op[p].at, Name(op[p].path)) # None
  PROVE  FInv'
<1> DEFINE d == op[p].at
           e == DirLookup(d, Name(op[p].path))
<1>1. /\ pc[p] = "parent" /\ UNCHANGED lock /\ UNCHANGED cwd /\ UNCHANGED fd
      /\ panicked' = panicked /\ mem' = [mem EXCEPT ![d] = Ilock(d)] /\ disk' = disk
      /\ ents' = ents /\ bitmap' = bitmap /\ lost' = lost /\ freeing' = freeing
      /\ LookupFails(p, <<e, d>>)
  BY DEF LinkParent, At, Load
<1>2. d \in Inum /\ panicked \in BOOLEAN
  BY <1>1, FInvIs, OpIs DEF OpAt
<1>3. Looks(d)
  BY <1>1, <1>2 DEF Looks
<1> QED
  BY <1>1, <1>2, <1>3, LookupFailsFInv

LEMMA CreateFindsFInv ==
  ASSUME FInv, ~panicked, IInv', NEW p \in Procs, CreateFinds(p)
  PROVE  FInv'
<1> DEFINE d == op[p].at
           e == DirLookup(d, Name(op[p].path))
           o == [op[p] EXCEPT !.at = None, !.ip = e]
<1>1. /\ pc[p] = "parent" /\ op[p].call \in {"create", "mkdir"}
      /\ UNCHANGED lock /\ UNCHANGED cwd /\ UNCHANGED fd
      /\ panicked' = panicked /\ mem' = [mem EXCEPT ![d] = Ilock(d)] /\ disk' = disk
      /\ ents' = ents /\ bitmap' = bitmap /\ lost' = lost /\ freeing' = freeing
      /\ e # None /\ op' = [op EXCEPT ![p].at = None, ![p].ip = e]
      /\ Goto(p, "exists", <<d>>)
  BY DEF CreateFinds, At, Load
<1>2. /\ IInv /\ HoldsOK(p) /\ op[p] \in OpRec /\ d \in Inum /\ panicked \in BOOLEAN
      /\ op[p].path \in Seq(EntryNames) /\ op[p].path # << >>
  BY <1>1, FInvIs, OpIs DEF OpAt
<1>3. Looks(d)
  BY <1>1, <1>2 DEF Looks
<1>4. op' = [op EXCEPT ![p] = o]
  BY <1>1, <1>2 DEF IInv, Tables
<1>5. /\ o.ip = e /\ o.call = op[p].call /\ o.path = op[p].path /\ o.new = op[p].new
  BY <1>2 DEF OpRec
<1>6. NamesOnly(op[p].path) => disk[e].type # "free"
  BY <1>1, <1>2, PathParts, FoundInUse DEF DirLookup
<1> HIDE DEF o, e
<1>7. MayGo(o, "exists")
  BY <1>1, <1>2, <1>5, <1>6 DEF MayGo, HoldsOK, CallAt
<1>8. SameLink(op[p], o)
  BY <1>1, <1>5 DEF SameLink
<1> QED
  BY <1>1, <1>2, <1>3, <1>4, <1>7, <1>8, GoesFInv

LEMMA CreateExistsFInv ==
  ASSUME FInv, ~panicked, IInv', NEW p \in Procs, CreateExists(p)
  PROVE  FInv'
<1> DEFINE i == op[p].ip
<1>1. /\ pc[p] = "exists" /\ lock[i] = None /\ UNCHANGED cwd /\ UNCHANGED fd
      /\ panicked' = NoType(i) /\ mem' = [mem EXCEPT ![i] = Ilock(i)] /\ disk' = disk
      /\ ents' = ents /\ bitmap' = bitmap /\ lost' = lost /\ freeing' = freeing
      /\ \/ /\ Ilock(i).type = "file" /\ lock' = [lock EXCEPT ![i] = p]
            /\ Goto(p, "locked", << >>) /\ UNCHANGED op
         \/ Return(p, <<i>>) /\ UNCHANGED lock
  BY DEF CreateExists, At, Load
<1>2. /\ IInv /\ HoldsOK(p) /\ op[p] \in OpRec /\ i \in Inum
  BY <1>1, FInvIs, OpIs DEF OpAt
<1>3. Looks(i) /\ Ilock(i) = disk[i]
  BY <1>1, <1>2, FInvIs DEF Looks, NoType
<1>4. (NoParentPaths => ~panicked') /\ op[p].call # "link"
  BY <1>1, <1>2, <1>3 DEF HoldsOK, NoType, CallAt
<1>5. CASE Return(p, <<i>>) /\ UNCHANGED lock
  BY <1>1, <1>2, <1>3, <1>4, <1>5, ReturnsFInv
<1>6. CASE /\ Ilock(i).type = "file" /\ lock' = [lock EXCEPT ![i] = p]
           /\ Goto(p, "locked", << >>) /\ UNCHANGED op
  <2>1. op' = [op EXCEPT ![p] = op[p]]
    BY <1>2, <1>6 DEF IInv, Tables
  <2> QED
    BY <1>1, <1>2, <1>3, <1>4, <1>6, <2>1, LockedFInv
<1> QED
  BY <1>1, <1>5, <1>6

LEMMA DiskFullFInv ==
  ASSUME FInv, ~panicked, IInv', NEW p \in Procs, DiskFull(p)
  PROVE  FInv'
<1>1. /\ pc[p] = "parent" /\ UNCHANGED lock /\ UNCHANGED cwd /\ UNCHANGED fd
      /\ panicked' = panicked /\ mem' = mem /\ disk' = disk /\ UNCHANGED op
      /\ ents' = ents /\ bitmap' = bitmap /\ lost' = lost /\ freeing' = freeing
      /\ Goto(p, "full", << >>)
  BY DEF DiskFull, At, tableVars
<1>2. IInv /\ HoldsOK(p) /\ op[p] \in OpRec /\ panicked \in BOOLEAN
  BY FInvIs, OpIs
<1>3. Looks(ROOTINO)
  BY <1>1, <1>2 DEF Looks
<1>4. op' = [op EXCEPT ![p] = op[p]]
  BY <1>1, <1>2 DEF IInv, Tables
<1>5. MayGo(op[p], "full") /\ SameLink(op[p], op[p])
  BY <1>1, <1>2 DEF MayGo, HoldsOK, CallAt, SameLink
<1> QED
  BY <1>1, <1>3, <1>4, <1>5, Constants, GoesFInv
-----------------------------------------------------------------------------
\* What sys_unlink() finds may not be "..".
LEMMA UnlinkParentFInv ==
  ASSUME FInv, ~panicked, IInv', NEW p \in Procs, UnlinkParent(p)
  PROVE  FInv'
<1> DEFINE d == op[p].at
           n == Name(op[p].path)
           e == DirLookup(d, n)
           o == [op[p] EXCEPT !.ip = e]
<1>1. /\ pc[p] = "parent" /\ op[p].call = "unlink" /\ lock[d] = None
      /\ UNCHANGED cwd /\ UNCHANGED fd
      /\ panicked' = panicked /\ mem' = [mem EXCEPT ![d] = Ilock(d)] /\ disk' = disk
      /\ ents' = ents /\ bitmap' = bitmap /\ lost' = lost /\ freeing' = freeing
      /\ \/ Return(p, <<d>>) /\ UNCHANGED lock
         \/ /\ n # ".." /\ e # None /\ lock' = [lock EXCEPT ![d] = p]
            /\ op' = [op EXCEPT ![p].ip = e] /\ Goto(p, "child", << >>)
  BY DEF UnlinkParent, At, Load
<1>2. /\ IInv /\ Tables /\ HoldsOK(p) /\ Domains /\ op[p] \in OpRec /\ d \in Inum
      /\ panicked \in BOOLEAN /\ op[p].path \in Seq(EntryNames) /\ op[p].path # << >>
      /\ Ilock(d) = disk[d] /\ disk[d] # NotRead
  BY <1>1, FInvIs, OpIs DEF OpAt
<1>3. Looks(d)
  BY <1>1, <1>2 DEF Looks
<1>4. CASE Return(p, <<d>>) /\ UNCHANGED lock
  BY <1>1, <1>2, <1>3, <1>4, ReturnsFInv
<1>5. CASE /\ n # ".." /\ e # None /\ lock' = [lock EXCEPT ![d] = p]
           /\ op' = [op EXCEPT ![p].ip = e] /\ Goto(p, "child", << >>)
  <2>1. /\ pc'[p] = "child" /\ op'[p] = o
        /\ \A q \in Procs : q # p => pc'[q] = pc[q] /\ op'[q] = op[q]
    BY <1>2, <1>5, GotoOwn DEF Tables
  <2>2. /\ o.ip = e /\ o.at = d /\ o.call = "unlink" /\ o.path = op[p].path
        /\ o.new = op[p].new
    BY <1>1, <1>2 DEF OpRec
  <2>3. n \in Names
    BY <1>2, <1>5, PathParts DEF EntryNames
  <2>4. ents[d][n] = e /\ disk[e].type # "free"
    BY <1>2, <1>5, <2>3, FoundInUse DEF DirLookup
  <2> HIDE DEF o, e
  <2>5. /\ lock'[d] = p /\ (\A j \in Inum : lock'[j] = p => j = d) /\ LockStep(p)
    BY <1>1, <1>2, <1>5, NoLocks DEF Domains, LockStep
  <2>6. mem'[d] # NotRead
    BY <1>1, <1>2 DEF Domains
  <2>7. OwnOK(p)
    <3>1. \A j \in Inum : lock'[j] = p => Has(p, j)'
      BY <2>1, <2>2, <2>5 DEF Has
    <3>2. CallAt(op'[p], pc'[p])
      BY <2>1, <2>2 DEF CallAt
    <3>3. /\ disk'[cwd'[p]].type = "dir" /\ (fd'[p] # None => disk'[fd'[p]].type # "free")
          /\ disk'[d].type = "dir"
          /\ (NoParentPaths => NamesOnly(o.path) /\ NamesOnly(o.new))
      BY <1>1, <1>2, <2>2 DEF HoldsOK
    <3>4. HoldsOK(p)'
      BY <1>1, <2>1, <2>2, <2>3, <2>4, <2>5, <2>6, <3>2, <3>3 DEF HoldsOK
    <3> QED
      BY <3>1, <3>4 DEF OwnOK
  <2>8. PendSame(p) /\ Others(p)
    BY <1>1, <2>1, <2>2 DEF PendSame, Pend, Others
  <2> QED
    BY <1>1, <1>2, <1>3, <2>5, <2>7, <2>8, LooksFInv
<1> QED
  BY <1>1, <1>4, <1>5

\* A call that ends and gives back the one lock it has.
LEMMA UnlocksFInv ==
  ASSUME FInv, ~panicked, IInv', NEW p \in Procs, NEW i \in Inum, NEW ps, NEW d \in Inum,
         Looks(i), Return(p, ps), UNCHANGED cwd, op[p].call # "link",
         pc[p] \in {"child", "locked"}, Has(p, d), lock' = [lock EXCEPT ![d] = None],
         \A q \in Procs : q # p => fd'[q] = fd[q],
         fd'[p] # None => disk[fd'[p]].type # "free", ~panicked'
  PROVE  FInv'
<1>1. /\ Tables /\ HoldsOK(p) /\ Domains /\ Holders
  BY FInvIs
<1>2. /\ pc'[p] = "idle" /\ op'[p] = NoOp
      /\ \A q \in Procs : q # p => pc'[q] = pc[q] /\ op'[q] = op[q]
  BY <1>1, ReturnOwn
<1>3. lock[d] = p /\ \A j \in Inum : lock[j] = p => j = d
  BY <1>1, FConstants DEF Has, HoldsOK, Holders, LocksHeld
<1>4. LockStep(p) /\ \A j \in Inum : lock'[j] # p
  BY <1>1, <1>3, FConstants DEF Domains, LockStep
<1>5. OwnOK(p)
  BY <1>1, <1>2, <1>4, IdleOwn DEF HoldsOK, Looks
<1>6. PendSame(p) /\ Others(p)
  BY <1>2 DEF PendSame, Pend, Others, NoOp
<1> QED
  BY <1>4, <1>5, <1>6, LooksFInv

\* The steps that end a call with the lock of op[p].ip.
LEMMA LockedEndsFInv ==
  ASSUME FInv, ~panicked, IInv', NEW p \in Procs,
         \/ MkdirDone(p) \/ OpenFails(p)
         \/ OpenDone(p) /\ ~(op[p].call = "trunc" /\ mem[op[p].ip].type = "file")
  PROVE  FInv'
<1> DEFINE i == op[p].ip
<1>1. /\ pc[p] = "locked" /\ lock' = [lock EXCEPT ![i] = None] /\ UNCHANGED cwd
      /\ panicked' = panicked /\ mem' = mem /\ disk' = disk
      /\ ents' = ents /\ bitmap' = bitmap /\ lost' = lost /\ freeing' = freeing
      /\ (fd' = fd \/ fd' = [fd EXCEPT ![p] = i]) /\ \E ps : Return(p, ps)
  BY DEF MkdirDone, OpenFails, OpenDone, At, tableVars
<1>2. /\ IInv /\ Tables /\ HoldsOK(p) /\ i \in Inum /\ panicked \in BOOLEAN
  BY <1>1, FInvIs, OpIs DEF OpAt
<1>3. Looks(i) /\ Has(p, i)
  BY <1>1, <1>2 DEF Looks, Has
<1>4. op[p].call # "link"
  BY <1>1, <1>2 DEF HoldsOK, CallAt
<1>5. /\ \A q \in Procs : q # p => fd'[q] = fd[q]
      /\ fd'[p] # None => disk[fd'[p]].type # "free"
  BY <1>1, <1>2 DEF HoldsOK, Tables
<1> QED
  BY <1>1, <1>2, <1>3, <1>4, <1>5, UnlocksFInv

\* unlink() of a directory that is not empty.
LEMMA UnlinkChildFailsFInv ==
  ASSUME FInv, ~panicked, IInv', NEW p \in Procs, NEW i \in Inum, NEW d \in Inum,
         i = op[p].ip, d = op[p].at, pc[p] = "child", Load(i), panicked' = FALSE,
         lock' = [lock EXCEPT ![d] = None], Return(p, <<i, d>>), UNCHANGED ents,
         UNCHANGED cwd, UNCHANGED fd, UNCHANGED <<bitmap, freeing, lost>>
  PROVE  FInv'
<1>1. /\ IInv /\ HoldsOK(p)
  BY FInvIs
<1>2. Looks(i) /\ Has(p, d)
  BY DEF Looks, Has, Load
<1>3. op[p].call # "link" /\ (fd[p] # None => disk[fd[p]].type # "free")
  BY <1>1 DEF HoldsOK, CallAt
<1> QED
  BY <1>2, <1>3, UnlocksFInv

\* Between two calls: read, stat, close.
LEMMA ReadsFInv ==
  ASSUME FInv, ~panicked, IInv', NEW p \in Procs, Read(p) \/ Stat(p) \/ Close(p)
  PROVE  FInv'
<1> DEFINE i == fd[p]
<1>1. /\ pc[p] = "idle" /\ i # None /\ UNCHANGED lock /\ UNCHANGED cwd /\ UNCHANGED op
      /\ disk' = disk
      /\ ents' = ents /\ bitmap' = bitmap /\ lost' = lost /\ freeing' = freeing
      /\ \/ /\ panicked' = (NoType(i) \/ ReadsHole(Ilock(i))) /\ UNCHANGED fd
            /\ UNCHANGED pc /\ mem' = [mem EXCEPT ![i] = Ilock(i)]
         \/ /\ panicked' = NoType(i) /\ UNCHANGED fd
            /\ UNCHANGED pc /\ mem' = [mem EXCEPT ![i] = Ilock(i)]
         \/ /\ panicked' = panicked /\ fd' = [fd EXCEPT ![p] = None]
            /\ Goto(p, "idle", <<i>>) /\ mem' = mem
  BY DEF Read, Stat, Close, At, Load, tableVars
<1>2. /\ IInv /\ Tables /\ HoldsOK(p) /\ i \in Inum /\ Ilock(i) = disk[i] /\ Sizes
      /\ disk[i] \in Dinode
  BY <1>1, FInvIs, OpIs DEF FsInv
<1>3. disk[i].type # "free" /\ ~ReadsHole(disk[i])
  <2>1. PICK a \in Nat, b \in Nat : a = disk[i].size /\ b = Len(disk[i].addrs)
    BY <1>2, DinodeIs
  <2>2. a <= b
    BY <1>2, <2>1 DEF Sizes
  <2> QED
    BY <1>1, <1>2, <2>1, <2>2 DEF HoldsOK, ReadsHole
<1>4. panicked' = FALSE
  BY <1>1, <1>2, <1>3, FInvIs DEF NoType
<1>5. Looks(i)
  BY <1>1, <1>4 DEF Looks
<1>6. /\ pc'[p] = "idle" /\ \A q \in Procs : q # p => pc'[q] = pc[q] /\ fd'[q] = fd[q]
      /\ fd'[p] # None => fd'[p] = fd[p]
  BY <1>1, <1>2, GotoOwn DEF Tables
<1>7. OwnOK(p)
  <2>1. \A j \in Inum : lock'[j] # p
    BY <1>1, NoLocks
  <2>2. fd'[p] # None => disk'[fd'[p]].type # "free"
    BY <1>1, <1>3, <1>6
  <2> QED
    BY <1>1, <1>2, <1>6, <2>1, <2>2 DEF OwnOK, HoldsOK, CallAt
<1>8. PendSame(p) /\ Others(p) /\ LockStep(p)
  BY <1>1, <1>6, LocksSame DEF PendSame, Pend, Others
<1> QED
  BY <1>2, <1>4, <1>5, <1>7, <1>8, LooksFInv

\* The copy of an inode is dropped with the last reference.
LEMMA IputDecFInv ==
  ASSUME FInv, ~panicked, IInv', NEW p \in Procs, IputDec(p)
  PROVE  FInv'
<1> DEFINE i == Head(puts[p])
<1>1. /\ puts[p] # << >> /\ mem' = (IF ref[i] = 1 THEN [mem EXCEPT ![i] = NotRead] ELSE mem)
      /\ freeing' = [freeing EXCEPT ![p] = FALSE] /\ panicked' = panicked
      /\ disk' = disk /\ ents' = ents /\ bitmap' = bitmap /\ lock' = lock /\ cwd' = cwd
      /\ fd' = fd /\ op' = op /\ pc' = pc /\ lost' = lost
  BY DEF IputDec
<1>2. IInv /\ Domains /\ FsInv /\ HoldsOK(p) /\ Holders
  BY FInvIs
<1>3. ref[i] = 1 => i \in Inum /\ Unheld(i)
  BY <1>1, <1>2, LastUnheld
<1> HIDE DEF i
<1>4. /\ mem' \in [Inum -> Dinode \cup {NotRead}]
      /\ \A j \in Inum : mem'[j] = mem[j] \/ (mem'[j] = NotRead /\ Unheld(j))
  <2>1. CASE ref[i] = 1
    BY <1>1, <1>2, <1>3, <2>1 DEF Domains
  <2>2. CASE ref[i] # 1
    BY <1>1, <1>2, <2>2 DEF Domains
  <2> QED
    BY <2>1, <2>2
<1>5. Domains'
  BY <1>1, <1>2, <1>4 DEF Domains
<1>6. Quiet(p)
  BY <1>1, <1>4 DEF Quiet
<1>7. FsInv'
  BY <1>2, <1>6, QuietFs
<1>8. Keeps(p)
  BY <1>1, <1>4 DEF Keeps
<1>9. OwnOK(p)
  <2>1. \A j \in Inum : lock'[j] = p => Has(p, j)'
    BY <1>1, <1>2, FConstants DEF Holders, LocksHeld, Has
  <2>2. \A j \in Inum : ~Unheld(j) => mem'[j] = mem[j]
    BY <1>4
  <2>3. OpAt(op[p], pc[p]) /\ op[p].at \in Inum \cup {None} /\ op[p].ip \in Inum \cup {None}
    BY <1>2, OpIs
  <2>4. ~Unheld(op[p].at) /\ ~Unheld(op[p].ip)
    BY DEF Unheld
  <2>5. /\ pc[p] = "child" => mem'[op[p].at] = mem[op[p].at]
        /\ pc[p] \in {"unlinked", "locked"} => mem'[op[p].ip] = mem[op[p].ip]
    BY <2>2, <2>3, <2>4 DEF OpAt
  <2>6. HoldsOK(p)'
    BY <1>1, <1>2, <2>5 DEF HoldsOK
  <2> QED
    BY <2>1, <2>6 DEF OwnOK
<1> QED
  BY <1>1, <1>5, <1>7, <1>8, <1>9, EndFInv
-----------------------------------------------------------------------------
\* A record with other links.
LEMMA NlinkIs ==
  ASSUME NEW n \in Dinode, NEW k \in Nat, NEW r, r = [n EXCEPT !.nlink = k]
  PROVE  /\ r \in Dinode /\ r.nlink = k /\ r.type = n.type /\ r.size = n.size
         /\ r.addrs = n.addrs /\ r.ind = n.ind
  BY DEF Dinode

\* iupdate() of one inode.
LEMMA ChangeOne ==
  ASSUME Domains, NEW i \in Inum, NEW r \in Dinode, Change([j \in {i} |-> r])
  PROVE  /\ disk' = [disk EXCEPT ![i] = r] /\ mem' = [mem EXCEPT ![i] = r]
         /\ disk' \in [Inum -> Dinode] /\ mem' \in [Inum -> Dinode \cup {NotRead}]
  BY DEF Change, Iupdate, Put, Domains

\* A link that is counted keeps nlink above zero.
LEMMA LinksLeft ==
  ASSUME Domains, FsInv, NEW i \in Inum, disk[i].type # "free"
  PROVE  /\ disk[i].nlink \in Nat
         /\ EntriesOf(i) # {} => disk[i].nlink >= 1
         /\ SubdirsOf(i) # {} => disk[i].nlink >= 1
         /\ Pending(i) # {} => disk[i].nlink >= 1
         /\ i = ROOTINO => disk[i].nlink >= 1
<1>1. disk[i].nlink \in Nat
  BY DinodeIs DEF Domains
<1>2. PICK a \in Nat, b \in Nat, c \in Nat, k \in Nat :
        /\ a = Cardinality(EntriesOf(i)) /\ b = Cardinality(SubdirsOf(i))
        /\ c = Cardinality(Pending(i)) /\ k = disk[i].nlink
  BY <1>1, LinkSets
<1>3. k >= a + b + c + (IF i = ROOTINO THEN 1 ELSE 0)
  <2>1. LinkOK(i)
    BY LinksAre DEF FsInv
  <2>2. IF i \in lost THEN k >= Links(i) ELSE k = Links(i)
    BY <1>2, <2>1 DEF LinkOK
  <2>3. Links(i) = a + b + c + (IF i = ROOTINO THEN 1 ELSE 0)
    BY <1>2 DEF Links
  <2> QED
    BY <2>2, <2>3
<1>4. /\ EntriesOf(i) # {} => a # 0
      /\ SubdirsOf(i) # {} => b # 0
      /\ Pending(i) # {} => c # 0
  BY <1>2, LinkSets, FS_EmptySet
<1>5. /\ a # 0 => k >= 1
      /\ b # 0 => k >= 1
      /\ c # 0 => k >= 1
      /\ i = ROOTINO => k >= 1
  BY <1>3
<1> QED
  BY <1>1, <1>2, <1>4, <1>5

\* nlink++ and nlink-- of one inode.
Relinks(p, i, k) ==
  /\ disk' = [disk EXCEPT ![i] = [disk[i] EXCEPT !.nlink = k]]
  /\ mem' = [mem EXCEPT ![i] = [disk[i] EXCEPT !.nlink = k]]
  /\ ents' = ents /\ bitmap' = bitmap /\ lost' = lost
  /\ \A q \in Procs : q # p => op'[q] = op[q] /\ pc'[q] = pc[q]
  /\ \A j \in Inum : j # i => (Pend(op[p], pc[p], j) <=> Pend(op'[p], pc'[p], j))
  /\ disk[i].type # "free" =>
       k + (IF Pend(op[p], pc[p], i) THEN 1 ELSE 0)
         = disk[i].nlink + (IF Pend(op'[p], pc'[p], i) THEN 1 ELSE 0)

LEMMA RelinksFs ==
  ASSUME Domains, FsInv, NEW p \in Procs, NEW i \in Inum, NEW k \in Nat, Relinks(p, i, k)
  PROVE  /\ FsInv' /\ disk' \in [Inum -> Dinode] /\ mem' \in [Inum -> Dinode \cup {NotRead}]
         /\ \A j \in Inum : disk'[j].type = disk[j].type
         /\ \A j \in Inum : mem'[j] = mem[j] \/ mem'[j] # NotRead
<1> DEFINE r == [disk[i] EXCEPT !.nlink = k]
<1>1. /\ r \in Dinode /\ r.nlink = k /\ r.type = disk[i].type /\ r.size = disk[i].size
      /\ r.addrs = disk[i].addrs /\ r.ind = disk[i].ind
  BY NlinkIs DEF Domains
<1>2. disk' = [disk EXCEPT ![i] = r] /\ mem' = [mem EXCEPT ![i] = r]
  BY DEF Relinks
<1> HIDE DEF r
<1>3. disk' \in [Inum -> Dinode] /\ mem' \in [Inum -> Dinode \cup {NotRead}]
  BY <1>1, <1>2 DEF Domains
<1>4. \A j \in Inum : /\ disk'[j].type = disk[j].type /\ disk'[j].size = disk[j].size
                      /\ disk'[j].addrs = disk[j].addrs /\ disk'[j].ind = disk[j].ind
                      /\ j # i => disk'[j] = disk[j] /\ mem'[j] = mem[j]
  BY <1>1, <1>2 DEF Domains
<1>5. disk'[i] = r /\ mem'[i] = r /\ r # NotRead
  BY <1>1, <1>2, DinodeIs DEF Domains
<1>6. LinkCount'
  <2>1. ASSUME NEW j \in Inum PROVE LinkOK(j)'
    <3>1. EntriesOf(j)' = EntriesOf(j) /\ SubdirsOf(j)' = SubdirsOf(j)
      BY DEF Relinks, EntriesOf, SubdirsOf, Named
    <3>2. LinkOK(j)
      BY LinksAre DEF FsInv
    <3>3. CASE j # i
      BY <1>4, <3>1, <3>2, <3>3, SameLinkOK DEF Relinks
    <3>4. CASE j = i /\ disk[i].type = "free"
      BY <1>4, <3>4 DEF LinkOK
    <3>5. CASE j = i /\ disk[i].type # "free"
      <4>1. PICK a \in Nat, b \in Nat, c \in Nat, c1 \in Nat, m \in Nat :
              /\ a = Cardinality(EntriesOf(i)) /\ b = Cardinality(SubdirsOf(i))
              /\ c = Cardinality(Pending(i)) /\ c1 = Cardinality(Pending(i)')
              /\ m = disk[i].nlink
        BY LinkSets, LinkSetsNext, DinodeIs DEF Domains
      <4> DEFINE x == IF Pend(op[p], pc[p], i) THEN 1 ELSE 0
                 x1 == IF Pend(op'[p], pc'[p], i) THEN 1 ELSE 0
                 root == IF i = ROOTINO THEN 1 ELSE 0
      <4>2. c1 + x = c + x1
        BY <4>1, PendingMoves DEF Relinks
      <4>3. k + x = m + x1
        BY <3>5, <4>1 DEF Relinks
      <4>4. Links(i) = a + b + c + root /\ Links(i)' = a + b + c1 + root
        BY <3>1, <3>5, <4>1 DEF Links
      <4>5. IF i \in lost THEN m >= a + b + c + root ELSE m = a + b + c + root
        BY <3>2, <3>5, <4>1, <4>4 DEF LinkOK
      <4>6. x \in {0, 1} /\ x1 \in {0, 1} /\ root \in {0, 1}
        OBVIOUS
      <4> HIDE DEF x, x1, root
      <4>7. IF i \in lost THEN k >= a + b + c1 + root ELSE k = a + b + c1 + root
        BY <4>2, <4>3, <4>5, <4>6
      <4>8. disk'[i].nlink = k /\ lost' = lost
        BY <1>1, <1>5 DEF Relinks
      <4> QED
        BY <3>5, <4>4, <4>7, <4>8 DEF LinkOK
    <3> QED
      BY <3>3, <3>4, <3>5
  <2> QED
    BY <2>1 DEF LinkCount, LinkOK, Links
<1>7. BlocksOwned'
  <2>1. \A j \in Inum : BlocksOf(disk'[j]) = BlocksOf(disk[j])
    BY <1>4 DEF BlocksOf
  <2>2. UNION {BlocksOf(disk'[j]) : j \in Inum} = UNION {BlocksOf(disk[j]) : j \in Inum}
    BY <2>1
  <2>3. bitmap' = UNION {BlocksOf(disk'[j]) : j \in Inum}
    BY <2>2 DEF FsInv, BlocksOwned, Relinks
  <2>4. \A j \in Inum : IsInjective(disk'[j].addrs) /\ disk'[j].ind \notin Range(disk'[j].addrs)
    BY <1>4 DEF FsInv, BlocksOwned
  <2>5. \A j, m \in Inum : j # m => BlocksOf(disk'[j]) \cap BlocksOf(disk'[m]) = {}
    BY <2>1 DEF FsInv, BlocksOwned
  <2> QED
    BY <2>3, <2>4, <2>5 DEF BlocksOwned
<1>8. TableIsDisk'
  BY <1>4, <1>5 DEF FsInv, TableIsDisk
<1>9. Shapes' /\ Tree'
  BY <1>4, Constants DEF FsInv, Relinks, Shapes, Tree, Entry
<1>10. Sizes'
  BY <1>4 DEF FsInv, Sizes, BlocksOf
<1> QED
  BY <1>3, <1>4, <1>5, <1>6, <1>7, <1>8, <1>9, <1>10 DEF FsInv

\* The rest of a step that changes nlink.
LEMMA RelinksFInv ==
  ASSUME FInv, ~panicked, IInv', NEW p \in Procs, NEW i \in Inum, NEW k \in Nat,
         Relinks(p, i, k), LockStep(p), Others(p), freeing' = freeing,
         panicked' \in BOOLEAN, ~panicked' => OwnOK(p), NoParentPaths => ~panicked'
  PROVE  FInv'
<1>1. Domains /\ FsInv
  BY DEF FInv
<1>2. /\ FsInv' /\ disk' \in [Inum -> Dinode] /\ mem' \in [Inum -> Dinode \cup {NotRead}]
      /\ \A j \in Inum : disk'[j].type = disk[j].type
      /\ \A j \in Inum : mem'[j] = mem[j] \/ mem'[j] # NotRead
  BY <1>1, RelinksFs
<1>3. Domains'
  BY <1>1, <1>2 DEF Domains, LockStep, Relinks
<1>4. Keeps(p)
  BY <1>2 DEF Keeps, LockStep, Others, Relinks
<1> QED
  BY <1>2, <1>3, <1>4, EndFInv

\* nlink-- at the end of unlink().
LEMMA UnlinkedFInv ==
  ASSUME FInv, ~panicked, IInv', NEW p \in Procs, Unlinked(p)
  PROVE  FInv'
<1> DEFINE i == op[p].ip
<1>1. /\ pc[p] = "unlinked" /\ Change([j \in {i} |-> [mem[i] EXCEPT !.nlink = @ - 1]])
      /\ lock' = [lock EXCEPT ![i] = None] /\ Return(p, <<i>>)
      /\ UNCHANGED cwd /\ UNCHANGED fd /\ panicked' = panicked
      /\ ents' = ents /\ bitmap' = bitmap /\ lost' = lost /\ freeing' = freeing
  BY DEF Unlinked, At
<1>2. /\ IInv /\ Tables /\ HoldsOK(p) /\ Holders /\ Domains /\ FsInv /\ i \in Inum
  BY <1>1, FInvIs, OpIs DEF OpAt
<1>3. mem[i] = disk[i] /\ disk[i].type # "free" /\ lock[i] = p /\ disk[i] \in Dinode
  BY <1>1, <1>2 DEF HoldsOK, FsInv, TableIsDisk, Domains
<1>4. PICK m \in Nat : m = disk[i].nlink /\ m >= 1
  <2>1. p \in Pending(i)
    BY <1>1 DEF Pending
  <2> QED
    BY <1>2, <1>3, <2>1, LinksLeft
<1> DEFINE k == m - 1
           r == [disk[i] EXCEPT !.nlink = k]
<1>5. k \in Nat /\ k + 1 = m
  BY <1>4
<1>6. [mem[i] EXCEPT !.nlink = @ - 1] = r
  BY <1>3, <1>4
<1> HIDE DEF k
<1>7. r \in Dinode
  BY <1>3, <1>5, NlinkIs
<1>8. disk' = [disk EXCEPT ![i] = r] /\ mem' = [mem EXCEPT ![i] = r]
  <2>1. Change([j \in {i} |-> r])
    BY <1>1, <1>6
  <2> HIDE DEF r
  <2> QED
    BY <1>2, <1>7, <2>1, ChangeOne
<1>9. /\ pc'[p] = "idle" /\ op'[p] = NoOp
      /\ \A q \in Procs : q # p => pc'[q] = pc[q] /\ op'[q] = op[q]
  BY <1>1, <1>2, ReturnOwn
<1>10. /\ Pend(op[p], pc[p], i) /\ ~Pend(op'[p], pc'[p], i)
       /\ \A j \in Inum : j # i => (Pend(op[p], pc[p], j) <=> Pend(op'[p], pc'[p], j))
  BY <1>1, <1>9, Constants DEF Pend, NoOp
<1>11. Relinks(p, i, k)
  BY <1>1, <1>4, <1>5, <1>8, <1>9, <1>10 DEF Relinks
<1>12. \A j \in Inum : lock[j] = p => j = i
  BY <1>1, <1>2, FConstants DEF Holders, LocksHeld, Has
<1>13. LockStep(p) /\ (\A j \in Inum : lock'[j] # p) /\ Others(p)
  BY <1>1, <1>2, <1>3, <1>9, <1>12, FConstants DEF Domains, LockStep, Others
<1>14. OwnOK(p)
  <2>1. \A j \in Inum : disk'[j].type = disk[j].type
    BY <1>2, <1>5, <1>11, RelinksFs
  <2>2. cwd[p] \in Inum /\ fd[p] \in Inum \cup {None}
    BY <1>2, OpIs
  <2> QED
    BY <1>1, <1>2, <1>9, <1>13, <2>1, <2>2, IdleOwn DEF HoldsOK
<1> QED
  BY <1>1, <1>2, <1>5, <1>11, <1>13, <1>14, RelinksFInv DEF Domains

\* nlink-- of a link() that fails.
LEMMA LinkUndoFInv ==
  ASSUME FInv, ~panicked, IInv', NEW p \in Procs, LinkUndo(p)
  PROVE  FInv'
<1> DEFINE i == op[p].ip
<1>1. /\ pc[p] = "undo" /\ Change([j \in {i} |-> [Ilock(i) EXCEPT !.nlink = @ - 1]])
      /\ Return(p, <<i>>) /\ UNCHANGED lock
      /\ UNCHANGED cwd /\ UNCHANGED fd /\ panicked' = NoType(i)
      /\ ents' = ents /\ bitmap' = bitmap /\ lost' = lost /\ freeing' = freeing
  BY DEF LinkUndo, At
<1>2. /\ IInv /\ Tables /\ HoldsOK(p) /\ Domains /\ FsInv /\ i \in Inum
      /\ Ilock(i) = disk[i] /\ disk[i] \in Dinode
  BY <1>1, FInvIs, OpIs DEF OpAt
<1>3. op[p].call = "link" /\ disk[i].type = "file"
  BY <1>1, <1>2, Constants DEF HoldsOK, CallAt
<1>4. PICK m \in Nat : m = disk[i].nlink /\ m >= 1
  <2>1. p \in Pending(i)
    BY <1>3 DEF Pending
  <2> QED
    BY <1>2, <1>3, <2>1, LinksLeft
<1> DEFINE k == m - 1
           r == [disk[i] EXCEPT !.nlink = k]
<1>5. k \in Nat /\ k + 1 = m
  BY <1>4
<1>6. [Ilock(i) EXCEPT !.nlink = @ - 1] = r
  BY <1>2, <1>4
<1> HIDE DEF k
<1>7. r \in Dinode
  BY <1>2, <1>5, NlinkIs
<1>8. disk' = [disk EXCEPT ![i] = r] /\ mem' = [mem EXCEPT ![i] = r]
  <2>1. Change([j \in {i} |-> r])
    BY <1>1, <1>6
  <2> HIDE DEF r
  <2> QED
    BY <1>2, <1>7, <2>1, ChangeOne
<1>9. /\ pc'[p] = "idle" /\ op'[p] = NoOp
      /\ \A q \in Procs : q # p => pc'[q] = pc[q] /\ op'[q] = op[q]
  BY <1>1, <1>2, ReturnOwn
<1>10. /\ Pend(op[p], pc[p], i) /\ ~Pend(op'[p], pc'[p], i)
       /\ \A j \in Inum : j # i => (Pend(op[p], pc[p], j) <=> Pend(op'[p], pc'[p], j))
  BY <1>1, <1>3, <1>9, Constants DEF Pend, NoOp
<1>11. Relinks(p, i, k)
  BY <1>1, <1>4, <1>5, <1>8, <1>9, <1>10 DEF Relinks
<1>12. LockStep(p) /\ (\A j \in Inum : lock'[j] # p) /\ Others(p)
  BY <1>1, <1>9, NoLocks, LocksSame DEF Others
<1>13. OwnOK(p)
  <2>1. \A j \in Inum : disk'[j].type = disk[j].type
    BY <1>2, <1>5, <1>11, RelinksFs
  <2>2. cwd[p] \in Inum /\ fd[p] \in Inum \cup {None}
    BY <1>2, OpIs
  <2> QED
    BY <1>1, <1>2, <1>9, <1>12, <2>1, <2>2, IdleOwn DEF HoldsOK
<1>14. panicked' = FALSE
  BY <1>1, <1>2, <1>3 DEF NoType
<1> QED
  BY <1>1, <1>2, <1>5, <1>11, <1>12, <1>13, <1>14, RelinksFInv
-----------------------------------------------------------------------------
\* nlink++ of link(), before the new name is looked up.
LEMMA LinkTargetFInv ==
  ASSUME FInv, ~panicked, IInv', NEW p \in Procs, LinkTarget(p)
  PROVE  FInv'
<1> DEFINE i == op[p].at
<1>1. /\ pc[p] = "target" /\ op[p].call = "link" /\ UNCHANGED lock
      /\ UNCHANGED cwd /\ UNCHANGED fd /\ panicked' = NoType(i)
      /\ ents' = ents /\ bitmap' = bitmap /\ lost' = lost /\ freeing' = freeing
      /\ \/ Load(i) /\ Return(p, <<i>>)
         \/ /\ Ilock(i).type # "dir"
            /\ Change([j \in {i} |-> [Ilock(i) EXCEPT !.nlink = @ + 1]])
            /\ \E from \in {ROOTINO, cwd[p]} :
                 op' = [op EXCEPT ![p].path = op[p].new, ![p].new = << >>,
                                  ![p].at = from, ![p].ip = i]
            /\ Goto(p, "walk", << >>)
  BY DEF LinkTarget, At
<1>2. /\ IInv /\ Tables /\ HoldsOK(p) /\ Domains /\ FsInv /\ i \in Inum /\ op[p].ip = None
      /\ op[p] \in OpRec /\ Ilock(i) = disk[i] /\ disk[i] \in Dinode
  BY <1>1, FInvIs, OpIs DEF OpAt
<1>3. NoParentPaths => ~panicked'
  BY <1>1, <1>2 DEF HoldsOK, NoType
<1>4. CASE Load(i) /\ Return(p, <<i>>)
  <2>1. Looks(i)
    BY <1>1, <1>4 DEF Looks, Load, NoType
  <2> QED
    BY <1>1, <1>2, <1>3, <1>4, <2>1, ReturnsFInv
<1>5. ASSUME Ilock(i).type # "dir",
             Change([j \in {i} |-> [Ilock(i) EXCEPT !.nlink = @ + 1]]),
             NEW from \in {ROOTINO, cwd[p]},
             op' = [op EXCEPT ![p].path = op[p].new, ![p].new = << >>,
                              ![p].at = from, ![p].ip = i],
             Goto(p, "walk", << >>)
      PROVE  FInv'
  <2> DEFINE o == [op[p] EXCEPT !.path = op[p].new, !.new = << >>, !.at = from, !.ip = i]
  <2>1. PICK m \in Nat : m = disk[i].nlink
    BY <1>2, DinodeIs
  <2> DEFINE k == m + 1
             r == [disk[i] EXCEPT !.nlink = k]
  <2>2. k \in Nat /\ r = [Ilock(i) EXCEPT !.nlink = @ + 1]
    BY <1>2, <2>1
  <2> HIDE DEF k
  <2>3. r \in Dinode
    BY <1>2, <2>2, NlinkIs
  <2>4. disk' = [disk EXCEPT ![i] = r] /\ mem' = [mem EXCEPT ![i] = r]
    <3>1. Change([j \in {i} |-> r])
      BY <1>5, <2>2
    <3> HIDE DEF r
    <3> QED
      BY <1>2, <2>3, <3>1, ChangeOne
  <2>5. /\ pc'[p] = "walk" /\ op'[p] = o
        /\ \A q \in Procs : q # p => pc'[q] = pc[q] /\ op'[q] = op[q]
    BY <1>2, <1>5, GotoOwn DEF Tables
  <2>6. o.ip = i /\ o.at = from /\ o.call = "link" /\ o.path = op[p].new /\ o.new = << >>
    BY <1>1, <1>2 DEF OpRec
  <2> HIDE DEF o
  <2>7. /\ ~Pend(op[p], pc[p], i) /\ Pend(op'[p], pc'[p], i)
        /\ \A j \in Inum : j # i => (Pend(op[p], pc[p], j) <=> Pend(op'[p], pc'[p], j))
    BY <1>1, <1>2, <2>5, <2>6, Constants DEF Pend
  <2>8. Relinks(p, i, k)
    BY <1>1, <2>1, <2>4, <2>5, <2>7 DEF Relinks, k
  <2>9. LockStep(p) /\ (\A j \in Inum : lock'[j] # p) /\ Others(p)
    BY <1>1, <2>5, NoLocks, LocksSame DEF Others
  <2>10. ASSUME ~panicked' PROVE OwnOK(p)
    <3>1. \A j \in Inum : disk'[j].type = disk[j].type
      BY <1>2, <2>2, <2>8, RelinksFs
    <3>2. cwd[p] \in Inum /\ fd[p] \in Inum \cup {None}
      BY <1>2, OpIs
    <3>3. disk[i].type = "file"
      BY <1>1, <1>2, <1>5, <2>10, DinodeIs DEF NoType
    <3>4. from \in Inum /\ disk[from].type = "dir"
      BY <1>2, <3>2, Constants DEF HoldsOK, FsInv, Shapes
    <3>5. CallAt(op'[p], pc'[p]) /\ NamesOnly(<< >>)
      BY <2>5 DEF CallAt, NamesOnly
    <3>6. disk'[cwd'[p]].type = "dir" /\ (fd'[p] # None => disk'[fd'[p]].type # "free")
      BY <1>1, <1>2, <3>1, <3>2 DEF HoldsOK
    <3>7. NoParentPaths => NamesOnly(op[p].new)
      BY <1>2 DEF HoldsOK
    <3>8. HoldsOK(p)'
      BY <1>2, <2>5, <2>6, <3>1, <3>3, <3>4, <3>5, <3>6, <3>7 DEF HoldsOK
    <3> QED
      BY <2>9, <3>8 DEF OwnOK
  <2>11. panicked' \in BOOLEAN
    BY <1>1 DEF NoType
  <2> QED
    BY <1>1, <1>2, <1>3, <2>2, <2>8, <2>9, <2>10, <2>11, RelinksFInv
<1> QED
  BY <1>1, <1>4, <1>5
-----------------------------------------------------------------------------
\* The blocks of one inode change, and the bitmap with them.
LEMMA OwnBlocks ==
  ASSUME BlocksOwned, NEW i \in Inum,
         \A j \in Inum : j # i => disk'[j].addrs = disk[j].addrs /\ disk'[j].ind = disk[j].ind,
         IsInjective(disk'[i].addrs), disk'[i].ind \notin Range(disk'[i].addrs),
         bitmap' = (bitmap \ BlocksOf(disk[i])) \cup BlocksOf(disk'[i]),
         BlocksOf(disk'[i]) \cap bitmap \subseteq BlocksOf(disk[i])
  PROVE  BlocksOwned'
<1>1. \A j \in Inum : j # i => BlocksOf(disk'[j]) = BlocksOf(disk[j])
  BY DEF BlocksOf
<1>2. \A j \in Inum : j # i => BlocksOf(disk[j]) \cap BlocksOf(disk[i]) = {}
  BY DEF BlocksOwned
<1>3. \A j \in Inum : BlocksOf(disk[j]) \subseteq bitmap
  BY DEF BlocksOwned
<1>4. bitmap' = UNION {BlocksOf(disk'[j]) : j \in Inum}
  <2>1. ASSUME NEW b \in bitmap' PROVE \E j \in Inum : b \in BlocksOf(disk'[j])
    <3>1. CASE b \in BlocksOf(disk'[i])
      BY <3>1
    <3>2. CASE b \in bitmap /\ b \notin BlocksOf(disk[i])
      <4>1. PICK j \in Inum : b \in BlocksOf(disk[j])
        BY <3>2 DEF BlocksOwned
      <4> QED
        BY <1>1, <3>2, <4>1
    <3> QED
      BY <2>1, <3>1, <3>2
  <2>2. ASSUME NEW j \in Inum, NEW b \in BlocksOf(disk'[j]) PROVE b \in bitmap'
    BY <1>1, <1>2, <1>3
  <2> QED
    BY <2>1, <2>2
<1>5. \A j \in Inum : IsInjective(disk'[j].addrs) /\ disk'[j].ind \notin Range(disk'[j].addrs)
  <2> TAKE j \in Inum
  <2>1. CASE j = i
    BY <2>1
  <2>2. CASE j # i
    BY <2>2 DEF BlocksOwned
  <2> QED
    BY <2>1, <2>2
<1>6. \A j, m \in Inum : j # m => BlocksOf(disk'[j]) \cap BlocksOf(disk'[m]) = {}
  <2>1. \A j \in Inum : j # i => BlocksOf(disk'[j]) \cap BlocksOf(disk'[i]) = {}
    BY <1>1, <1>2, <1>3
  <2>2. \A j, m \in Inum : j # m => BlocksOf(disk[j]) \cap BlocksOf(disk[m]) = {}
    BY DEF BlocksOwned
  <2> QED
    BY <1>1, <2>1, <2>2
<1> QED
  BY <1>4, <1>5, <1>6 DEF BlocksOwned

\* The blocks of an inode are blocks.
LEMMA BlocksOfIs ==
  ASSUME NEW n \in Dinode
  PROVE  /\ BlocksOf(n) \subseteq Block /\ Range(n.addrs) \subseteq BlocksOf(n)
         /\ n.ind # None => n.ind \in BlocksOf(n)
         /\ n.addrs = << >> /\ n.ind = None => BlocksOf(n) = {}
<1>1. n.addrs \in Seq(Block) /\ n.ind \in Block \cup {None}
  BY DinodeIs
<1>2. Range(n.addrs) \subseteq Block
  BY <1>1 DEF Range
<1>3. n.addrs = << >> => Range(n.addrs) = {}
  BY DEF Range
<1> QED
  BY <1>1, <1>2, <1>3 DEF BlocksOf

\* The bitmap has no block outside the disk.
LEMMA OwnedAreBlocks ==
  ASSUME BlocksOwned', disk' \in [Inum -> Dinode]
  PROVE  bitmap' \subseteq Block
<1>1. \A j \in Inum : BlocksOf(disk'[j]) \subseteq Block
  BY BlocksOfIs
<1> QED
  BY <1>1 DEF BlocksOwned

\* balloc() finds a block that is free.
LEMMA BallocIs ==
  ASSUME NEW used, Block \ used # {}
  PROVE  Balloc(used) \in Block /\ Balloc(used) \notin used
<1>1. Block \ used \subseteq Nat
  BY FConstants
<1>2. Min(Block \ used) \in Block \ used
  BY <1>1, MinInSet
<1> QED
  BY <1>2 DEF Balloc

\* Room for one block, and for two.
LEMMA RoomIs ==
  /\ RoomFor(1) => Block \ bitmap # {}
  /\ RoomFor(2) => /\ Block \ bitmap # {}
                   /\ \A b \in Block \ bitmap : Block \ (bitmap \cup {b}) # {}
<1> DEFINE F == Block \ bitmap
<1>1. IsFiniteSet(F) /\ Cardinality(F) \in Nat
  BY FConstants, FS_Subset, FS_CardinalityType
<1>2. F = {} => Cardinality(F) = 0
  BY FS_EmptySet
<1>3. ASSUME NEW b \in F PROVE Cardinality(F \ {b}) = Cardinality(F) - 1
  BY <1>1, FS_RemoveElement
<1>4. ASSUME RoomFor(2), NEW b \in F PROVE Block \ (bitmap \cup {b}) # {}
  <2>1. Block \ (bitmap \cup {b}) = F \ {b}
    OBVIOUS
  <2>2. PICK c \in Nat : c = Cardinality(F) /\ c >= 2
    BY <1>1, <1>4 DEF RoomFor
  <2>3. c - 1 # 0
    BY <2>2
  <2>4. Cardinality(F \ {b}) # 0
    BY <1>3, <2>2, <2>3
  <2> QED
    BY <2>1, <2>4, FS_EmptySet
<1>5. RoomFor(1) \/ RoomFor(2) => F # {}
  <2>1. PICK c \in Nat : c = Cardinality(F)
    BY <1>1
  <2>2. c >= 1 \/ c >= 2 => c # 0
    OBVIOUS
  <2> QED
    BY <1>2, <2>1, <2>2 DEF RoomFor
<1> QED
  BY <1>4, <1>5

\* A block at the end of the list of addresses.
LEMMA AppendIs ==
  ASSUME NEW s \in Seq(Block), NEW b \in Block, b \notin Range(s), IsInjective(s)
  PROVE  /\ Append(s, b) \in Seq(Block) /\ Len(Append(s, b)) = Len(s) + 1
         /\ IsInjective(Append(s, b)) /\ Range(Append(s, b)) = Range(s) \cup {b}
<1>1. Append(s, b) \in Seq(Block) /\ Len(Append(s, b)) = Len(s) + 1 /\ Len(s) \in Nat
  OBVIOUS
<1>2. DOMAIN Append(s, b) = 1..(Len(s) + 1) /\ DOMAIN s = 1..Len(s)
  BY <1>1
<1>3. /\ \A k \in 1..Len(s) : Append(s, b)[k] = s[k]
      /\ Append(s, b)[Len(s) + 1] = b
  OBVIOUS
<1>4. \A k \in 1..(Len(s) + 1) : k \in 1..Len(s) \/ k = Len(s) + 1
  BY <1>1
<1>5. \A k \in 1..Len(s) : s[k] # b /\ k # Len(s) + 1 /\ k \in 1..(Len(s) + 1)
  BY <1>1, <1>2 DEF Range
<1>6. IsInjective(Append(s, b))
  BY <1>2, <1>3, <1>4, <1>5 DEF IsInjective
<1>7. Range(Append(s, b)) = Range(s) \cup {b}
  <2>1. Len(s) + 1 \in 1..(Len(s) + 1)
    BY <1>1
  <2> QED
    BY <1>2, <1>3, <1>4, <1>5, <2>1 DEF Range
<1> QED
  BY <1>1, <1>6, <1>7
-----------------------------------------------------------------------------
\* bmap() adds a block that was free, and another one for the addresses.
LEMMA BmapIs ==
  ASSUME NEW n \in Dinode, IsInjective(n.addrs), n.ind \notin Range(n.addrs),
         BlocksOf(n) \subseteq bitmap,
         RoomFor(2) \/ (RoomFor(1) /\ Len(n.addrs) < NDIRECT),
         NEW r, r = Bmap(n)
  PROVE  /\ r \in Dinode /\ r.type = n.type /\ r.nlink = n.nlink /\ r.size = n.size
         /\ Len(r.addrs) = Len(n.addrs) + 1
         /\ IsInjective(r.addrs) /\ r.ind \notin Range(r.addrs)
         /\ BlocksOf(r) \cap bitmap \subseteq BlocksOf(n)
         /\ BlocksOf(n) \subseteq BlocksOf(r)
<1> DEFINE b == Balloc(bitmap)
           c == Balloc(bitmap \cup {b})
<1>1. b \in Block /\ b \notin bitmap
  BY RoomIs, BallocIs
<1>2. n.addrs \in Seq(Block) /\ n.ind \in Block \cup {None}
  BY DinodeIs
<1>3. b \notin Range(n.addrs) /\ n.ind # b /\ Range(n.addrs) \subseteq bitmap
      /\ (n.ind # None => n.ind \in bitmap)
  BY <1>1, FConstants, BlocksOfIs
<1>4. CASE Len(n.addrs) < NDIRECT \/ n.ind # None
  <2> HIDE DEF b
  <2>1. r = [n EXCEPT !.addrs = Append(@, b)]
    BY <1>4 DEF Bmap, b
  <2>2. /\ Append(n.addrs, b) \in Seq(Block)
        /\ Len(Append(n.addrs, b)) = Len(n.addrs) + 1
        /\ IsInjective(Append(n.addrs, b))
        /\ Range(Append(n.addrs, b)) = Range(n.addrs) \cup {b}
    BY <1>1, <1>2, <1>3, AppendIs
  <2>3. /\ r \in Dinode /\ r.type = n.type /\ r.nlink = n.nlink /\ r.size = n.size
        /\ r.addrs = Append(n.addrs, b) /\ r.ind = n.ind
    BY <2>1, <2>2 DEF Dinode
  <2>4. BlocksOf(r) = BlocksOf(n) \cup {b}
    BY <2>2, <2>3 DEF BlocksOf
  <2> QED
    BY <1>1, <1>3, <2>2, <2>3, <2>4
<1>5. CASE ~(Len(n.addrs) < NDIRECT \/ n.ind # None)
  <2>1. c \in Block /\ c \notin bitmap /\ c # b
    BY <1>1, <1>5, RoomIs, BallocIs
  <2>2. r = [n EXCEPT !.ind = b, !.addrs = Append(@, c)]
    BY <1>5 DEF Bmap
  <2> HIDE DEF b, c
  <2>3. /\ Append(n.addrs, c) \in Seq(Block)
        /\ Len(Append(n.addrs, c)) = Len(n.addrs) + 1
        /\ IsInjective(Append(n.addrs, c))
        /\ Range(Append(n.addrs, c)) = Range(n.addrs) \cup {c}
    BY <1>2, <1>3, <2>1, AppendIs
  <2>4. /\ r \in Dinode /\ r.type = n.type /\ r.nlink = n.nlink /\ r.size = n.size
        /\ r.addrs = Append(n.addrs, c) /\ r.ind = b
    BY <1>1, <2>2, <2>3 DEF Dinode
  <2>5. BlocksOf(r) = Range(n.addrs) \cup {c, b} /\ BlocksOf(n) = Range(n.addrs)
    BY <1>1, <1>5, <2>3, <2>4, FConstants DEF BlocksOf
  <2> QED
    BY <1>1, <1>3, <2>1, <2>3, <2>4, <2>5
<1> QED
  BY <1>4, <1>5

\* The contents of one inode change.
Refills(p, i, r) ==
  /\ disk' = [disk EXCEPT ![i] = r] /\ mem' = [mem EXCEPT ![i] = r]
  /\ r.type = disk[i].type /\ r.type # "free" /\ r.nlink = disk[i].nlink
  /\ IsInjective(r.addrs) /\ r.ind \notin Range(r.addrs) /\ r.size <= Len(r.addrs)
  /\ bitmap' = (bitmap \ BlocksOf(disk[i])) \cup BlocksOf(r)
  /\ BlocksOf(r) \cap bitmap \subseteq BlocksOf(disk[i])
  /\ ents' = ents /\ lost' = lost
  /\ \A q \in Procs : q # p => op'[q] = op[q] /\ pc'[q] = pc[q]

\* The file system after such a step.
LEMMA RefillsFs ==
  ASSUME Domains, FsInv, NEW p \in Procs, NEW i \in Inum, NEW r \in Dinode,
         Refills(p, i, r), PendSame(p)
  PROVE  /\ FsInv' /\ disk' \in [Inum -> Dinode] /\ mem' \in [Inum -> Dinode \cup {NotRead}]
         /\ bitmap' \subseteq Block
         /\ \A j \in Inum : disk'[j].type = disk[j].type
         /\ \A j \in Inum : mem'[j] = mem[j] \/ mem'[j] # NotRead
<1>1. disk' \in [Inum -> Dinode] /\ mem' \in [Inum -> Dinode \cup {NotRead}]
  BY DEF Refills, Domains
<1>2. /\ disk'[i] = r /\ mem'[i] = r /\ r # NotRead
      /\ \A j \in Inum : j # i => disk'[j] = disk[j] /\ mem'[j] = mem[j]
  BY DinodeIs DEF Refills, Domains
<1>3. \A j \in Inum : disk'[j].type = disk[j].type /\ disk'[j].nlink = disk[j].nlink
  BY <1>2 DEF Refills
<1>4. LinkCount'
  <2>1. ASSUME NEW j \in Inum PROVE LinkOK(j)'
    <3>1. EntriesOf(j)' = EntriesOf(j) /\ SubdirsOf(j)' = SubdirsOf(j)
      BY DEF Refills, EntriesOf, SubdirsOf, Named
    <3>2. LinkOK(j)
      BY LinksAre DEF FsInv
    <3> QED
      BY <1>3, <3>1, <3>2, SameLinkOK DEF Refills, PendSame
  <2> QED
    BY <2>1 DEF LinkCount, LinkOK, Links
<1>5. BlocksOwned'
  BY <1>2, OwnBlocks DEF FsInv, Refills
<1>6. TableIsDisk'
  BY <1>2 DEF FsInv, TableIsDisk
<1>7. Sizes'
  BY <1>2 DEF FsInv, Sizes, Refills
<1>8. Shapes' /\ Tree'
  BY <1>3, Constants DEF FsInv, Refills, Shapes, Tree, Entry
<1>9. bitmap' \subseteq Block
  BY <1>1, <1>5, OwnedAreBlocks
<1> QED
  BY <1>1, <1>2, <1>3, <1>4, <1>5, <1>6, <1>7, <1>8, <1>9 DEF FsInv

\* The invariant after such a step.
LEMMA RefillsFInv ==
  ASSUME FInv, ~panicked, IInv', NEW p \in Procs, NEW i \in Inum, NEW r \in Dinode,
         Refills(p, i, r), PendSame(p), LockStep(p), Others(p), freeing' = freeing,
         panicked' = FALSE, OwnOK(p)
  PROVE  FInv'
<1>1. Domains /\ FsInv
  BY DEF FInv
<1>2. /\ FsInv' /\ disk' \in [Inum -> Dinode] /\ mem' \in [Inum -> Dinode \cup {NotRead}]
      /\ bitmap' \subseteq Block
      /\ \A j \in Inum : disk'[j].type = disk[j].type
      /\ \A j \in Inum : mem'[j] = mem[j] \/ mem'[j] # NotRead
  BY <1>1, RefillsFs
<1>3. Domains'
  BY <1>1, <1>2 DEF Domains, LockStep, Refills
<1>4. Keeps(p)
  BY <1>2 DEF Keeps, LockStep, Others, Refills
<1> QED
  BY <1>2, <1>3, <1>4, EndFInv

\* The block list of an inode on the disk.
LEMMA DiskBlocks ==
  ASSUME Domains, FsInv, NEW i \in Inum
  PROVE  /\ disk[i] \in Dinode /\ IsInjective(disk[i].addrs)
         /\ disk[i].ind \notin Range(disk[i].addrs) /\ BlocksOf(disk[i]) \subseteq bitmap
         /\ disk[i].size <= Len(disk[i].addrs)
  BY DEF Domains, FsInv, BlocksOwned, Sizes

\* A write at the end of a file.
LEMMA WriteFInv ==
  ASSUME FInv, ~panicked, IInv', NEW p \in Procs, NEW copied \in BOOLEAN, Write(p, copied)
  PROVE  FInv'
<1> DEFINE i == fd[p]
           n == disk[i]
           new == Writei(n, copied)
           grown == IF Len(n.addrs) > n.size THEN n ELSE Bmap(n)
<1>1. IInv /\ Domains /\ FsInv /\ HoldsOK(p) /\ (i # None => i \in Inum)
  BY FInvIs, OpIs
<1>2. i \in Inum /\ Ilock(i) = n
  BY <1>1, FInvIs DEF Write
<1>3. /\ pc[p] = "idle" /\ n.type = "file" /\ RoomFor(2) /\ Change([j \in {i} |-> new])
      /\ bitmap' = bitmap \cup BlocksOf(new) /\ UNCHANGED lock
      /\ ents' = ents /\ lost' = lost /\ freeing' = freeing /\ panicked' = panicked
      /\ cwd' = cwd /\ fd' = fd /\ op' = op /\ pc' = pc
  BY <1>2 DEF Write, At
<1>4. /\ n \in Dinode /\ IsInjective(n.addrs) /\ n.ind \notin Range(n.addrs)
      /\ BlocksOf(n) \subseteq bitmap /\ n.size <= Len(n.addrs)
  BY <1>1, <1>2, DiskBlocks
<1>5. PICK s \in Nat, l \in Nat : s = n.size /\ l = Len(n.addrs) /\ s <= l
  BY <1>4, DinodeIs
<1> HIDE DEF n
<1>6. /\ grown \in Dinode /\ grown.type = n.type /\ grown.nlink = n.nlink
      /\ grown.size = s /\ Len(grown.addrs) \in Nat /\ Len(grown.addrs) >= s + 1
      /\ IsInjective(grown.addrs) /\ grown.ind \notin Range(grown.addrs)
      /\ BlocksOf(grown) \cap bitmap \subseteq BlocksOf(n)
      /\ BlocksOf(n) \subseteq BlocksOf(grown)
  <2>1. CASE Len(n.addrs) > n.size
    BY <1>4, <1>5, <2>1
  <2>2. CASE ~(Len(n.addrs) > n.size)
    <3>1. PICK r : r = Bmap(n) /\ grown = r
      BY <2>2
    <3>2. /\ r \in Dinode /\ r.type = n.type /\ r.nlink = n.nlink /\ r.size = n.size
          /\ Len(r.addrs) = Len(n.addrs) + 1
          /\ IsInjective(r.addrs) /\ r.ind \notin Range(r.addrs)
          /\ BlocksOf(r) \cap bitmap \subseteq BlocksOf(n)
          /\ BlocksOf(n) \subseteq BlocksOf(r)
      BY <1>3, <1>4, <3>1, BmapIs
    <3>3. l + 1 \in Nat /\ l + 1 >= s + 1
      BY <1>5
    <3>4. Len(r.addrs) = l + 1 /\ r.size = s
      BY <1>5, <3>2
    <3> HIDE DEF grown
    <3> QED
      BY <3>1, <3>2, <3>3, <3>4
  <2> QED
    BY <2>1, <2>2
<1>7. new = IF copied THEN [grown EXCEPT !.size = @ + 1] ELSE grown
  BY DEF Writei
<1> HIDE DEF grown
<1>8. /\ new \in Dinode /\ new.type = n.type /\ new.nlink = n.nlink
      /\ new.addrs = grown.addrs /\ new.ind = grown.ind
      /\ new.size \in {s, s + 1}
  <2>1. CASE copied
    <3>1. s + 1 \in Nat /\ new = [grown EXCEPT !.size = s + 1]
      BY <1>6, <1>7, <2>1
    <3> HIDE DEF new
    <3> QED
      BY <1>6, <3>1 DEF Dinode
  <2>2. CASE ~copied
    BY <1>6, <1>7, <2>2
  <2> QED
    BY <2>1, <2>2
<1> HIDE DEF new
<1>9. disk' = [disk EXCEPT ![i] = new] /\ mem' = [mem EXCEPT ![i] = new]
  BY <1>1, <1>2, <1>3, <1>8, ChangeOne
<1>10. new.size <= Len(new.addrs)
  <2>1. PICK a \in Nat : a = Len(grown.addrs) /\ a >= s + 1
    BY <1>6
  <2>2. s <= a /\ s + 1 <= a
    BY <2>1
  <2> QED
    BY <1>8, <2>1, <2>2
<1>11. BlocksOf(new) = BlocksOf(grown)
  BY <1>8 DEF BlocksOf
<1>12. bitmap' = (bitmap \ BlocksOf(n)) \cup BlocksOf(new)
  BY <1>3, <1>6, <1>11
<1>13. Refills(p, i, new)
  BY <1>3, <1>6, <1>8, <1>9, <1>10, <1>11, <1>12 DEF Refills, n
<1>14. PendSame(p) /\ Others(p) /\ LockStep(p)
  BY <1>3, LocksSame DEF PendSame, Others
<1>15. OwnOK(p)
  <2>1. \A j \in Inum : lock'[j] # p
    BY <1>3, NoLocks
  <2>2. \A j \in Inum : disk'[j].type = disk[j].type
    BY <1>1, <1>2, <1>8, <1>13, <1>14, RefillsFs
  <2>3. cwd[p] \in Inum
    BY <1>1, OpIs
  <2>4. disk'[cwd'[p]].type = "dir" /\ (fd'[p] # None => disk'[fd'[p]].type # "free")
    BY <1>1, <1>2, <1>3, <2>2, <2>3 DEF HoldsOK
  <2>5. op[p].ip = None
    BY <1>1, <1>3, OpIs DEF OpAt
  <2> QED
    BY <1>1, <1>3, <2>1, <2>4, <2>5 DEF OwnOK, HoldsOK, CallAt
<1> QED
  BY <1>2, <1>3, <1>8, <1>13, <1>14, <1>15, FInvIs, RefillsFInv

\* open() with O_TRUNC.
LEMMA TruncFInv ==
  ASSUME FInv, ~panicked, IInv', NEW p \in Procs, OpenDone(p),
         op[p].call = "trunc", mem[op[p].ip].type = "file"
  PROVE  FInv'
<1> DEFINE i == op[p].ip
           r == [mem[i] EXCEPT !.addrs = << >>, !.ind = None, !.size = 0]
<1>1. /\ pc[p] = "locked" /\ lock' = [lock EXCEPT ![i] = None] /\ UNCHANGED cwd
      /\ fd' = [fd EXCEPT ![p] = i] /\ panicked' = DoubleFree(mem[i])
      /\ bitmap' = bitmap \ Itrunc(mem[i]) /\ Change([j \in {i} |-> r])
      /\ ents' = ents /\ lost' = lost /\ freeing' = freeing /\ Return(p, << >>)
  BY DEF OpenDone, At
<1>2. /\ IInv /\ Tables /\ HoldsOK(p) /\ Holders /\ Domains /\ FsInv /\ i \in Inum
  BY <1>1, FInvIs, OpIs DEF OpAt
<1>3. /\ mem[i] = disk[i] /\ lock[i] = p /\ disk[i].type # "free"
  BY <1>1, <1>2 DEF HoldsOK, FsInv, TableIsDisk
<1>4. disk[i] \in Dinode /\ BlocksOf(disk[i]) \subseteq bitmap
  BY <1>2, DiskBlocks
<1>5. /\ r \in Dinode /\ r.type = disk[i].type /\ r.nlink = disk[i].nlink
      /\ r.addrs = << >> /\ r.ind = None /\ r.size = 0
  <2>1. << >> \in Seq(Block) /\ None \in Block \cup {None} /\ 0 \in Nat
    OBVIOUS
  <2>2. PICK n \in Dinode : n = mem[i] /\ n = disk[i]
    BY <1>3, <1>4
  <2> QED
    BY <2>1, <2>2 DEF Dinode
<1> HIDE DEF r
<1>6. disk' = [disk EXCEPT ![i] = r] /\ mem' = [mem EXCEPT ![i] = r]
  BY <1>1, <1>2, <1>5, ChangeOne
<1>7. BlocksOf(r) = {}
  BY <1>5, BlocksOfIs
<1>8. IsInjective(r.addrs) /\ r.ind \notin Range(r.addrs) /\ r.size <= Len(r.addrs)
  BY <1>5 DEF IsInjective, Range
<1>9. /\ pc'[p] = "idle" /\ op'[p] = NoOp
      /\ \A q \in Procs : q # p => pc'[q] = pc[q] /\ op'[q] = op[q]
  BY <1>1, <1>2, ReturnOwn
<1>10. Refills(p, i, r)
  BY <1>1, <1>3, <1>5, <1>6, <1>7, <1>8, <1>9 DEF Refills, Itrunc
<1>11. fd'[p] = i /\ \A q \in Procs : q # p => fd'[q] = fd[q]
  BY <1>1, <1>2 DEF Tables
<1>12. PendSame(p) /\ Others(p)
  BY <1>1, <1>9, <1>11 DEF PendSame, Pend, Others, NoOp
<1>13. \A j \in Inum : lock[j] = p => j = i
  BY <1>1, <1>2, FConstants DEF Holders, LocksHeld, Has
<1>14. LockStep(p) /\ \A j \in Inum : lock'[j] # p
  BY <1>1, <1>2, <1>3, <1>13, FConstants DEF Domains, LockStep
<1>15. OwnOK(p)
  <2>1. \A j \in Inum : disk'[j].type = disk[j].type
    BY <1>2, <1>5, <1>10, <1>12, RefillsFs
  <2>2. cwd[p] \in Inum
    BY <1>2, OpIs
  <2> QED
    BY <1>1, <1>2, <1>3, <1>9, <1>11, <1>14, <2>1, <2>2, IdleOwn DEF HoldsOK
<1>16. panicked' = FALSE
  BY <1>1, <1>3, <1>4 DEF DoubleFree
<1> QED
  BY <1>1, <1>2, <1>5, <1>10, <1>12, <1>14, <1>15, <1>16, RefillsFInv
-----------------------------------------------------------------------------
\* A step that changes the links of i by as much as its nlink.
LEMMA LinkMovesOK ==
  ASSUME Domains, NEW i \in Inum, LinkOK(i), NEW p \in Procs,
         \A q \in Procs : q # p => op'[q] = op[q] /\ pc'[q] = pc[q],
         disk[i].type = "free" => disk'[i].type = "free",
         disk'[i].nlink \in Nat, i \in lost <=> i \in lost',
         NEW e0 \in {0, 1}, NEW e1 \in {0, 1}, NEW s0 \in {0, 1}, NEW s1 \in {0, 1},
         Cardinality(EntriesOf(i)') + e0 = Cardinality(EntriesOf(i)) + e1,
         Cardinality(SubdirsOf(i)') + s0 = Cardinality(SubdirsOf(i)) + s1,
         disk[i].type # "free" =>
           disk'[i].nlink + e0 + s0 + (IF Pend(op[p], pc[p], i) THEN 1 ELSE 0)
             = disk[i].nlink + e1 + s1 + (IF Pend(op'[p], pc'[p], i) THEN 1 ELSE 0)
  PROVE  LinkOK(i)'
<1>1. CASE disk[i].type = "free"
  BY <1>1 DEF LinkOK
<1>2. CASE disk[i].type # "free"
  <2> DEFINE x == IF Pend(op[p], pc[p], i) THEN 1 ELSE 0
             x1 == IF Pend(op'[p], pc'[p], i) THEN 1 ELSE 0
             root == IF i = ROOTINO THEN 1 ELSE 0
  <2>1. PICK a \in Nat, a1 \in Nat, b \in Nat, b1 \in Nat, c \in Nat, c1 \in Nat,
             m \in Nat, m1 \in Nat :
          /\ a = Cardinality(EntriesOf(i)) /\ a1 = Cardinality(EntriesOf(i)')
          /\ b = Cardinality(SubdirsOf(i)) /\ b1 = Cardinality(SubdirsOf(i)')
          /\ c = Cardinality(Pending(i)) /\ c1 = Cardinality(Pending(i)')
          /\ m = disk[i].nlink /\ m1 = disk'[i].nlink
    BY LinkSets, LinkSetsNext, DinodeIs DEF Domains
  <2>2. a1 + e0 = a + e1 /\ b1 + s0 = b + s1
    BY <2>1
  <2>3. c1 + x = c + x1
    BY <2>1, PendingMoves
  <2>4. m1 + e0 + s0 + x = m + e1 + s1 + x1
    BY <1>2, <2>1
  <2>5. Links(i) = a + b + c + root /\ Links(i)' = a1 + b1 + c1 + root
    BY <2>1 DEF Links
  <2>6. IF i \in lost THEN m >= a + b + c + root ELSE m = a + b + c + root
    BY <1>2, <2>1, <2>5 DEF LinkOK
  <2>7. x \in {0, 1} /\ x1 \in {0, 1} /\ root \in {0, 1}
    OBVIOUS
  <2> HIDE DEF x, x1, root
  <2>8. IF i \in lost THEN m1 >= a1 + b1 + c1 + root ELSE m1 = a1 + b1 + c1 + root
    BY <2>2, <2>3, <2>4, <2>6, <2>7
  <2> QED
    BY <2>1, <2>5, <2>8 DEF LinkOK
<1> QED
  BY <1>1, <1>2

\* Entry n of directory d is set to c, nothing else in directories changes.
SetsEntry(d, n, c) ==
  /\ ents'[d][n] = c
  /\ \A e \in Inum : e # d => ents'[e] = ents[e]
  /\ \A m \in EntryNames : m # n => ents'[d][m] = ents[d][m]

\* dirlink() sets one entry.
LEMMA DirLinkIs ==
  ASSUME Tables, NEW d \in Inum, NEW n \in Names, NEW c, ents' = DirLink(ents, d, n, c)
  PROVE  SetsEntry(d, n, c)
  BY DEF Tables, DirLink, SetsEntry, EntryNames

\* The entries that name j, when only the entry n of d changes.
LEMMA EntriesMove ==
  ASSUME NEW d \in Inum, NEW n \in Names, NEW j,
         \A e \in Inum, m \in Names : e # d \/ m # n => (ents'[e][m] = j <=> ents[e][m] = j)
  PROVE  Cardinality(EntriesOf(j)') + (IF ents[d][n] = j THEN 1 ELSE 0)
           = Cardinality(EntriesOf(j)) + (IF ents'[d][n] = j THEN 1 ELSE 0)
<1>1. EntriesOf(j) \in SUBSET (Inum \X Names) /\ EntriesOf(j)' \in SUBSET (Inum \X Names)
  BY LinkSets, LinkSetsNext
<1>2. <<d, n>> \in Inum \X Names
  OBVIOUS
<1>3. \A x \in Inum \X Names : x # <<d, n>> => (x \in EntriesOf(j) <=> x \in EntriesOf(j)')
  <2> TAKE x \in Inum \X Names
  <2>1. PICK e \in Inum, m \in Names : x = <<e, m>> /\ x[1] = e /\ x[2] = m
    OBVIOUS
  <2> QED
    BY <2>1 DEF EntriesOf
<1>4. (<<d, n>> \in EntriesOf(j) <=> ents[d][n] = j) /\ (<<d, n>> \in EntriesOf(j)' <=> ents'[d][n] = j)
  BY <1>2 DEF EntriesOf
<1> QED
  BY <1>1, <1>2, <1>3, <1>4, FConstants, OneMoves

\* The subdirectories of j, when only c gets or loses a name or a parent.
LEMMA SubdirsMove ==
  ASSUME NEW c \in Inum, NEW j,
         \A e \in Inum : e # c => (e \in SubdirsOf(j) <=> e \in SubdirsOf(j)')
  PROVE  Cardinality(SubdirsOf(j)') + (IF c \in SubdirsOf(j) THEN 1 ELSE 0)
           = Cardinality(SubdirsOf(j)) + (IF c \in SubdirsOf(j)' THEN 1 ELSE 0)
<1>1. SubdirsOf(j) \in SUBSET Inum /\ SubdirsOf(j)' \in SUBSET Inum
  BY LinkSets, LinkSetsNext
<1> QED
  BY <1>1, FConstants, OneMoves

\* A step that changes link counts and entries only.
LEMMA SameBlocks ==
  ASSUME BlocksOwned, Sizes, bitmap' = bitmap,
         \A j \in Inum : /\ disk'[j].addrs = disk[j].addrs /\ disk'[j].ind = disk[j].ind
                         /\ disk'[j].size = disk[j].size /\ disk'[j].type = disk[j].type
  PROVE  BlocksOwned' /\ Sizes'
<1>1. \A j \in Inum : BlocksOf(disk'[j]) = BlocksOf(disk[j])
  BY DEF BlocksOf
<1>2. UNION {BlocksOf(disk'[j]) : j \in Inum} = UNION {BlocksOf(disk[j]) : j \in Inum}
  BY <1>1
<1>3. bitmap' = UNION {BlocksOf(disk'[j]) : j \in Inum}
  BY <1>2 DEF BlocksOwned
<1>4. \A j \in Inum : IsInjective(disk'[j].addrs) /\ disk'[j].ind \notin Range(disk'[j].addrs)
  BY DEF BlocksOwned
<1>5. \A j, m \in Inum : j # m => BlocksOf(disk'[j]) \cap BlocksOf(disk'[m]) = {}
  BY <1>1 DEF BlocksOwned
<1> QED
  BY <1>1, <1>3, <1>4, <1>5 DEF BlocksOwned, Sizes

\* What has entries with names is a directory.
LEMMA NamesInDirs ==
  ASSUME Shapes, NEW d \in Inum, NEW n \in Names, ents[d][n] # None
  PROVE  disk[d].type = "dir"
  BY DEF Shapes, NoEnts

\* Nobody is the other's child: an entry leads away from its directory.
LEMMA EntryElsewhere ==
  ASSUME Tree, NEW d \in Inum, NEW n \in Names, NEW c \in Inum, ents[d][n] = c
  PROVE  c # d
  BY DEF Tree, Entry

\* Shapes and Tree when a file gets another name.
LEMMA NewNameTree ==
  ASSUME Shapes, Tree, Tables, NEW d \in Inum, NEW n \in Names, NEW c \in Inum,
         SetsEntry(d, n, c), ents[d][n] = None, disk[d].type = "dir",
         disk[c].type = "file", disk' = disk
  PROVE  Shapes' /\ Tree'
<1>1. d # c /\ c # ROOTINO /\ n # ".." /\ ents[c] = NoEnts /\ ents'[c] = NoEnts
  BY FConstants DEF Shapes, SetsEntry
<1>2. \A e \in Inum : ents'[e][".."] = ents[e][".."] /\ (e # d => ents'[e] = ents[e])
  BY <1>1 DEF SetsEntry, EntryNames
<1>3. Shapes'
  BY <1>2, Constants DEF Shapes
<1>4. \A e \in Inum, m \in Names : ents'[e][m] = ents[e][m] \/ (e = d /\ m = n)
  BY DEF SetsEntry, EntryNames
<1>5. ASSUME NEW e \in Inum, NEW m \in Names, NEW x \in Inum, ents'[e][m] = x
      PROVE  Entry(e, m, x)'
  <2>1. CASE e = d /\ m = n
    <3>1. x = c
      BY <1>5, <2>1 DEF SetsEntry
    <3>2. \A k \in Names : ents'[c][k] # d
      BY <1>1, Constants DEF NoEnts
    <3> QED
      BY <1>1, <2>1, <3>1, <3>2 DEF Entry
  <2>2. CASE ~(e = d /\ m = n)
    <3>1. ents[e][m] = x
      BY <1>4, <1>5, <2>2
    <3>2. Entry(e, m, x) /\ disk[e].type = "dir"
      BY <3>1, NamesInDirs, Constants DEF Tree
    <3>3. ASSUME disk[x].type = "dir", NEW k \in Inum, NEW l \in Names, ents'[k][l] = x
          PROVE  k = e /\ l = m
      <4>1. ents'[d][n] # x
        BY <3>3 DEF SetsEntry
      <4> QED
        BY <1>4, <3>2, <3>3, <4>1 DEF Entry
    <3>4. \A k \in Names : ents'[x][k] # e
      <4>1. c # e
        BY <3>2
      <4> QED
        BY <1>4, <3>2, <4>1 DEF Entry, SetsEntry
    <3> QED
      BY <1>2, <3>2, <3>3, <3>4 DEF Entry
  <2> QED
    BY <2>1, <2>2
<1> QED
  BY <1>3, <1>5 DEF Tree
-----------------------------------------------------------------------------
\* dirlink() of the new name turns the link that was pending into an entry.
LEMMA NewNameLinks ==
  ASSUME Domains, FsInv, Tables, NEW p \in Procs, NEW d \in Inum, NEW n \in Names,
         NEW c \in Inum, SetsEntry(d, n, c), ents[d][n] = None, disk[c].type = "file",
         disk[d].type = "dir", disk' = disk, lost' = lost,
         \A q \in Procs : q # p => op'[q] = op[q] /\ pc'[q] = pc[q],
         \A j \in Inum : (Pend(op[p], pc[p], j) <=> j = c) /\ ~Pend(op'[p], pc'[p], j)
  PROVE  LinkCount'
<1>1. \A e \in Inum, m \in Names : e # d \/ m # n => ents'[e][m] = ents[e][m]
  BY DEF SetsEntry, EntryNames
<1>2. \A e \in Inum : ents'[e][".."] = ents[e][".."]
  BY FConstants DEF SetsEntry, EntryNames
<1>3. ents[c][".."] = None
  BY DEF FsInv, Shapes, NoEnts
<1>4. ASSUME NEW j \in Inum PROVE LinkOK(j)'
  <2>1. SubdirsOf(j)' = SubdirsOf(j)
    <3>1. \A e \in Inum : e # c => (Named(e)' <=> Named(e))
      <4> TAKE e \in Inum
      <4>1. ASSUME e # c, Named(e) PROVE Named(e)'
        <5>1. PICK k \in Inum, m \in Names : ents[k][m] = e
          BY <4>1 DEF Named
        <5>2. ents'[k][m] = e
          BY <1>1, <5>1, Constants
        <5> QED
          BY <5>2 DEF Named
      <4>2. ASSUME e # c, Named(e)' PROVE Named(e)
        <5>1. PICK k \in Inum, m \in Names : ents'[k][m] = e
          BY <4>2 DEF Named
        <5>2. ents[k][m] = e
          BY <1>1, <4>2, <5>1 DEF SetsEntry
        <5> QED
          BY <5>2 DEF Named
      <4> QED
        BY <4>1, <4>2
    <3> QED
      BY <1>2, <1>3, <3>1, Constants DEF SubdirsOf
  <2> DEFINE x == IF j = c THEN 1 ELSE 0
  <2>2. Cardinality(EntriesOf(j)') + 0 = Cardinality(EntriesOf(j)) + x
    <3>1. Cardinality(EntriesOf(j)') + (IF ents[d][n] = j THEN 1 ELSE 0)
            = Cardinality(EntriesOf(j)) + (IF ents'[d][n] = j THEN 1 ELSE 0)
      BY <1>1, EntriesMove
    <3>2. ents[d][n] # j /\ (ents'[d][n] = j <=> j = c)
      BY Constants DEF SetsEntry
    <3> QED
      BY <3>1, <3>2
  <2>3. Cardinality(SubdirsOf(j)') + 0 = Cardinality(SubdirsOf(j)) + 0
    BY <2>1
  <2>4. PICK k \in Nat : k = disk[j].nlink /\ k = disk'[j].nlink
    BY DinodeIs DEF Domains
  <2>5. disk'[j].nlink + 0 + 0 + (IF Pend(op[p], pc[p], j) THEN 1 ELSE 0)
          = disk[j].nlink + x + 0 + (IF Pend(op'[p], pc'[p], j) THEN 1 ELSE 0)
    BY <2>4
  <2>6. LinkOK(j) /\ 0 \in {0, 1} /\ x \in {0, 1}
    BY LinksAre DEF FsInv
  <2> HIDE DEF x
  <2> QED
    BY <2>2, <2>3, <2>4, <2>5, <2>6, LinkMovesOK
<1> QED
  BY <1>4 DEF LinkCount, LinkOK, Links

\* link(): the new name is written, or exists.
LEMMA LinkParentFInv ==
  ASSUME FInv, ~panicked, IInv', NEW p \in Procs, LinkParent(p)
  PROVE  FInv'
<1> DEFINE d == op[p].at
           n == Name(op[p].path)
           c == op[p].ip
<1>0. CASE DirLookup(d, n) # None
  BY <1>0, LinkParentFailsFInv
<1>1. CASE DirLookup(d, n) = None
  <2>1. /\ pc[p] = "parent" /\ op[p].call = "link" /\ UNCHANGED lock /\ lock[d] = None
        /\ UNCHANGED cwd /\ UNCHANGED fd
        /\ panicked' = panicked /\ mem' = [mem EXCEPT ![d] = Ilock(d)] /\ disk' = disk
        /\ bitmap' = bitmap /\ lost' = lost /\ freeing' = freeing
        /\ ents' = DirLink(ents, d, n, c) /\ Return(p, <<d, c>>)
    BY <1>1 DEF LinkParent, At, Load
  <2>2. /\ IInv /\ Tables /\ HoldsOK(p) /\ Domains /\ FsInv /\ d \in Inum
        /\ panicked \in BOOLEAN /\ op[p].path \in Seq(EntryNames) /\ op[p].path # << >>
        /\ Ilock(d) = disk[d] /\ disk[d] # NotRead /\ disk[d] \in Dinode
    BY <2>1, FInvIs, OpIs DEF OpAt
  <2>3. c \in Inum
    BY <2>1, <2>2, OpIs DEF OpAt, WantsParent
  <2>4. disk[d].type = "dir" /\ disk[c].type = "file"
    BY <2>1, <2>2, <2>3, Constants DEF HoldsOK
  <2>5. n \in Names /\ ents[d][n] = None
    <3>1. ents[d][".."] # None
      BY <2>2, <2>4 DEF FsInv, Shapes
    <3> QED
      BY <1>1, <2>2, <3>1, PathParts DEF DirLookup, EntryNames
  <2>6. SetsEntry(d, n, c)
    BY <2>1, <2>2, <2>5, DirLinkIs
  <2>7. /\ pc'[p] = "idle" /\ op'[p] = NoOp
        /\ \A q \in Procs : q # p => pc'[q] = pc[q] /\ op'[q] = op[q]
    BY <2>1, <2>2, ReturnOwn
  <2>8. \A j \in Inum : (Pend(op[p], pc[p], j) <=> j = c) /\ ~Pend(op'[p], pc'[p], j)
    BY <2>1, <2>7, Constants DEF Pend, NoOp
  <2> HIDE DEF d, n, c
  <2>9. LinkCount'
    BY <2>1, <2>2, <2>3, <2>4, <2>5, <2>6, <2>7, <2>8, NewNameLinks
  <2>10. Shapes' /\ Tree'
    BY <2>1, <2>2, <2>3, <2>4, <2>5, <2>6, NewNameTree DEF FsInv
  <2>11. /\ mem' \in [Inum -> Dinode \cup {NotRead}]
         /\ \A j \in Inum : mem'[j] = mem[j] \/ (mem'[j] = disk[j] /\ mem'[j] # NotRead)
    BY <2>1, <2>2 DEF Domains
  <2>12. BlocksOwned' /\ Sizes' /\ TableIsDisk'
    BY <2>1, <2>2, <2>11, SameBlocks DEF FsInv, TableIsDisk
  <2>13. FsInv'
    BY <2>9, <2>10, <2>12 DEF FsInv
  <2>14. Domains'
    BY <2>1, <2>2, <2>11 DEF Domains
  <2>15. Keeps(p)
    BY <2>1, <2>6, <2>7, <2>11 DEF Keeps, SetsEntry
  <2>16. OwnOK(p)
    BY <2>1, <2>2, <2>7, NoLocks, IdleOwn DEF HoldsOK
  <2> QED
    BY <2>1, <2>13, <2>14, <2>15, <2>16, EndFInv
<1> QED
  BY <1>0, <1>1
-----------------------------------------------------------------------------
\* The disk while entry n of d, which names i, is erased: a directory gives
\* back the link that its ".." was.
Erases(d, n, i) ==
  /\ ents[d][n] = i /\ SetsEntry(d, n, None) /\ lost' = lost /\ bitmap' = bitmap
  /\ disk' \in [Inum -> Dinode]
  /\ \A j \in Inum : /\ disk'[j].type = disk[j].type /\ disk'[j].addrs = disk[j].addrs
                     /\ disk'[j].ind = disk[j].ind /\ disk'[j].size = disk[j].size
                     /\ j # d => disk'[j].nlink = disk[j].nlink
  /\ disk'[d].nlink + (IF disk[i].type = "dir" THEN 1 ELSE 0) = disk[d].nlink

\* Where the erased entry counts.
LEMMA ErasedSubdirs ==
  ASSUME Domains, FsInv, Tables, NEW d \in Inum, NEW n \in Names, NEW i \in Inum,
         Erases(d, n, i), NEW j \in Inum
  PROVE  Cardinality(SubdirsOf(j)') + (IF j = d /\ disk[i].type = "dir" THEN 1 ELSE 0)
           = Cardinality(SubdirsOf(j)) + 0
<1>1. \A e \in Inum, m \in Names : e # d \/ m # n => ents'[e][m] = ents[e][m]
  BY DEF Erases, SetsEntry, EntryNames
<1>2. \A e \in Inum : ents'[e][".."] = ents[e][".."]
  BY FConstants DEF Erases, SetsEntry, EntryNames
<1>3. ents'[d][n] = None /\ ents[d][n] = i
  BY DEF Erases, SetsEntry
<1>4. \A e \in Inum : e # i => (Named(e)' <=> Named(e))
  BY <1>1, <1>3, Constants DEF Named
<1>5. \A e \in Inum : e # i => (e \in SubdirsOf(j) <=> e \in SubdirsOf(j)')
  BY <1>2, <1>4 DEF SubdirsOf
<1>6. i \in SubdirsOf(j) <=> j = d /\ disk[i].type = "dir"
  <2>1. Entry(d, n, i) /\ Named(i)
    BY <1>3 DEF FsInv, Tree, Named
  <2>2. disk[i].type # "dir" => ents[i][".."] = None
    BY DEF FsInv, Shapes, NoEnts
  <2> QED
    BY <2>1, <2>2, Constants DEF Entry, SubdirsOf
<1>7. i \notin SubdirsOf(j)'
  <2>1. CASE disk[i].type = "dir"
    <3>1. \A e \in Inum, m \in Names : ents[e][m] = i => e = d /\ m = n
      BY <1>3, <2>1 DEF FsInv, Tree, Entry
    <3>2. ~Named(i)'
      BY <1>1, <1>3, <3>1, Constants DEF Named
    <3> QED
      BY <3>2 DEF SubdirsOf
  <2>2. CASE disk[i].type # "dir"
    <3>1. ents[i][".."] = None
      BY <2>2 DEF FsInv, Shapes, NoEnts
    <3> QED
      BY <1>2, <3>1, Constants DEF SubdirsOf
  <2> QED
    BY <2>1, <2>2
<1>8. Cardinality(SubdirsOf(j)') + (IF i \in SubdirsOf(j) THEN 1 ELSE 0)
        = Cardinality(SubdirsOf(j)) + (IF i \in SubdirsOf(j)' THEN 1 ELSE 0)
  BY <1>5, SubdirsMove
<1> QED
  BY <1>6, <1>7, <1>8

\* The file system after the entry is erased.
LEMMA ErasesFs ==
  ASSUME Domains, FsInv, Tables, NEW p \in Procs, NEW d \in Inum, NEW n \in Names,
         NEW i \in Inum, Erases(d, n, i),
         \A q \in Procs : q # p => op'[q] = op[q] /\ pc'[q] = pc[q],
         \A j \in Inum : ~Pend(op[p], pc[p], j) /\ (Pend(op'[p], pc'[p], j) <=> j = i)
  PROVE  LinkCount' /\ Shapes' /\ Tree' /\ BlocksOwned' /\ Sizes'
<1>1. \A e \in Inum, m \in Names : e # d \/ m # n => ents'[e][m] = ents[e][m]
  BY DEF Erases, SetsEntry, EntryNames
<1>2. \A e \in Inum : ents'[e][".."] = ents[e][".."] /\ (e # d => ents'[e] = ents[e])
  BY FConstants DEF Erases, SetsEntry, EntryNames
<1>3. ents'[d][n] = None /\ ents[d][n] = i /\ i # d
  BY EntryElsewhere DEF Erases, SetsEntry, FsInv
<1>4. ASSUME NEW j \in Inum PROVE LinkOK(j)'
  <2> DEFINE x == IF j = i THEN 1 ELSE 0
             s == IF j = d /\ disk[i].type = "dir" THEN 1 ELSE 0
  <2>1. Cardinality(SubdirsOf(j)') + s = Cardinality(SubdirsOf(j)) + 0
    BY ErasedSubdirs
  <2>2. Cardinality(EntriesOf(j)') + x = Cardinality(EntriesOf(j)) + 0
    <3>1. Cardinality(EntriesOf(j)') + (IF ents[d][n] = j THEN 1 ELSE 0)
            = Cardinality(EntriesOf(j)) + (IF ents'[d][n] = j THEN 1 ELSE 0)
      BY <1>1, EntriesMove
    <3>2. ents'[d][n] # j /\ (ents[d][n] = j <=> j = i)
      BY <1>3, Constants
    <3> QED
      BY <3>1, <3>2
  <2>3. PICK k \in Nat, k1 \in Nat : k = disk[j].nlink /\ k1 = disk'[j].nlink
    BY DinodeIs DEF Domains, Erases
  <2>4. k1 + s = k
    BY <2>3 DEF Erases
  <2>5. disk'[j].nlink + x + s + (IF Pend(op[p], pc[p], j) THEN 1 ELSE 0)
          = disk[j].nlink + 0 + 0 + (IF Pend(op'[p], pc'[p], j) THEN 1 ELSE 0)
    <3>1. x = (IF Pend(op'[p], pc'[p], j) THEN 1 ELSE 0) /\ x \in {0, 1} /\ s \in {0, 1}
          /\ (IF Pend(op[p], pc[p], j) THEN 1 ELSE 0) = 0
      OBVIOUS
    <3> HIDE DEF x, s
    <3>2. k1 + x + s + 0 = k + 0 + 0 + x
      BY <2>4, <3>1
    <3> QED
      BY <2>3, <3>1, <3>2
  <2>6. LinkOK(j) /\ 0 \in {0, 1} /\ x \in {0, 1} /\ s \in {0, 1}
    BY LinksAre DEF FsInv
  <2>7. (disk[j].type = "free" => disk'[j].type = "free") /\ disk'[j].nlink \in Nat
        /\ (j \in lost <=> j \in lost')
    BY <2>3 DEF Erases
  <2> HIDE DEF x, s
  <2> QED
    BY <2>1, <2>2, <2>5, <2>6, <2>7, LinkMovesOK
<1>5. LinkCount'
  BY <1>4 DEF LinkCount, LinkOK, Links
<1>6. Shapes'
  <2>1. disk[d].type = "dir"
    BY <1>3, NamesInDirs, Constants DEF FsInv
  <2> QED
    BY <1>2, <2>1, Constants DEF FsInv, Shapes, Erases
<1>7. ASSUME NEW e \in Inum, NEW m \in Names, NEW x \in Inum, ents'[e][m] = x
      PROVE  Entry(e, m, x)'
  <2>1. ents[e][m] = x
    BY <1>1, <1>3, <1>7, Constants
  <2>2. Entry(e, m, x)
    BY <2>1 DEF FsInv, Tree
  <2>3. \A k \in Inum, l \in Names : ents'[k][l] = x => ents[k][l] = x
    BY <1>1, <1>3, Constants
  <2>4. \A k \in Names : ents'[x][k] # e
    BY <1>1, <1>3, <2>2, Constants DEF Entry
  <2> QED
    BY <1>2, <2>2, <2>3, <2>4 DEF Entry, Erases
<1>8. BlocksOwned' /\ Sizes'
  BY SameBlocks DEF FsInv, Erases
<1> QED
  BY <1>5, <1>6, <1>7, <1>8 DEF Tree
-----------------------------------------------------------------------------
\* iupdate() of two inodes.
LEMMA ChangeTwo ==
  ASSUME Domains, NEW d \in Inum, NEW i \in Inum, i # d, NEW r \in Dinode, NEW n \in Dinode,
         NEW f, DOMAIN f = {d, i}, f[d] = r, f[i] = n, Change(f)
  PROVE  /\ disk' \in [Inum -> Dinode] /\ mem' \in [Inum -> Dinode \cup {NotRead}]
         /\ disk'[d] = r /\ disk'[i] = n /\ mem'[d] = r /\ mem'[i] = n
         /\ \A j \in Inum : j # d /\ j # i => disk'[j] = disk[j] /\ mem'[j] = mem[j]
  BY DEF Change, Iupdate, Put, Domains

\* unlink() erases the entry.
LEMMA UnlinkErasesFInv ==
  ASSUME FInv, ~panicked, IInv', NEW p \in Procs, NEW d \in Inum, NEW i \in Inum, NEW n \in Names,
         d = op[p].at, i = op[p].ip, n = Name(op[p].path), pc[p] = "child",
         lock[i] = None, panicked' = FALSE, ents' = DirLink(ents, d, n, None),
         IF disk[i].type = "dir"
         THEN Change([j \in {d, i} |->
                IF j = d THEN [mem[d] EXCEPT !.nlink = @ - 1] ELSE disk[i]])
         ELSE disk' = disk /\ mem' = [mem EXCEPT ![i] = disk[i]],
         lock' = [lock EXCEPT ![d] = None, ![i] = p],
         op' = [op EXCEPT ![p].at = None], Goto(p, "unlinked", <<d>>),
         bitmap' = bitmap, lost' = lost, cwd' = cwd, fd' = fd, freeing' = freeing
  PROVE  FInv'
<1>1. /\ IInv /\ Tables /\ HoldsOK(p) /\ Holders /\ Domains /\ FsInv /\ op[p] \in OpRec
      /\ disk[d] \in Dinode /\ disk[i] \in Dinode /\ disk[i] # NotRead
  BY FInvIs, OpIs
<1>2. /\ ents[d][n] = i /\ lock[d] = p /\ mem[d] = disk[d] /\ disk[d].type = "dir"
      /\ disk[i].type # "free" /\ mem[d] # NotRead /\ op[p].call # "link"
  BY <1>1 DEF HoldsOK, FsInv, TableIsDisk, CallAt
<1>3. i # d /\ Entry(d, n, i)
  BY <1>1, <1>2, EntryElsewhere DEF FsInv, Tree
<1>4. SetsEntry(d, n, None)
  BY <1>1, DirLinkIs
<1> DEFINE o == [op[p] EXCEPT !.at = None]
<1>5. /\ pc'[p] = "unlinked" /\ op'[p] = o
      /\ \A q \in Procs : q # p => pc'[q] = pc[q] /\ op'[q] = op[q]
  BY <1>1, GotoOwn DEF Tables
<1>6. o.ip = i /\ o.at = None /\ o.call = op[p].call /\ o.path = op[p].path /\ o.new = op[p].new
  BY <1>1 DEF OpRec
<1> HIDE DEF o
<1>7. \A j \in Inum : ~Pend(op[p], pc[p], j) /\ (Pend(op'[p], pc'[p], j) <=> j = i)
  BY <1>2, <1>5, <1>6 DEF Pend
<1>8. /\ disk' \in [Inum -> Dinode] /\ mem' \in [Inum -> Dinode \cup {NotRead}]
      /\ disk'[d].nlink + (IF disk[i].type = "dir" THEN 1 ELSE 0) = disk[d].nlink
      /\ disk'[d].type = disk[d].type /\ disk'[d].addrs = disk[d].addrs
      /\ disk'[d].ind = disk[d].ind /\ disk'[d].size = disk[d].size
      /\ mem'[d] = disk'[d] /\ mem'[d] # NotRead /\ mem'[i] = disk[i] /\ disk'[i] = disk[i]
      /\ \A j \in Inum : j # d /\ j # i => disk'[j] = disk[j] /\ mem'[j] = mem[j]
  <2>1. CASE disk[i].type = "dir"
    <3>1. PICK m \in Nat : m = disk[d].nlink /\ m >= 1
      <4>1. i \in SubdirsOf(d)
        BY <1>2, <1>3, <2>1 DEF Entry, SubdirsOf, Named
      <4> QED
        BY <1>1, <1>2, <4>1, LinksLeft
    <3> DEFINE k == m - 1
               r == [disk[d] EXCEPT !.nlink = k]
               f == [j \in {d, i} |-> IF j = d THEN [mem[d] EXCEPT !.nlink = @ - 1] ELSE disk[i]]
    <3>2. k \in Nat /\ k + 1 = m
      BY <3>1
    <3>3. [mem[d] EXCEPT !.nlink = @ - 1] = r
      BY <1>2, <3>1
    <3> HIDE DEF k
    <3>4. /\ r \in Dinode /\ r.nlink = k /\ r.type = disk[d].type /\ r.size = disk[d].size
          /\ r.addrs = disk[d].addrs /\ r.ind = disk[d].ind
      BY <1>1, <3>2, NlinkIs
    <3>5. DOMAIN f = {d, i} /\ f[d] = r /\ f[i] = disk[i] /\ Change(f)
      BY <1>3, <2>1, <3>3
    <3> HIDE DEF r, f
    <3>6. /\ disk' \in [Inum -> Dinode] /\ mem' \in [Inum -> Dinode \cup {NotRead}]
          /\ disk'[d] = r /\ disk'[i] = disk[i] /\ mem'[d] = r /\ mem'[i] = disk[i]
          /\ \A j \in Inum : j # d /\ j # i => disk'[j] = disk[j] /\ mem'[j] = mem[j]
      BY <1>1, <1>3, <3>4, <3>5, ChangeTwo
    <3>7. disk'[d].nlink + 1 = disk[d].nlink
      BY <3>1, <3>2, <3>4, <3>6
    <3> QED
      BY <2>1, <3>4, <3>6, <3>7, DinodeIs
  <2>2. CASE disk[i].type # "dir"
    <3>1. disk' = disk /\ mem' = [mem EXCEPT ![i] = disk[i]]
      BY <2>2
    <3>2. PICK m \in Nat : m = disk[d].nlink
      BY <1>1, DinodeIs
    <3> QED
      BY <1>1, <1>2, <1>3, <2>2, <3>1, <3>2 DEF Domains
  <2> QED
    BY <2>1, <2>2
<1>9. Erases(d, n, i)
  BY <1>2, <1>4, <1>8 DEF Erases
<1>10. LinkCount' /\ Shapes' /\ Tree' /\ BlocksOwned' /\ Sizes'
  BY <1>1, <1>5, <1>7, <1>9, ErasesFs
<1>11. TableIsDisk'
  BY <1>1, <1>8 DEF FsInv, TableIsDisk
<1>12. FsInv'
  BY <1>10, <1>11 DEF FsInv
<1>13. /\ lock' \in [Inum -> Procs \cup {None}] /\ lock'[d] = None /\ lock'[i] = p
       /\ \A j \in Inum : j # d /\ j # i => lock'[j] = lock[j]
  BY <1>1, <1>3 DEF Domains
<1>14. \A j \in Inum : lock'[j] = p => j = i
  BY <1>1, <1>13, FConstants DEF Holders, LocksHeld, Has
<1>15. Domains'
  BY <1>1, <1>8, <1>13 DEF Domains
<1>16. \A j \in Inum : disk'[j].type = disk[j].type
  BY <1>8
<1>17. Keeps(p)
  <2>1. \A j \in Inum : lock'[j] = lock[j] \/ (lock[j] \in {None, p} /\ lock'[j] \in {None, p})
    BY <1>2, <1>13
  <2>2. \A j \in Inum : mem'[j] # NotRead \/ mem'[j] = mem[j]
    BY <1>1, <1>8
  <2>3. \A j \in Inum : ents'[j] = ents[j] \/ lock[j] \in {None, p}
    BY <1>2, <1>4 DEF SetsEntry
  <2> QED
    BY <1>5, <1>16, <2>1, <2>2, <2>3 DEF Keeps
<1>18. OwnOK(p)
  <2>1. \A j \in Inum : lock'[j] = p => Has(p, j)'
    BY <1>5, <1>6, <1>14 DEF Has
  <2>2. CallAt(op'[p], pc'[p])
    BY <1>2, <1>5, <1>6 DEF CallAt
  <2>3. cwd[p] \in Inum /\ fd[p] \in Inum \cup {None}
    BY <1>1, OpIs
  <2>4. disk'[cwd'[p]].type = "dir" /\ (fd'[p] # None => disk'[fd'[p]].type # "free")
    BY <1>1, <1>16, <2>3 DEF HoldsOK
  <2>5. NoParentPaths => NamesOnly(o.path) /\ NamesOnly(o.new)
    BY <1>1, <1>6 DEF HoldsOK
  <2>6. mem'[i] # NotRead /\ disk'[i].type # "free"
    BY <1>1, <1>2, <1>8
  <2>7. HoldsOK(p)'
    BY <1>2, <1>5, <1>6, <1>13, <2>2, <2>4, <2>5, <2>6 DEF HoldsOK
  <2> QED
    BY <2>1, <2>7 DEF OwnOK
<1> QED
  BY <1>12, <1>15, <1>17, <1>18, EndFInv

\* unlink(): the entry is erased, unless the child is a directory in use.
LEMMA UnlinkChildFInv ==
  ASSUME FInv, ~panicked, IInv', NEW p \in Procs, UnlinkChild(p)
  PROVE  FInv'
<1> DEFINE d == op[p].at
           i == op[p].ip
           n == Name(op[p].path)
<1>1. pc[p] = "child"
  BY DEF UnlinkChild, At
<1>2. /\ IInv /\ HoldsOK(p) /\ Domains /\ FsInv /\ d \in Inum /\ i \in Inum
      /\ Ilock(i) = disk[i] /\ disk[i] \in Dinode
  BY <1>1, FInvIs, OpIs DEF OpAt
<1>3. n \in Names /\ ents[d][n] = i /\ disk[i].type # "free"
  BY <1>1, <1>2 DEF HoldsOK
<1>4. panicked' = FALSE
  <2>1. <<d, n>> \in EntriesOf(i)
    BY <1>2, <1>3 DEF EntriesOf
  <2>2. PICK k \in Nat : k = disk[i].nlink /\ k >= 1
    BY <1>2, <1>3, <2>1, LinksLeft
  <2>3. ~(k < 1)
    BY <2>2
  <2>4. panicked' = (NoType(i) \/ Ilock(i).nlink < 1)
    BY DEF UnlinkChild
  <2>5. ~NoType(i)
    BY <1>2, <1>3 DEF NoType
  <2>6. ~(Ilock(i).nlink < 1)
    BY <1>2, <2>2, <2>3
  <2> QED
    BY <2>4, <2>5, <2>6
<1>5. /\ lock[i] = None /\ bitmap' = bitmap /\ lost' = lost /\ cwd' = cwd /\ fd' = fd
      /\ freeing' = freeing
      /\ \/ /\ Load(i) /\ lock' = [lock EXCEPT ![d] = None] /\ Return(p, <<i, d>>)
            /\ UNCHANGED ents
         \/ /\ ents' = DirLink(ents, d, n, None)
            /\ IF disk[i].type = "dir"
               THEN Change([j \in {d, i} |->
                      IF j = d THEN [mem[d] EXCEPT !.nlink = @ - 1] ELSE disk[i]])
               ELSE disk' = disk /\ mem' = [mem EXCEPT ![i] = disk[i]]
            /\ lock' = [lock EXCEPT ![d] = None, ![i] = p]
            /\ op' = [op EXCEPT ![p].at = None] /\ Goto(p, "unlinked", <<d>>)
  BY <1>2 DEF UnlinkChild, Load
<1> HIDE DEF d, i, n
<1>6. CASE /\ Load(i) /\ lock' = [lock EXCEPT ![d] = None] /\ Return(p, <<i, d>>)
           /\ UNCHANGED ents
  <2>1. i = op[p].ip /\ d = op[p].at
    BY DEF i, d
  <2> QED
    BY <1>1, <1>2, <1>4, <1>5, <1>6, <2>1, UnlinkChildFailsFInv
<1>7. CASE /\ ents' = DirLink(ents, d, n, None)
           /\ IF disk[i].type = "dir"
              THEN Change([j \in {d, i} |->
                     IF j = d THEN [mem[d] EXCEPT !.nlink = @ - 1] ELSE disk[i]])
              ELSE disk' = disk /\ mem' = [mem EXCEPT ![i] = disk[i]]
           /\ lock' = [lock EXCEPT ![d] = None, ![i] = p]
           /\ op' = [op EXCEPT ![p].at = None] /\ Goto(p, "unlinked", <<d>>)
  <2>1. i = op[p].ip /\ d = op[p].at /\ n = Name(op[p].path)
    BY DEF i, d, n
  <2> QED
    BY <1>1, <1>2, <1>3, <1>4, <1>5, <1>7, <2>1, UnlinkErasesFInv
<1> QED
  BY <1>5, <1>6, <1>7
-----------------------------------------------------------------------------
\* A free inode has no links, no blocks and no holder.
LEMMA FreeIsBlank ==
  ASSUME IInv, Domains, FsInv, Holders, NEW i \in Inum, disk[i].type = "free"
  PROVE  /\ EntriesOf(i) = {} /\ SubdirsOf(i) = {} /\ Pending(i) = {} /\ ~Named(i)
         /\ lock[i] = None /\ ents[i] = NoEnts /\ i # ROOTINO /\ BlocksOf(disk[i]) = {}
<1>1. ~Named(i)
  BY DEF FsInv, Tree, Entry, Named
<1>2. EntriesOf(i) = {}
  BY <1>1 DEF EntriesOf, Named
<1>3. SubdirsOf(i) = {}
  <2> SUFFICES ASSUME NEW e \in Inum, ents[e][".."] = i, Named(e) PROVE FALSE
    BY DEF SubdirsOf
  <2>1. PICK k \in Inum, m \in Names : ents[k][m] = e
    BY DEF Named
  <2>2. disk[e].type = "dir"
    BY Constants DEF FsInv, Shapes, NoEnts
  <2>3. ents[e][".."] = k /\ disk[k].type = "dir"
    BY <2>1, <2>2, NamesInDirs, Constants DEF FsInv, Tree, Entry
  <2> QED
    BY <2>3
<1>4. Pending(i) = {}
  <2> SUFFICES ASSUME NEW q \in Procs, Pend(op[q], pc[q], i) PROVE FALSE
    BY DEF Pending, Pend
  <2> QED
    BY Constants DEF Pend, Holders, HoldsOK
<1>5. lock[i] = None
  BY LockedHeld
<1> QED
  BY <1>1, <1>2, <1>3, <1>4, <1>5 DEF FsInv, Shapes, Sizes

\* create() gives the free inode i the name n in directory d.
Creates(d, n, i, t) ==
  /\ disk' \in [Inum -> Dinode] /\ disk'[i].type = t
  /\ disk'[i].nlink = 1 /\ disk'[i].size <= Len(disk'[i].addrs)
  /\ IsInjective(disk'[i].addrs) /\ disk'[i].ind \notin Range(disk'[i].addrs)
  /\ bitmap' = bitmap \cup BlocksOf(disk'[i]) /\ BlocksOf(disk'[i]) \cap bitmap = {}
  /\ disk'[d].nlink = disk[d].nlink + (IF t = "dir" THEN 1 ELSE 0)
  /\ \A j \in Inum : j # i =>
       /\ disk'[j].type = disk[j].type /\ disk'[j].addrs = disk[j].addrs
       /\ disk'[j].ind = disk[j].ind /\ disk'[j].size = disk[j].size
       /\ j # d => disk'[j].nlink = disk[j].nlink
  /\ ents'[d][n] = i
  /\ \A m \in EntryNames : m # n => ents'[d][m] = ents[d][m]
  /\ \A e \in Inum : e # d /\ e # i => ents'[e] = ents[e]
  /\ \A m \in Names : ents'[i][m] = None
  /\ (t # "dir" => ents'[i] = NoEnts) /\ (t = "dir" => ents'[i][".."] = d)
  /\ lost' = lost \ {i}

\* What a step that creates i can rely on.
MayCreate(d, n, i) ==
  /\ disk[i].type = "free" /\ disk[d].type = "dir" /\ ents[d][n] = None

\* The entries after create(), and that nothing named the new inode before.
LEMMA CreatesParts ==
  ASSUME IInv, Domains, FsInv, Holders, NEW d \in Inum, NEW n \in Names, NEW i \in Inum,
         NEW t \in {"dir", "file"}, MayCreate(d, n, i), Creates(d, n, i, t)
  PROVE  /\ i # d /\ ents'[d][n] = i /\ n # ".."
         /\ \A e \in Inum, m \in Names : e # d \/ m # n => ents'[e][m] = ents[e][m]
         /\ \A e \in Inum : e # i => ents'[e][".."] = ents[e][".."]
         /\ \A e \in Inum, m \in Names : ents[e][m] # i
         /\ \A e \in Inum : e # i => (Named(e)' <=> Named(e))
         /\ Named(i)'
<1>1. i # d /\ ents'[d][n] = i /\ n # ".."
  BY FConstants DEF MayCreate, Creates
<1>2. ents[i] = NoEnts /\ ~Named(i)
  BY FreeIsBlank DEF MayCreate
<1>3. \A e \in Inum, m \in Names : e # d \/ m # n => ents'[e][m] = ents[e][m]
  BY <1>1, <1>2 DEF Creates, EntryNames, NoEnts
<1>4. \A e \in Inum : e # i => ents'[e][".."] = ents[e][".."]
  BY <1>1 DEF Creates, EntryNames
<1>5. \A e \in Inum, m \in Names : ents[e][m] # i
  BY <1>2 DEF Named
<1>6. \A e \in Inum : e # i => (Named(e)' <=> Named(e))
  <2> TAKE e \in Inum
  <2>1. ASSUME e # i, Named(e) PROVE Named(e)'
    <3>1. PICK k \in Inum, m \in Names : ents[k][m] = e
      BY <2>1 DEF Named
    <3>2. ents'[k][m] = e
      BY <1>3, <3>1, Constants DEF MayCreate
    <3> QED
      BY <3>2 DEF Named
  <2>2. ASSUME e # i, Named(e)' PROVE Named(e)
    <3>1. PICK k \in Inum, m \in Names : ents'[k][m] = e
      BY <2>2 DEF Named
    <3>2. ents[k][m] = e
      BY <1>1, <1>3, <2>2, <3>1
    <3> QED
      BY <3>2 DEF Named
  <2> QED
    BY <2>1, <2>2
<1>7. Named(i)'
  BY <1>1 DEF Named
<1> QED
  BY <1>1, <1>3, <1>4, <1>5, <1>6, <1>7

\* create() leaves the links of every inode right.
LEMMA CreatesLinks ==
  ASSUME IInv, Domains, FsInv, Holders, NEW p \in Procs, NEW d \in Inum, NEW n \in Names,
         NEW i \in Inum, NEW t \in {"dir", "file"}, MayCreate(d, n, i), Creates(d, n, i, t),
         \A q \in Procs : q # p => op'[q] = op[q] /\ pc'[q] = pc[q],
         \A j \in Inum : ~Pend(op[p], pc[p], j) /\ ~Pend(op'[p], pc'[p], j)
  PROVE  LinkCount'
<1>1. /\ i # d /\ ents'[d][n] = i /\ n # ".."
      /\ \A e \in Inum, m \in Names : e # d \/ m # n => ents'[e][m] = ents[e][m]
      /\ \A e \in Inum : e # i => ents'[e][".."] = ents[e][".."]
      /\ \A e \in Inum, m \in Names : ents[e][m] # i
      /\ \A e \in Inum : e # i => (Named(e)' <=> Named(e))
      /\ Named(i)'
  BY CreatesParts
<1>2. /\ EntriesOf(i) = {} /\ SubdirsOf(i) = {} /\ Pending(i) = {} /\ ~Named(i)
      /\ i # ROOTINO
  BY FreeIsBlank DEF MayCreate
<1>3. \A j : Cardinality(EntriesOf(j)') + (IF ents[d][n] = j THEN 1 ELSE 0)
               = Cardinality(EntriesOf(j)) + (IF ents'[d][n] = j THEN 1 ELSE 0)
  BY <1>1, EntriesMove
<1>4. ASSUME NEW j \in Inum, j # i PROVE LinkOK(j)'
  <2> DEFINE s == IF j = d /\ t = "dir" THEN 1 ELSE 0
  <2>1. Cardinality(EntriesOf(j)') + 0 = Cardinality(EntriesOf(j)) + 0
    <3>1. ents[d][n] # j /\ ents'[d][n] # j
      BY <1>1, <1>4, Constants DEF MayCreate
    <3> QED
      BY <1>3, <3>1
  <2>2. Cardinality(SubdirsOf(j)') + 0 = Cardinality(SubdirsOf(j)) + s
    <3>1. \A e \in Inum : e # i => (e \in SubdirsOf(j) <=> e \in SubdirsOf(j)')
      BY <1>1 DEF SubdirsOf
    <3>2. i \notin SubdirsOf(j)
      BY <1>2 DEF SubdirsOf
    <3>3. i \in SubdirsOf(j)' <=> j = d /\ t = "dir"
      <4>1. CASE t = "dir"
        BY <1>1, <1>2, <4>1 DEF SubdirsOf, Creates
      <4>2. CASE t # "dir"
        <5>1. ents'[i][".."] = None
          BY <4>2 DEF Creates, NoEnts
        <5> QED
          BY <4>2, <5>1, Constants DEF SubdirsOf
      <4> QED
        BY <4>1, <4>2
    <3>4. Cardinality(SubdirsOf(j)') + (IF i \in SubdirsOf(j) THEN 1 ELSE 0)
            = Cardinality(SubdirsOf(j)) + (IF i \in SubdirsOf(j)' THEN 1 ELSE 0)
      BY <3>1, SubdirsMove
    <3> QED
      BY <3>2, <3>3, <3>4
  <2>3. PICK k \in Nat, k1 \in Nat : k = disk[j].nlink /\ k1 = disk'[j].nlink
    BY DinodeIs DEF Domains, Creates
  <2>4. k1 = k + s
    <3>1. CASE j = d
      BY <2>3, <3>1 DEF Creates
    <3>2. CASE j # d
      BY <1>4, <2>3, <3>2 DEF Creates
    <3> QED
      BY <3>1, <3>2
  <2>5. disk'[j].nlink + 0 + 0 + (IF Pend(op[p], pc[p], j) THEN 1 ELSE 0)
          = disk[j].nlink + 0 + s + (IF Pend(op'[p], pc'[p], j) THEN 1 ELSE 0)
    <3>1. /\ (IF Pend(op[p], pc[p], j) THEN 1 ELSE 0) = 0
          /\ (IF Pend(op'[p], pc'[p], j) THEN 1 ELSE 0) = 0 /\ s \in {0, 1}
      OBVIOUS
    <3> HIDE DEF s
    <3>2. k1 + 0 + 0 + 0 = k + 0 + s + 0
      BY <2>4, <3>1
    <3> QED
      BY <2>3, <3>1, <3>2
  <2>6. LinkOK(j) /\ 0 \in {0, 1} /\ s \in {0, 1}
    BY LinksAre DEF FsInv
  <2>7. (disk[j].type = "free" => disk'[j].type = "free") /\ disk'[j].nlink \in Nat
        /\ (j \in lost <=> j \in lost')
    BY <1>4, <2>3 DEF Creates
  <2> HIDE DEF s
  <2> QED
    BY <2>1, <2>2, <2>5, <2>6, <2>7, LinkMovesOK
<1>5. LinkOK(i)'
  <2>1. Cardinality({}) = 0
    BY FS_EmptySet
  <2>2. Cardinality(EntriesOf(i)') = 1
    <3>1. ents[d][n] # i /\ ents'[d][n] = i
      BY <1>1
    <3>2. PICK a \in Nat : a = Cardinality(EntriesOf(i)')
      BY LinkSetsNext
    <3>3. a + 0 = 0 + 1
      BY <1>2, <1>3, <2>1, <3>1, <3>2
    <3> QED
      BY <3>2, <3>3
  <2>3. Cardinality(SubdirsOf(i)') = 0
    <3>1. \A e \in Inum : e # i => e \notin SubdirsOf(i)'
      BY <1>1, <1>2 DEF SubdirsOf
    <3>2. i \notin SubdirsOf(i)'
      <4>1. ents'[i][".."] # i
        BY <1>1, Constants DEF Creates, NoEnts
      <4> QED
        BY <4>1 DEF SubdirsOf
    <3>3. SubdirsOf(i)' = {}
      BY <3>1, <3>2, LinkSetsNext
    <3> QED
      BY <2>1, <3>3
  <2>4. Cardinality(Pending(i)') = 0
    <3>1. \A q \in Procs : q \notin Pending(i)'
      BY <1>2 DEF Pending, Pend
    <3>2. Pending(i)' = {}
      BY <3>1, LinkSetsNext
    <3> QED
      BY <2>1, <3>2
  <2>5. Links(i)' = 1
    BY <1>2, <2>2, <2>3, <2>4 DEF Links
  <2>6. i \notin lost' /\ disk'[i].nlink = 1
    BY DEF Creates
  <2> QED
    BY <2>5, <2>6 DEF LinkOK
<1>6. \A j \in Inum : LinkOK(j)'
  BY <1>4, <1>5
<1> QED
  BY <1>6 DEF LinkCount, LinkOK, Links
-----------------------------------------------------------------------------
\* create() leaves a tree whose blocks have one owner.
LEMMA CreatesTree ==
  ASSUME IInv, Domains, FsInv, Holders, NEW d \in Inum, NEW n \in Names, NEW i \in Inum,
         NEW t \in {"dir", "file"}, MayCreate(d, n, i), Creates(d, n, i, t)
  PROVE  Shapes' /\ Tree' /\ BlocksOwned' /\ Sizes'
<1>1. /\ i # d /\ ents'[d][n] = i /\ n # ".."
      /\ \A e \in Inum, m \in Names : e # d \/ m # n => ents'[e][m] = ents[e][m]
      /\ \A e \in Inum : e # i => ents'[e][".."] = ents[e][".."]
      /\ \A e \in Inum, m \in Names : ents[e][m] # i
  BY CreatesParts
<1>2. i # ROOTINO /\ ents[i] = NoEnts /\ BlocksOf(disk[i]) = {}
  BY FreeIsBlank DEF MayCreate
<1>3. \A j \in Inum : j # i => disk'[j].type = disk[j].type
  BY DEF Creates
<1>4. disk'[i].type = t
  BY DEF Creates
<1>5. Shapes'
  <2>1. disk'[ROOTINO].type = "dir" /\ ents'[ROOTINO][".."] = ROOTINO
    BY <1>1, <1>2, <1>3, Constants DEF FsInv, Shapes
  <2>2. ASSUME NEW j \in Inum, disk'[j].type = "dir" PROVE ents'[j][".."] # None
    <3>1. CASE j = i
      BY <1>4, <2>2, <3>1, Constants DEF Creates
    <3>2. CASE j # i
      BY <1>1, <1>3, <2>2, <3>2 DEF FsInv, Shapes
    <3> QED
      BY <3>1, <3>2
  <2>3. ASSUME NEW j \in Inum, disk'[j].type # "dir" PROVE ents'[j] = NoEnts
    <3>1. CASE j = i
      BY <1>4, <2>3, <3>1 DEF Creates
    <3>2. CASE j # i
      <4>1. j # d
        BY <1>1, <1>3, <2>3 DEF MayCreate
      <4>2. ents'[j] = ents[j]
        BY <3>2, <4>1 DEF Creates
      <4> QED
        BY <1>3, <2>3, <3>2, <4>2 DEF FsInv, Shapes
    <3> QED
      BY <3>1, <3>2
  <2> QED
    BY <2>1, <2>2, <2>3 DEF Shapes
<1>6. ASSUME NEW e \in Inum, NEW m \in Names, NEW x \in Inum, ents'[e][m] = x
      PROVE  Entry(e, m, x)'
  <2>1. CASE e = d /\ m = n
    <3>1. x = i
      BY <1>1, <1>6, <2>1
    <3>2. \A k \in Inum, l \in Names : ents'[k][l] = i => k = d /\ l = n
      BY <1>1
    <3>3. \A k \in Names : ents'[i][k] # d
      BY Constants DEF Creates
    <3>4. disk'[i].type # "free" /\ (disk'[i].type = "dir" => ents'[i][".."] = d)
      BY <1>4 DEF Creates
    <3> QED
      BY <1>2, <2>1, <3>1, <3>2, <3>3, <3>4 DEF Entry
  <2>2. CASE ~(e = d /\ m = n)
    <3>1. ents[e][m] = x /\ x # i
      BY <1>1, <1>6, <2>2
    <3>2. Entry(e, m, x) /\ e # i
      BY <1>2, <3>1, Constants DEF FsInv, Tree, NoEnts
    <3>3. \A k \in Inum, l \in Names : ents'[k][l] = x => ents[k][l] = x
      BY <1>1, <3>1
    <3>4. \A k \in Names : ents'[x][k] # e
      BY <1>1, <3>2 DEF Entry
    <3> QED
      BY <1>1, <1>3, <3>1, <3>2, <3>3, <3>4 DEF Entry
  <2> QED
    BY <2>1, <2>2
<1>7. BlocksOwned'
  <2>1. bitmap' = (bitmap \ BlocksOf(disk[i])) \cup BlocksOf(disk'[i])
    BY <1>2 DEF Creates
  <2>2. BlocksOf(disk'[i]) \cap bitmap \subseteq BlocksOf(disk[i])
    BY DEF Creates
  <2> QED
    BY <2>1, <2>2, OwnBlocks DEF FsInv, Creates
<1>8. Sizes'
  <2>1. ASSUME NEW j \in Inum PROVE disk'[j].size <= Len(disk'[j].addrs)
    <3>1. CASE j = i
      BY <3>1 DEF Creates
    <3>2. CASE j # i
      BY <3>2 DEF Creates, FsInv, Sizes
    <3> QED
      BY <3>1, <3>2
  <2>2. ASSUME NEW j \in Inum, disk'[j].type = "free" PROVE BlocksOf(disk'[j]) = {}
    <3>1. j # i
      BY <1>4, <2>2
    <3> QED
      BY <1>3, <2>2, <3>1 DEF Creates, FsInv, Sizes, BlocksOf
  <2> QED
    BY <2>1, <2>2 DEF Sizes
<1> QED
  BY <1>5, <1>6, <1>7, <1>8 DEF Tree

\* What create() makes of a free inode: a file without blocks, or a directory
\* with one.
NewInode(t) ==
  LET file == [FreeInode EXCEPT !.type = t, !.nlink = 1]
  IN IF t = "dir" THEN [Bmap(file) EXCEPT !.size = 1] ELSE file

\* What create() writes into a new inode.
LEMMA NewInodeIs ==
  ASSUME NEW t \in {"dir", "file"}, RoomFor(1), NEW r, r = NewInode(t)
  PROVE  /\ r \in Dinode /\ r.type = t /\ r.nlink = 1
         /\ r.size <= Len(r.addrs) /\ IsInjective(r.addrs) /\ r.ind \notin Range(r.addrs)
         /\ BlocksOf(r) \cap bitmap = {}
         /\ BlocksOf(r) = IF t = "dir"
                          THEN BlocksOf(Bmap([FreeInode EXCEPT !.type = t, !.nlink = 1]))
                          ELSE {}
<1>0. PICK file : file = [FreeInode EXCEPT !.type = t, !.nlink = 1]
  OBVIOUS
<1>1. /\ file \in Dinode /\ file.type = t /\ file.nlink = 1
      /\ file.size = 0 /\ file.addrs = << >> /\ file.ind = None
  <2>1. << >> \in Seq(Block) /\ 0 \in Nat /\ 1 \in Nat
    OBVIOUS
  <2> QED
    BY <1>0, <2>1 DEF FreeInode, Dinode
<1>2. /\ BlocksOf(file) = {} /\ Len(file.addrs) = 0 /\ IsInjective(file.addrs)
      /\ file.ind \notin Range(file.addrs)
  <2>1. BlocksOf(file) = {}
    BY <1>1, BlocksOfIs
  <2>2. Len(file.addrs) = 0
    BY <1>1
  <2>3. IsInjective(<< >>) /\ Range(<< >>) = {}
    BY DEF IsInjective, Range
  <2> QED
    BY <1>1, <2>1, <2>2, <2>3
<1>3. CASE t = "dir"
  <2>1. PICK g : g = Bmap(file)
    OBVIOUS
  <2>2. Len(file.addrs) < NDIRECT
    BY <1>2, FConstants
  <2>3. /\ g \in Dinode /\ g.type = file.type /\ g.nlink = file.nlink
        /\ Len(g.addrs) = Len(file.addrs) + 1
        /\ IsInjective(g.addrs) /\ g.ind \notin Range(g.addrs)
        /\ BlocksOf(g) \cap bitmap \subseteq BlocksOf(file)
    BY <1>1, <1>2, <2>1, <2>2, BmapIs
  <2>4. r = [g EXCEPT !.size = 1]
    BY <1>0, <1>3, <2>1 DEF NewInode
  <2>5. /\ r \in Dinode /\ r.type = g.type /\ r.nlink = g.nlink /\ r.size = 1
        /\ r.addrs = g.addrs /\ r.ind = g.ind
    <3>1. g \in Dinode /\ 1 \in Nat
      BY <2>3
    <3>2. g.addrs \in Seq(Block)
      BY <3>1 DEF Dinode
    <3> QED
      BY <2>4, <3>1, <3>2 DEF Dinode
  <2>6. BlocksOf(r) = BlocksOf(g)
    BY <2>5 DEF BlocksOf
  <2>7. r.size <= Len(r.addrs)
    <3>1. Len(r.addrs) = 0 + 1 /\ r.size = 1
      BY <1>2, <2>3, <2>5
    <3>2. 0 + 1 = 1 /\ 1 <= 1
      OBVIOUS
    <3> QED
      BY <3>1, <3>2
  <2> QED
    BY <1>0, <1>1, <1>2, <1>3, <2>1, <2>3, <2>5, <2>6, <2>7
<1>4. CASE t # "dir"
  <2>1. r = file
    BY <1>0, <1>4 DEF NewInode
  <2> QED
    BY <1>1, <1>2, <1>4, <2>1
<1> QED
  BY <1>3, <1>4
-----------------------------------------------------------------------------
\* dirlink() of "." and "..", if any, and of the new name.
LEMMA CreatedEntries ==
  ASSUME Tables, NEW d \in Inum, NEW n \in Names, NEW i \in Inum, i # d, NEW t \in {"dir", "file"},
         ents[i] = NoEnts,
         ents' = DirLink(IF t = "dir" THEN DirLink(ents, i, "..", d) ELSE ents, d, n, i)
  PROVE  /\ ents'[d][n] = i
         /\ \A m \in EntryNames : m # n => ents'[d][m] = ents[d][m]
         /\ \A e \in Inum : e # d /\ e # i => ents'[e] = ents[e]
         /\ \A m \in Names : ents'[i][m] = None
         /\ (t # "dir" => ents'[i] = NoEnts) /\ (t = "dir" => ents'[i][".."] = d)
<1>1. ents \in [Inum -> [EntryNames -> Inum \cup {None}]] /\ ".." \notin Names
      /\ ".." \in EntryNames /\ Names \subseteq EntryNames
  BY FConstants DEF Tables, EntryNames
<1>2. \A m \in EntryNames : ents[i][m] = None
  BY DEF NoEnts, EntryNames
<1>3. CASE t = "dir"
  <2> DEFINE g == DirLink(ents, i, "..", d)
  <2>1. g \in [Inum -> [EntryNames -> Inum \cup {None}]]
    BY <1>1, EntsLinked
  <2>2. /\ g[i][".."] = d /\ \A m \in Names : g[i][m] = None
    BY <1>1, <1>2 DEF DirLink
  <2>3. \A e \in Inum : e # i => g[e] = ents[e]
    BY <1>1 DEF DirLink
  <2>4. ents' = DirLink(g, d, n, i)
    BY <1>3
  <2> HIDE DEF g
  <2>5. /\ ents'[d][n] = i /\ \A m \in EntryNames : m # n => ents'[d][m] = g[d][m]
    BY <1>1, <2>1, <2>4 DEF DirLink
  <2>6. \A e \in Inum : e # d => ents'[e] = g[e]
    BY <2>1, <2>4 DEF DirLink
  <2> QED
    BY <1>3, <2>2, <2>3, <2>5, <2>6
<1>4. CASE t # "dir"
  <2>1. ents' = DirLink(ents, d, n, i)
    BY <1>4
  <2>2. SetsEntry(d, n, i)
    BY <2>1, DirLinkIs
  <2> QED
    BY <1>1, <1>2, <1>4, <2>2 DEF SetsEntry
<1> QED
  BY <1>3, <1>4

\* create() with names for what it allocates and looks up.
CreateStep(p, d, n, i, t, r, f) ==
  /\ d = op[p].at /\ n = Name(op[p].path) /\ i = Ialloc
  /\ pc[p] = "parent" /\ op[p].call \in {"create", "mkdir"} /\ lock[d] = None
  /\ DirLookup(d, n) = None /\ Unused # {} /\ RoomFor(1)
  /\ r = NewInode(t) /\ DOMAIN f = {d, i} /\ Change(f)
  /\ i # d => /\ f[i] = r
              /\ f[d] = [disk[d] EXCEPT !.nlink =
                                disk[d].nlink + (IF t = "dir" THEN 1 ELSE 0)]
  /\ panicked' = (lock[i] # None) /\ bitmap' = bitmap \cup BlocksOf(r)
  /\ ents' = DirLink(IF t = "dir" THEN DirLink(ents, i, "..", d) ELSE ents, d, n, i)
  /\ lock' = [lock EXCEPT ![i] = p] /\ lost' = lost \ {i}
  /\ op' = [op EXCEPT ![p].at = None, ![p].ip = i] /\ Goto(p, "locked", <<d>>)
  /\ cwd' = cwd /\ fd' = fd /\ freeing' = freeing

\* The invariant after a step of create() that makes inode i.
LEMMA CreatesFInv ==
  ASSUME FInv, ~panicked, IInv', NEW p \in Procs, NEW d \in Inum, NEW n, NEW i,
         NEW t \in {"dir", "file"}, NEW r, NEW f, CreateStep(p, d, n, i, t, r, f)
  PROVE  FInv'
<1> DEFINE o == [op[p] EXCEPT !.at = None, !.ip = i]
<1>1. /\ d = op[p].at /\ n = Name(op[p].path) /\ pc[p] = "parent"
      /\ op[p].call \in {"create", "mkdir"} /\ lock[d] = None /\ cwd' = cwd /\ fd' = fd
  BY DEF CreateStep
<1>2. /\ IInv /\ Tables /\ HoldsOK(p) /\ Holders /\ Domains /\ FsInv
      /\ op[p].path \in Seq(EntryNames) /\ op[p].path # << >> /\ op[p] \in OpRec
      /\ disk[d] # NotRead /\ disk[d] \in Dinode
  BY <1>1, FInvIs, OpIs DEF OpAt
<1>3. i \in Inum /\ disk[i].type = "free"
  <2>1. Unused \subseteq Nat /\ Unused \subseteq Inum
    BY Constants DEF Unused
  <2>2. i \in Unused
    BY <2>1, MinInSet DEF CreateStep, Ialloc
  <2> QED
    BY <2>2 DEF Unused
<1>4. disk[d].type = "dir" /\ i # d
  BY <1>1, <1>2, <1>3 DEF HoldsOK
<1>5. n \in Names /\ ents[d][n] = None
  <2>1. ents[d][".."] # None
    BY <1>2, <1>4 DEF FsInv, Shapes
  <2> QED
    BY <1>1, <1>2, <2>1, PathParts DEF CreateStep, DirLookup, EntryNames
<1>6. ents[i] = NoEnts /\ lock[i] = None
  BY <1>2, <1>3, FreeIsBlank
<1>7. /\ r \in Dinode /\ r.type = t /\ r.nlink = 1
      /\ r.size <= Len(r.addrs) /\ IsInjective(r.addrs) /\ r.ind \notin Range(r.addrs)
      /\ BlocksOf(r) \cap bitmap = {}
  <2>1. RoomFor(1) /\ r = NewInode(t)
    BY DEF CreateStep
  <2> QED
    BY <2>1, NewInodeIs
<1>8. PICK k \in Nat : k = disk[d].nlink + (IF t = "dir" THEN 1 ELSE 0)
  <2>1. PICK m \in Nat : m = disk[d].nlink
    BY <1>2, DinodeIs
  <2> QED
    BY <2>1
<1>9. PICK rd : rd = f[d]
  OBVIOUS
<1>10. /\ rd \in Dinode /\ rd.nlink = k /\ rd.type = disk[d].type /\ rd.size = disk[d].size
       /\ rd.addrs = disk[d].addrs /\ rd.ind = disk[d].ind
  <2>1. rd = [disk[d] EXCEPT !.nlink = k]
    BY <1>4, <1>8, <1>9 DEF CreateStep
  <2> QED
    BY <1>2, <2>1, NlinkIs
<1>11. /\ disk' \in [Inum -> Dinode] /\ mem' \in [Inum -> Dinode \cup {NotRead}]
       /\ disk'[d] = rd /\ disk'[i] = r /\ mem'[d] = rd /\ mem'[i] = r
       /\ \A j \in Inum : j # d /\ j # i => disk'[j] = disk[j] /\ mem'[j] = mem[j]
  <2>1. DOMAIN f = {d, i} /\ f[d] = rd /\ f[i] = r /\ Change(f)
    BY <1>4, <1>9 DEF CreateStep
  <2> QED
    BY <1>2, <1>3, <1>4, <1>7, <1>10, <2>1 DEF Change, Iupdate, Put, Domains
<1>12. /\ ents'[d][n] = i
       /\ \A m \in EntryNames : m # n => ents'[d][m] = ents[d][m]
       /\ \A e \in Inum : e # d /\ e # i => ents'[e] = ents[e]
       /\ \A m \in Names : ents'[i][m] = None
       /\ (t # "dir" => ents'[i] = NoEnts) /\ (t = "dir" => ents'[i][".."] = d)
  <2>1. ents' = DirLink(IF t = "dir" THEN DirLink(ents, i, "..", d) ELSE ents, d, n, i)
    BY DEF CreateStep
  <2> QED
    BY <1>2, <1>3, <1>4, <1>5, <1>6, <2>1, CreatedEntries
<1>13. MayCreate(d, n, i)
  BY <1>3, <1>4, <1>5 DEF MayCreate
<1>14. Creates(d, n, i, t)
  <2>1. bitmap' = bitmap \cup BlocksOf(disk'[i]) /\ BlocksOf(disk'[i]) \cap bitmap = {}
    BY <1>7, <1>11 DEF CreateStep
  <2>2. disk'[d].nlink = disk[d].nlink + (IF t = "dir" THEN 1 ELSE 0)
    BY <1>8, <1>10, <1>11
  <2>3. \A j \in Inum : j # i =>
          /\ disk'[j].type = disk[j].type /\ disk'[j].addrs = disk[j].addrs
          /\ disk'[j].ind = disk[j].ind /\ disk'[j].size = disk[j].size
          /\ j # d => disk'[j].nlink = disk[j].nlink
    BY <1>10, <1>11
  <2>4. lost' = lost \ {i}
    BY DEF CreateStep
  <2> QED
    BY <1>7, <1>11, <1>12, <2>1, <2>2, <2>3, <2>4 DEF Creates
<1>15. /\ pc'[p] = "locked" /\ op'[p] = o
       /\ \A q \in Procs : q # p => pc'[q] = pc[q] /\ op'[q] = op[q]
  BY <1>2, GotoOwn DEF CreateStep, Tables
<1>16. o.ip = i /\ o.at = None /\ o.call = op[p].call /\ o.path = op[p].path /\ o.new = op[p].new
  BY <1>2 DEF OpRec
<1> HIDE DEF o
<1>17. \A j \in Inum : ~Pend(op[p], pc[p], j) /\ ~Pend(op'[p], pc'[p], j)
  BY <1>1, <1>15, <1>16 DEF Pend
<1>18. LinkCount' /\ Shapes' /\ Tree' /\ BlocksOwned' /\ Sizes'
  BY <1>2, <1>3, <1>5, <1>13, <1>14, <1>15, <1>17, CreatesLinks, CreatesTree
<1>19. TableIsDisk'
  BY <1>2, <1>11 DEF FsInv, TableIsDisk
<1>20. FsInv'
  BY <1>18, <1>19 DEF FsInv
<1>21. /\ lock' \in [Inum -> Procs \cup {None}] /\ lock'[i] = p
       /\ \A j \in Inum : j # i => lock'[j] = lock[j]
  BY <1>2, <1>3 DEF CreateStep, Domains
<1>22. panicked' = FALSE
  BY <1>6 DEF CreateStep
<1>23. Domains'
  <2>1. bitmap' \subseteq Block
    BY <1>11, <1>18, OwnedAreBlocks
  <2> QED
    BY <1>2, <1>11, <1>21, <1>22, <2>1 DEF CreateStep, Domains
<1>24. \A j \in Inum : disk[j].type # "free" => disk'[j].type = disk[j].type
  BY <1>3, <1>10, <1>11
<1>25. Keeps(p)
  <2>1. \A j \in Inum : lock'[j] = lock[j] \/ (lock[j] \in {None, p} /\ lock'[j] \in {None, p})
    BY <1>6, <1>21
  <2>2. \A j \in Inum : mem'[j] # NotRead \/ mem'[j] = mem[j]
    BY <1>7, <1>10, <1>11, DinodeIs
  <2>3. \A j \in Inum : ents'[j] = ents[j] \/ lock[j] \in {None, p}
    BY <1>1, <1>6, <1>12
  <2> QED
    BY <1>1, <1>15, <1>24, <2>1, <2>2, <2>3 DEF Keeps
<1>26. OwnOK(p)
  <2>1. \A j \in Inum : lock'[j] = p => j = i
    BY <1>1, <1>21, NoLocks
  <2>2. \A j \in Inum : lock'[j] = p => Has(p, j)'
    BY <1>15, <1>16, <2>1 DEF Has
  <2>3. CallAt(op'[p], pc'[p])
    BY <1>1, <1>15, <1>16 DEF CallAt
  <2>4. cwd[p] \in Inum /\ fd[p] \in Inum \cup {None}
    BY <1>2, OpIs
  <2>5. disk'[cwd'[p]].type = "dir" /\ (fd'[p] # None => disk'[fd'[p]].type # "free")
    BY <1>1, <1>2, <1>24, <2>4 DEF HoldsOK
  <2>6. NoParentPaths => NamesOnly(o.path) /\ NamesOnly(o.new)
    BY <1>2, <1>16 DEF HoldsOK
  <2>7. mem'[i] # NotRead /\ disk'[i].type # "free"
    BY <1>7, <1>11, DinodeIs
  <2>8. HoldsOK(p)'
    BY <1>1, <1>15, <1>16, <1>21, <2>3, <2>5, <2>6, <2>7 DEF HoldsOK
  <2> QED
    BY <2>2, <2>8 DEF OwnOK
<1> QED
  BY <1>20, <1>22, <1>23, <1>25, <1>26, EndFInv

\* CreateNew is such a step.
LEMMA CreateNewFInv ==
  ASSUME FInv, ~panicked, IInv', NEW p \in Procs, CreateNew(p)
  PROVE  FInv'
<1> DEFINE d == op[p].at
           n == Name(op[p].path)
           i == Ialloc
           dir == op[p].call = "mkdir"
           file == [FreeInode EXCEPT !.type = IF dir THEN "dir" ELSE "file", !.nlink = 1]
           g == [j \in {d, i} |->
                  CASE j = d -> [Ilock(d) EXCEPT !.nlink = IF dir THEN @ + 1 ELSE @]
                    [] j = i /\ dir -> [Bmap(file) EXCEPT !.size = 1]
                    [] j = i /\ ~dir -> file]
           t == IF dir THEN "dir" ELSE "file"
           r == NewInode(t)
<1>1. /\ pc[p] = "parent" /\ op[p].call \in {"create", "mkdir"} /\ lock[d] = None
      /\ DirLookup(d, n) = None /\ Unused # {} /\ RoomFor(1) /\ Change(g)
      /\ panicked' = (lock[i] # None)
      /\ bitmap' = bitmap \cup (IF dir THEN BlocksOf(Bmap(file)) ELSE {})
      /\ ents' = DirLink(IF dir THEN DirLink(ents, i, "..", d) ELSE ents, d, n, i)
      /\ lock' = [lock EXCEPT ![i] = p] /\ lost' = lost \ {i}
      /\ op' = [op EXCEPT ![p].at = None, ![p].ip = i] /\ Goto(p, "locked", <<d>>)
      /\ cwd' = cwd /\ fd' = fd /\ freeing' = freeing
  BY DEF CreateNew, At
<1>2. d \in Inum /\ Ilock(d) = disk[d] /\ disk[d] \in Dinode
  BY <1>1, FInvIs, OpIs DEF OpAt
<1>3. PICK k \in Nat : k = disk[d].nlink
  BY <1>2, DinodeIs
<1>4. t \in {"dir", "file"} /\ (t = "dir" <=> dir)
  OBVIOUS
<1>5. r = IF dir THEN [Bmap(file) EXCEPT !.size = 1] ELSE file
  BY <1>4 DEF NewInode
<1> HIDE DEF d, n, i, dir, t, r
<1>6. DOMAIN g = {d, i} /\ (i # d => g[i] = r)
  BY <1>5
<1>7. ASSUME i # d
      PROVE  g[d] = [disk[d] EXCEPT !.nlink = disk[d].nlink + (IF t = "dir" THEN 1 ELSE 0)]
  <2>1. g[d] = [Ilock(d) EXCEPT !.nlink = IF dir THEN Ilock(d).nlink + 1 ELSE Ilock(d).nlink]
    BY <1>7
  <2>2. (IF dir THEN k + 1 ELSE k) = k + (IF t = "dir" THEN 1 ELSE 0)
    BY <1>4
  <2> HIDE DEF g
  <2> QED
    BY <1>2, <1>3, <2>1, <2>2
<1>8. bitmap' = bitmap \cup BlocksOf(r)
  <2>1. BlocksOf(r) = IF t = "dir"
                      THEN BlocksOf(Bmap([FreeInode EXCEPT !.type = t, !.nlink = 1]))
                      ELSE {}
    BY <1>1, <1>4, NewInodeIs DEF r
  <2>2. dir => t = "dir" /\ file = [FreeInode EXCEPT !.type = t, !.nlink = 1]
    BY <1>4
  <2> HIDE DEF file
  <2> QED
    BY <1>1, <1>4, <2>1, <2>2
<1>9. ents' = DirLink(IF t = "dir" THEN DirLink(ents, i, "..", d) ELSE ents, d, n, i)
  BY <1>1, <1>4
<1> HIDE DEF g
<1>10. CreateStep(p, d, n, i, t, r, g)
  BY <1>1, <1>6, <1>7, <1>8, <1>9 DEF CreateStep, d, n, i, r
<1> QED
  BY <1>2, <1>4, <1>10, CreatesFInv
-----------------------------------------------------------------------------
\* iput() frees inode i; what a removed directory still had is lost.
Frees(i) ==
  /\ disk' = [disk EXCEPT ![i] = FreeInode] /\ mem' = [mem EXCEPT ![i] = NotRead]
  /\ bitmap' = bitmap \ BlocksOf(disk[i]) /\ ents' = [ents EXCEPT ![i] = NoEnts]
  /\ lost' = lost \cup ({ents[i][n] : n \in Names} \ {None})

\* An inode without links is named nowhere.
LEMMA UnlinkedIsGone ==
  ASSUME IInv, Domains, FsInv, Holders, NEW i \in Inum, disk[i].nlink = 0
  PROVE  ~Named(i) /\ SubdirsOf(i) = {} /\ i # ROOTINO
<1>1. CASE disk[i].type = "free"
  BY <1>1, FreeIsBlank
<1>2. CASE disk[i].type # "free"
  <2>1. ~(0 >= 1)
    OBVIOUS
  <2>2. EntriesOf(i) = {} /\ SubdirsOf(i) = {} /\ i # ROOTINO
    BY <1>2, <2>1, LinksLeft
  <2>3. ~Named(i)
    <3> SUFFICES ASSUME NEW d \in Inum, NEW n \in Names, ents[d][n] = i PROVE FALSE
      BY DEF Named
    <3>1. <<d, n>> \in EntriesOf(i)
      BY DEF EntriesOf
    <3> QED
      BY <2>2, <3>1
  <2> QED
    BY <2>2, <2>3
<1> QED
  BY <1>1, <1>2

\* The tables after inode i is freed.
LEMMA FreesIs ==
  ASSUME Domains, Tables, NEW i \in Inum, Frees(i)
  PROVE  /\ disk'[i] = FreeInode /\ mem'[i] = NotRead /\ ents'[i] = NoEnts
         /\ disk' \in [Inum -> Dinode] /\ mem' \in [Inum -> Dinode \cup {NotRead}]
         /\ \A j \in Inum : j # i => disk'[j] = disk[j] /\ mem'[j] = mem[j] /\ ents'[j] = ents[j]
         /\ \A m \in EntryNames : ents'[i][m] = None
  BY DinodeIs DEF Domains, Tables, Frees, NoEnts, EntryNames

\* Freeing an inode leaves a tree, and no block without an owner.
LEMMA FreesTree ==
  ASSUME IInv, Domains, FsInv, Holders, NEW i \in Inum, disk[i].nlink = 0, Frees(i)
  PROVE  Shapes' /\ Tree' /\ BlocksOwned' /\ Sizes' /\ TableIsDisk'
<1>1. /\ disk'[i] = FreeInode /\ mem'[i] = NotRead /\ ents'[i] = NoEnts
      /\ \A j \in Inum : j # i => disk'[j] = disk[j] /\ mem'[j] = mem[j] /\ ents'[j] = ents[j]
      /\ \A m \in EntryNames : ents'[i][m] = None
  BY FreesIs DEF IInv
<1>2. ~Named(i) /\ i # ROOTINO
  BY UnlinkedIsGone
<1>3. Shapes'
  BY <1>1, <1>2, Constants, DinodeIs DEF FsInv, Shapes
<1>4. \A e \in Inum, m \in Names : ents'[e][m] # None => e # i /\ ents'[e][m] = ents[e][m]
  BY <1>1 DEF EntryNames
<1>5. ASSUME NEW e \in Inum, NEW m \in Names, NEW x \in Inum, ents'[e][m] = x
      PROVE  Entry(e, m, x)'
  <2>1. ents[e][m] = x /\ x # i
    BY <1>2, <1>4, <1>5, Constants DEF Named
  <2>2. Entry(e, m, x)
    BY <2>1 DEF FsInv, Tree
  <2>3. \A k \in Inum, l \in Names : ents'[k][l] = x => ents[k][l] = x
    BY <1>4, Constants
  <2> QED
    BY <1>1, <2>1, <2>2, <2>3 DEF Entry
<1>6. BlocksOwned'
  <2>1. BlocksOf(disk'[i]) = {} /\ IsInjective(disk'[i].addrs)
        /\ disk'[i].ind \notin Range(disk'[i].addrs)
    BY <1>1, DinodeIs, BlocksOfIs DEF IsInjective, Range
  <2> QED
    BY <1>1, <2>1, OwnBlocks DEF FsInv, Frees
<1>7. Sizes'
  <2>1. FreeInode.size <= Len(FreeInode.addrs) /\ BlocksOf(FreeInode) = {}
    <3>1. Len(<< >>) = 0 /\ 0 <= 0
      OBVIOUS
    <3> QED
      BY <3>1, DinodeIs, BlocksOfIs
  <2> QED
    BY <1>1, <2>1 DEF FsInv, Sizes
<1>8. TableIsDisk'
  BY <1>1 DEF FsInv, TableIsDisk
<1> QED
  BY <1>3, <1>5, <1>6, <1>7, <1>8 DEF Tree

\* A subdirectory of another directory keeps its name.
LEMMA FreesSubdirs ==
  ASSUME IInv, Domains, FsInv, Holders, NEW i \in Inum, disk[i].nlink = 0, Frees(i),
         NEW j \in Inum, j # i
  PROVE  SubdirsOf(j)' = SubdirsOf(j)
<1>1. /\ \A e \in Inum : e # i => ents'[e] = ents[e]
      /\ \A m \in EntryNames : ents'[i][m] = None
  BY FreesIs DEF IInv
<1>2. ~Named(i)
  BY UnlinkedIsGone
<1>3. i \notin SubdirsOf(j) /\ i \notin SubdirsOf(j)'
  BY <1>1, <1>2, Constants DEF SubdirsOf, EntryNames
<1>4. ASSUME NEW e \in Inum, e # i, ents[e][".."] = j PROVE Named(e)' <=> Named(e)
  <2>1. ASSUME Named(e)' PROVE Named(e)
    <3>1. PICK k \in Inum, m \in Names : ents'[k][m] = e
      BY <2>1 DEF Named
    <3>2. ents[k][m] = e
      BY <1>1, <3>1, Constants DEF EntryNames
    <3> QED
      BY <3>2 DEF Named
  <2>2. ASSUME Named(e) PROVE Named(e)'
    <3>1. PICK k \in Inum, m \in Names : ents[k][m] = e
      BY <2>2 DEF Named
    <3>2. disk[e].type = "dir"
      BY <1>4, Constants DEF FsInv, Shapes, NoEnts
    <3>3. k = j
      BY <1>4, <3>1, <3>2 DEF FsInv, Tree, Entry
    <3>4. ents'[k][m] = e
      BY <1>1, <3>1, <3>3
    <3> QED
      BY <3>4 DEF Named
  <2> QED
    BY <2>1, <2>2
<1>5. \A e \in Inum : e # i => (e \in SubdirsOf(j)' <=> e \in SubdirsOf(j))
  BY <1>1, <1>4 DEF SubdirsOf
<1>6. SubdirsOf(j) \subseteq Inum /\ SubdirsOf(j)' \subseteq Inum
  BY LinkSets, LinkSetsNext
<1>7. \A e \in Inum : e \in SubdirsOf(j)' <=> e \in SubdirsOf(j)
  BY <1>3, <1>5
<1> QED
  BY <1>6, <1>7

\* The links that vanish with a directory are in `lost'.
LEMMA FreesLinks ==
  ASSUME IInv, Domains, FsInv, Holders, NEW i \in Inum, disk[i].nlink = 0, Frees(i),
         op' = op, pc' = pc
  PROVE  LinkCount'
<1>1. /\ disk'[i] = FreeInode
      /\ \A j \in Inum : j # i => disk'[j] = disk[j] /\ ents'[j] = ents[j]
      /\ \A m \in EntryNames : ents'[i][m] = None
  BY FreesIs DEF IInv
<1>2. ASSUME NEW j \in Inum, j # i PROVE LinkOK(j)'
  <2>1. SubdirsOf(j)' = SubdirsOf(j) /\ Pending(j)' = Pending(j)
    BY <1>2, FreesSubdirs DEF Pending
  <2>2. EntriesOf(j)' \subseteq EntriesOf(j)
    <3>1. \A e \in Inum, m \in Names : ents'[e][m] = j => ents[e][m] = j
      BY <1>1, Constants DEF EntryNames
    <3>2. ASSUME NEW x \in EntriesOf(j)' PROVE x \in EntriesOf(j)
      <4>1. PICK e \in Inum, m \in Names : x = <<e, m>> /\ ents'[e][m] = j
        BY <3>2 DEF EntriesOf
      <4> QED
        BY <3>1, <4>1 DEF EntriesOf
    <3> QED
      BY <3>2
  <2>3. PICK a \in Nat, a1 \in Nat, b \in Nat, c \in Nat, m \in Nat :
          /\ a = Cardinality(EntriesOf(j)) /\ a1 = Cardinality(EntriesOf(j)')
          /\ b = Cardinality(SubdirsOf(j)) /\ c = Cardinality(Pending(j))
          /\ m = disk[j].nlink
    BY LinkSets, LinkSetsNext, DinodeIs DEF Domains
  <2>4. a1 <= a
    BY <2>2, <2>3, LinkSets, FS_Subset
  <2>5. j \notin lost' => a1 = a
    <3>1. ASSUME j \notin lost' PROVE EntriesOf(j)' = EntriesOf(j)
      <4>1. \A n \in Names : ents[i][n] # j
        BY <3>1, Constants DEF Frees
      <4>2. ASSUME NEW x \in EntriesOf(j) PROVE x \in EntriesOf(j)'
        <5>1. PICK e \in Inum, y \in Names : x = <<e, y>> /\ ents[e][y] = j
          BY <4>2 DEF EntriesOf
        <5>2. ents'[e][y] = j
          BY <1>1, <4>1, <5>1
        <5> QED
          BY <5>1, <5>2 DEF EntriesOf
      <4> QED
        BY <2>2, <4>2
    <3> QED
      BY <2>3, <3>1
  <2>6. lost \subseteq lost' /\ disk'[j] = disk[j]
    BY <1>1, <1>2 DEF Frees
  <2> DEFINE root == IF j = ROOTINO THEN 1 ELSE 0
  <2>7. Links(j) = a + b + c + root /\ Links(j)' = a1 + b + c + root /\ root \in Nat
    BY <2>1, <2>3 DEF Links
  <2> HIDE DEF root
  <2>8. disk[j].type # "free" =>
          IF j \in lost THEN m >= a + b + c + root ELSE m = a + b + c + root
    <3>1. LinkOK(j)
      BY LinksAre DEF FsInv
    <3> QED
      BY <2>3, <2>7, <3>1 DEF LinkOK
  <2>9. disk[j].type # "free" =>
          IF j \in lost' THEN m >= a1 + b + c + root ELSE m = a1 + b + c + root
    BY <2>4, <2>5, <2>6, <2>7, <2>8
  <2> QED
    BY <2>3, <2>6, <2>7, <2>9 DEF LinkOK
<1>3. LinkOK(i)'
  BY <1>1, DinodeIs DEF LinkOK
<1>4. \A j \in Inum : LinkOK(j)'
  BY <1>2, <1>3
<1> QED
  BY <1>4 DEF LinkCount, LinkOK, Links

\* iput() frees the inode: the only reference is the one being put, so that no
\* process points to it, it has no name, and its lock is free.
LEMMA IputFreeFInv ==
  ASSUME FInv, ~panicked, IInv', NEW p \in Procs, IputFree(p)
  PROVE  FInv'
<1> DEFINE h == Head(puts[p])
<1>1. IInv /\ Tables /\ Domains /\ FsInv /\ HoldsOK(p) /\ Holders
  BY FInvIs
<1>2. /\ puts[p] # << >> /\ ref[h] = 1 /\ mem[h] # NotRead /\ mem[h].nlink = 0
      /\ panicked' = (lock[h] # None \/ DoubleFree(mem[h]))
      /\ disk' = [disk EXCEPT ![h] = FreeInode] /\ mem' = [mem EXCEPT ![h] = NotRead]
      /\ bitmap' = bitmap \ Itrunc(mem[h]) /\ ents' = [ents EXCEPT ![h] = NoEnts]
      /\ lost' = lost \cup ({ents[h][n] : n \in Names} \ {None})
      /\ freeing' = [freeing EXCEPT ![p] = TRUE]
      /\ lock' = lock /\ cwd' = cwd /\ fd' = fd /\ op' = op /\ pc' = pc
  BY DEF IputFree, LastPut
<1>3. PICK i \in Inum : i = h
  BY <1>1, <1>2, LastUnheld
<1>4. Unheld(i) /\ lock[i] = None
  BY <1>1, <1>2, <1>3, LastUnheld, LockedHeld
<1>5. mem[i] = disk[i] /\ disk[i].nlink = 0
  BY <1>1, <1>2, <1>3 DEF FsInv, TableIsDisk
<1>6. panicked' = FALSE
  <2>1. BlocksOf(disk[i]) \subseteq bitmap
    BY <1>1, DiskBlocks
  <2> QED
    BY <1>2, <1>3, <1>4, <1>5, <2>1 DEF DoubleFree
<1>7. Frees(i)
  BY <1>2, <1>3, <1>5 DEF Frees, Itrunc
<1>8. op' = op /\ pc' = pc /\ cwd' = cwd /\ fd' = fd /\ lock' = lock
      /\ freeing' = [freeing EXCEPT ![p] = TRUE]
  BY <1>2
<1> HIDE DEF h
<1>9. /\ disk'[i] = FreeInode /\ mem'[i] = NotRead /\ ents'[i] = NoEnts
      /\ disk' \in [Inum -> Dinode] /\ mem' \in [Inum -> Dinode \cup {NotRead}]
      /\ \A j \in Inum : j # i => disk'[j] = disk[j] /\ mem'[j] = mem[j] /\ ents'[j] = ents[j]
  BY <1>1, <1>7, FreesIs
<1>10. FsInv'
  <2>1. LinkCount'
    BY <1>1, <1>5, <1>7, <1>8, FreesLinks
  <2>2. Shapes' /\ Tree' /\ BlocksOwned' /\ Sizes' /\ TableIsDisk'
    BY <1>1, <1>5, <1>7, FreesTree
  <2> QED
    BY <2>1, <2>2 DEF FsInv
<1>11. Domains'
  <2>1. lost' \subseteq Inum
    BY <1>1, <1>7 DEF Domains, Frees, Tables, EntryNames
  <2>2. bitmap' \subseteq Block /\ freeing' \in [Procs -> BOOLEAN] /\ lock' \in [Inum -> Procs \cup {None}]
    BY <1>1, <1>7, <1>8 DEF Domains, Frees
  <2> QED
    BY <1>6, <1>9, <2>1, <2>2 DEF Domains
<1>12. Keeps(p)
  BY <1>4, <1>8, <1>9 DEF Keeps
<1>13. OwnOK(p)
  <2>1. \A j \in Inum : lock'[j] = p => Has(p, j)'
    BY <1>1, <1>8, FConstants DEF Holders, LocksHeld, Has
  <2>2. cwd[p] # i /\ fd[p] # i /\ op[p].at # i /\ op[p].ip # i
    BY <1>4 DEF Unheld
  <2>3. /\ OpAt(op[p], pc[p]) /\ op[p].at \in Inum \cup {None} /\ op[p].ip \in Inum \cup {None}
        /\ cwd[p] \in Inum /\ fd[p] \in Inum \cup {None}
    BY <1>1, OpIs
  <2>4. /\ disk'[cwd[p]] = disk[cwd[p]]
        /\ fd[p] # None => disk'[fd[p]] = disk[fd[p]]
        /\ op[p].at # None => /\ disk'[op[p].at] = disk[op[p].at] /\ mem'[op[p].at] = mem[op[p].at]
                              /\ ents'[op[p].at] = ents[op[p].at]
        /\ op[p].ip # None => /\ disk'[op[p].ip] = disk[op[p].ip] /\ mem'[op[p].ip] = mem[op[p].ip]
    BY <1>9, <2>2, <2>3
  <2>5. HoldsOK(p)'
    BY <1>1, <1>8, <2>3, <2>4 DEF HoldsOK, OpAt
  <2> QED
    BY <2>1, <2>5 DEF OwnOK
<1> QED
  BY <1>6, <1>10, <1>11, <1>12, <1>13, EndFInv
-----------------------------------------------------------------------------
\* The file system that mkfs leaves.
LEMMA InitFInv == Init => FInv
<1> SUFFICES ASSUME Init PROVE FInv
  OBVIOUS
<1>1. IInv
  BY InitIInv
<1>2. /\ RootDinode \in Dinode /\ RootDinode.type = "dir" /\ RootDinode.nlink = 1
      /\ RootDinode.size = 1 /\ RootDinode.addrs = <<1>> /\ RootDinode.ind = None
  <2>1. <<1>> \in Seq(Block) /\ 1 \in Nat
    BY FConstants
  <2> QED
    BY <2>1 DEF RootDinode, Dinode
<1>3. /\ disk \in [Inum -> Dinode] /\ disk[ROOTINO] = RootDinode
      /\ \A i \in Inum : i # ROOTINO => disk[i] = FreeInode
      /\ \A i \in Inum : mem[i] = NotRead /\ lock[i] = None
      /\ \A p \in Procs : /\ cwd[p] = ROOTINO /\ fd[p] = None /\ op[p] = NoOp
                          /\ pc[p] = "idle"
      /\ ents[ROOTINO] = [NoEnts EXCEPT ![".."] = ROOTINO]
      /\ \A i \in Inum : i # ROOTINO => ents[i] = NoEnts
      /\ bitmap = {1} /\ lost = {} /\ panicked = FALSE
  BY <1>2, DinodeIs, Constants DEF Init, MkfsBitmap
<1>4. Domains
  <2>1. bitmap \subseteq Block
    BY <1>3, FConstants
  <2> QED
    BY <1>3, <2>1 DEF Init, Domains
<1>5. /\ \A i \in Inum, n \in Names : ents[i][n] = None
      /\ ents[ROOTINO][".."] = ROOTINO
  BY <1>3, FConstants DEF NoEnts
<1>6. LinkCount
  <2>1. ASSUME NEW i \in Inum PROVE LinkOK(i)
    <3>1. CASE i # ROOTINO
      BY <1>3, <3>1, DinodeIs DEF LinkOK
    <3>2. CASE i = ROOTINO
      <4>1. EntriesOf(i) = {}
        <5> SUFFICES ASSUME NEW x \in EntriesOf(i) PROVE FALSE
          OBVIOUS
        <5>1. PICK e \in Inum, m \in Names : ents[e][m] = i
          BY DEF EntriesOf
        <5> QED
          BY <1>5, <5>1, Constants
      <4>2. SubdirsOf(i) = {}
        BY <1>5, Constants DEF SubdirsOf, Named
      <4>3. Pending(i) = {}
        BY <1>3, Constants DEF Pending, NoOp
      <4>4. Cardinality({}) = 0
        BY FS_EmptySet
      <4>5. Links(i) = 1
        BY <3>2, <4>1, <4>2, <4>3, <4>4 DEF Links
      <4> QED
        BY <1>2, <1>3, <3>2, <4>5 DEF LinkOK
    <3> QED
      BY <3>1, <3>2
  <2> QED
    BY <2>1, LinksAre
<1>7. BlocksOf(RootDinode) = {1} /\ BlocksOf(FreeInode) = {}
  <2>1. Range(<<1>>) = {1}
    BY DEF Range
  <2>2. BlocksOf(RootDinode) = {1}
    BY <1>2, <2>1 DEF BlocksOf
  <2> QED
    BY <2>2, DinodeIs, BlocksOfIs
<1>8. BlocksOwned
  <2>1. bitmap = UNION {BlocksOf(disk[i]) : i \in Inum}
    <3>1. \A i \in Inum : BlocksOf(disk[i]) \subseteq {1}
      BY <1>3, <1>7
    <3>2. 1 \in BlocksOf(disk[ROOTINO])
      BY <1>3, <1>7
    <3> QED
      BY <1>3, <3>1, <3>2, Constants
  <2>2. IsInjective(<<1>>) /\ IsInjective(<< >>) /\ Range(<<1>>) = {1} /\ Range(<< >>) = {}
    BY DEF IsInjective, Range
  <2>3. \A i \in Inum : IsInjective(disk[i].addrs) /\ disk[i].ind \notin Range(disk[i].addrs)
    <3>1. None # 1
      BY DEF None
    <3> QED
      BY <1>2, <1>3, <2>2, <3>1, DinodeIs
  <2>4. \A i, j \in Inum : i # j => BlocksOf(disk[i]) \cap BlocksOf(disk[j]) = {}
    BY <1>3, <1>7
  <2> QED
    BY <2>1, <2>3, <2>4 DEF BlocksOwned
<1>9. TableIsDisk
  BY <1>3 DEF TableIsDisk
<1>10. Shapes
  <2>1. disk[ROOTINO].type = "dir" /\ ents[ROOTINO][".."] = ROOTINO
    BY <1>2, <1>3, <1>5
  <2>2. \A i \in Inum : i # ROOTINO => disk[i].type = "free"
    BY <1>3, DinodeIs
  <2>3. ROOTINO # None
    BY DEF ROOTINO, None
  <2>4. ASSUME NEW i \in Inum, disk[i].type = "dir" PROVE ents[i][".."] # None
    <3>1. i = ROOTINO
      BY <2>2, <2>4
    <3> QED
      BY <2>1, <2>3, <3>1
  <2>5. ASSUME NEW i \in Inum, disk[i].type # "dir" PROVE ents[i] = NoEnts
    <3>1. i # ROOTINO
      BY <2>1, <2>5
    <3> QED
      BY <1>3, <3>1
  <2> QED
    BY <2>1, <2>4, <2>5 DEF Shapes
<1>11. Tree
  BY <1>5, Constants DEF Tree
<1>12. Sizes
  <2>1. Len(<<1>>) = 1 /\ Len(<< >>) = 0 /\ 1 <= 1 /\ 0 <= 0
    OBVIOUS
  <2>2. /\ RootDinode.size <= Len(RootDinode.addrs) /\ RootDinode.type # "free"
        /\ FreeInode.size <= Len(FreeInode.addrs)
    BY <1>2, <2>1, DinodeIs
  <2>3. \A i \in Inum : disk[i] = RootDinode \/ disk[i] = FreeInode
    BY <1>3
  <2>4. \A i \in Inum : disk[i].size <= Len(disk[i].addrs)
    BY <2>2, <2>3
  <2>5. \A i \in Inum : disk[i].type = "free" => BlocksOf(disk[i]) = {}
    BY <1>7, <2>2, <2>3
  <2> QED
    BY <2>4, <2>5 DEF Sizes
<1>13. ASSUME NEW p \in Procs PROVE HoldsOK(p)
  <2>1. NoOp.call = "none" /\ NoOp.path = << >> /\ NoOp.new = << >> /\ NamesOnly(<< >>)
    BY DEF NoOp, NamesOnly
  <2> QED
    BY <1>2, <1>3, <2>1 DEF HoldsOK, CallAt
<1>14. Holders
  BY <1>3, <1>13 DEF Holders, LocksHeld
<1> QED
  BY <1>1, <1>3, <1>4, <1>6, <1>8, <1>9, <1>10, <1>11, <1>12, <1>14 DEF FInv, FsInv

\* Every step of every process keeps FInv.
LEMMA NextFInv == FInv /\ [Next]_vars => FInv'
<1> SUFFICES ASSUME FInv, [Next]_vars PROVE FInv'
  OBVIOUS
<1>1. IInv'
  BY NextIInv DEF FInv
<1>2. CASE UNCHANGED vars
  <2>1. /\ disk' = disk /\ mem' = mem /\ ents' = ents /\ bitmap' = bitmap /\ lock' = lock
        /\ cwd' = cwd /\ fd' = fd /\ op' = op /\ pc' = pc /\ freeing' = freeing
        /\ lost' = lost /\ panicked' = panicked
    BY <1>2 DEF vars, tableVars
  <2>2. Domains' /\ BlocksOwned' /\ TableIsDisk' /\ Shapes' /\ Tree' /\ Sizes'
    BY <2>1 DEF FInv, FsInv, Domains, BlocksOwned, TableIsDisk, Shapes, Tree, Entry, Sizes
  <2>3. LinkCount'
    BY <2>1 DEF FInv, FsInv, LinkCount, EntriesOf, SubdirsOf, Named, Pending
  <2>4. ~panicked' => Holders'
    BY <2>1 DEF FInv, Holders, HoldsOK, LocksHeld, Has
  <2> QED
    BY <1>1, <2>1, <2>2, <2>3, <2>4 DEF FInv, FsInv
<1>3. ASSUME ~panicked, NEW p \in Procs, SysCall(p) PROVE FInv'
  <2>1. ASSUME NEW call \in CallsOf[p], NEW path \in Paths,
               NEW from \in {ROOTINO, cwd[p]},
               NEW new \in IF call = "link" THEN Paths ELSE {<< >>},
               Start(p, call, path, new, from)
        PROVE  FInv'
    BY <1>1, <1>3, <2>1, StartFInv
  <2>2. CASE Walk(p) \/ OpenTarget(p) \/ Chdir(p)
    BY <1>1, <1>3, <2>2, WalkFInv, OpenTargetFInv, ChdirFInv
  <2>3. CASE LinkTarget(p) \/ LinkParent(p) \/ LinkUndo(p)
    BY <1>1, <1>3, <2>3, LinkTargetFInv, LinkParentFInv, LinkUndoFInv
  <2>4. CASE UnlinkParent(p) \/ UnlinkChild(p) \/ Unlinked(p)
    BY <1>1, <1>3, <2>4, UnlinkParentFInv, UnlinkChildFInv, UnlinkedFInv
  <2>5. CASE CreateFinds(p) \/ CreateExists(p) \/ CreateNew(p) \/ DiskFull(p)
    BY <1>1, <1>3, <2>5, CreateFindsFInv, CreateExistsFInv, CreateNewFInv, DiskFullFInv
  <2>6. CASE MkdirDone(p) \/ OpenFails(p)
    BY <1>1, <1>3, <2>6, LockedEndsFInv
  <2>7. CASE OpenDone(p)
    BY <1>1, <1>3, <2>7, LockedEndsFInv, TruncFInv
  <2>8. CASE Read(p) \/ Stat(p) \/ Close(p)
    BY <1>1, <1>3, <2>8, ReadsFInv
  <2>9. CASE \E copied \in BOOLEAN : Write(p, copied)
    BY <1>1, <1>3, <2>9, WriteFInv
  <2> QED
    BY <1>3, <2>1, <2>2, <2>3, <2>4, <2>5, <2>6, <2>7, <2>8, <2>9 DEF SysCall
<1>4. ASSUME ~panicked, NEW p \in Procs, IputFree(p) \/ IputDec(p) PROVE FInv'
  BY <1>1, <1>4, IputFreeFInv, IputDecFInv
<1> QED
  BY <1>2, <1>3, <1>4 DEF Next

\* Two unlink() calls that wait for each other would need two directories that
\* name each other.
LEMMA NoCycle ==
  ASSUME FInv, ~panicked
  PROVE  NoLockCycle
<1> SUFFICES ASSUME NEW p \in Procs, NEW q \in Procs, pc[p] = "child", pc[q] = "child",
                    lock[op[p].ip] = q, lock[op[q].ip] = p
             PROVE  FALSE
  BY DEF NoLockCycle
<1> DEFINE d == op[p].at
           c == op[p].ip
<1>1. IInv /\ Holders /\ HoldsOK(p) /\ HoldsOK(q) /\ FsInv
  BY FInvIs
<1>2. d \in Inum /\ c \in Inum /\ op[q].at \in Inum /\ op[q].ip \in Inum
  BY <1>1, OpIs DEF OpAt
<1>3. Has(q, c) /\ Has(p, op[q].ip)
  BY <1>1, <1>2, FConstants DEF Holders, LocksHeld
<1>4. op[q].at = c /\ op[q].ip = d
  BY <1>3 DEF Has
<1>5. PICK n \in Names, m \in Names : ents[d][n] = c /\ ents[c][m] = d
  BY <1>1, <1>4 DEF HoldsOK
<1> HIDE DEF d, c
<1> QED
  BY <1>1, <1>2, <1>5 DEF FsInv, Tree, Entry

-----------------------------------------------------------------------------
\* The file system is consistent after every step of every process: links,
\* entries, the bitmap, the blocks of inodes and the copies in the table agree,
\* though create(), link(), unlink() and iput() change them one after the other
\* under the locks of single inodes (fs.c:189-440, sysfile.c:119-285).
THEOREM FileSystemConsistent == Spec => []FsConsistent
<1>1. FInv => FsConsistent
  <2> SUFFICES ASSUME FInv PROVE FsConsistent
    OBVIOUS
  <2>1. IInv /\ Domains /\ FsInv /\ Tables
    BY DEF FInv, IInv
  <2> QED
    BY <2>1, TypesHold, TreeNoDangling DEF FsInv, FsConsistent
<1>2. Spec => []FInv
  BY InitFInv, NextFInv, PTL DEF Spec
<1> QED
  BY <1>1, <1>2, PTL

\* No panic() of ilock(), iput(), bfree() or unlink() is reached and no two
\* unlink() wait for each other's inode (fs.c:95-100, 286-361, sysfile.c:185-285),
\* as long as no path uses "..": a removed directory that is open or current
\* keeps its "..", and what that names may be free by then, so that ilock() panics.
THEOREM NeverStopped == NoParentPaths => (Spec => []NoPanicNoDeadlock)
<1> SUFFICES ASSUME NoParentPaths PROVE Spec => []NoPanicNoDeadlock
  OBVIOUS
<1>1. FInv => NoPanicNoDeadlock
  BY NoCycle DEF FInv, NoPanicNoDeadlock, NoPanic
<1>2. Spec => []FInv
  BY InitFInv, NextFInv, PTL DEF Spec
<1> QED
  BY <1>1, <1>2, PTL
=============================================================================
