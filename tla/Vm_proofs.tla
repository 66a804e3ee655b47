------------------------------ MODULE Vm_proofs ------------------------------
(***************************************************************************)
(* Proofs about module Vm, for any number of processes and pages, any      *)
(* fan-out of page tables and any arguments of fork(), exec(), sbrk():     *)
(* no page of memory is lost or used twice, whatever kalloc() fails, and   *)
(* address spaces are what p->sz says.                                     *)
(*                                                                         *)
(* Two facts carry the proof.  Page tables are trees: some assignment of   *)
(* levels to pages puts every table one level below the entry that owns    *)
(* it, and no page is owned by two entries.  And every page has exactly    *)
(* one holder: the free list, an entry of a table, or one of the pointers  *)
(* of a process or a system call.                                          *)
(***************************************************************************)
EXTENDS Vm, FiniteSetTheorems, FunctionTheorems, WellFoundedInduction, TLAPS

-----------------------------------------------------------------------------
(***************************************************************************)
(* The inductive invariant.  Page tables are trees, every page of memory   *)
(* has exactly one holder, and what each process and each system call has  *)
(* depends on where it is.                                                 *)
(***************************************************************************)

\* The addresses that a page table covers.
Va == 0..TRAMPOLINE

\* Entries that own a page: it is freed with them.
Owns(e) == e.kind \in {"table", "user", "guard"}

\* An entry in table t, when pages are at the levels lev.
EntryOK(lev, t, e) ==
  /\ e.kind = "none" => e = Null
  /\ e.kind = "table" => lev[t] \in {1, 2} /\ e.pa \in Page /\ lev[e.pa] = lev[t] - 1
  /\ e.kind \in {"user", "guard"} => lev[t] = 0 /\ e.pa \in Page /\ lev[e.pa] = 3
  /\ e.kind = "kernel" => lev[t] = 0

\* Entry i of table t owns page u.
Points(t, i, u) == Owns(tab[t][i]) /\ tab[t][i].pa = u

\* lev gives a page the level of the page table that it is, and 3 to a page
\* that is none. Tables are above tables, pages of user memory are below the
\* lowest.
Levels(lev) ==
  /\ lev \in [Page -> 0..3]
  /\ \A t \in Page : lev[t] = 2 <=> t \in Images
  /\ \A t \in Page, i \in Idx : EntryOK(lev, t, tab[t][i])
  /\ \A u \in Page : lev[u] \in {0, 1} =>
       \E t \in Page, i \in Idx : tab[t][i].kind = "table" /\ tab[t][i].pa = u

\* A page is in one place.
Once == \A t, u \in Page, i, j \in Idx :
          Owns(tab[t][i]) /\ Points(u, j, tab[t][i].pa) => t = u /\ i = j

Trees == /\ tab \in [Page -> [Idx -> PTE]] /\ Images \subseteq Page
         /\ Once /\ \E lev : Levels(lev)

\* The pages that some entry owns, and the pages that are not in an image.
Owned == {u \in Page : \E t \in Page, i \in Idx : Points(t, i, u)}
Loose == Page \ (Owned \cup Images)

\* walk() ends at entry i of table t.
IsLeaf(pt, va, t, i) == Walk(pt, va) = [page |-> t, level |-> 0] /\ PX(0, va) = i

\* Labels in fork(), sbrk(), where a page is not mapped yet, and in exec().
ForkLabels == {"trapframe", "fork_root", "fork_tramp", "copy", "copy_map", "fork_bad"}
SbrkLabels == {"sbrk", "sbrk_map"}
MapLabels == {"copy_map", "sbrk_map", "seg_map", "stack_map"}
LoadLabels == {"load", "seg", "seg_map", "stack", "stack_map", "push"}
ExecLabels == {"args", "exec_root", "exec_tramp", "exec_bad"} \cup LoadLabels

\* Where call.pt is an image that no process has yet.
NewLabels == {"fork_tramp", "exec_tramp", "exec_bad"} \cup LoadLabels

\* The holders of page u: each page has exactly one.
Kinds == {"free", "owned", "trapframe", "argv", "mem", "root", "new"}
Holds(k, p, u) ==
  \/ k = "free" /\ p = None /\ u \in free
  \/ k = "owned" /\ p = None /\ u \in Owned
  \/ k = "trapframe" /\ p \in Proc /\ u = trapframe[p]
  \/ k = "argv" /\ p \in Proc /\ u \in call[p].args
  \/ k = "mem" /\ p \in Proc /\ u = call[p].mem
  \/ k = "root" /\ p \in Proc /\ u = pagetable[p]
  \/ k = "new" /\ p \in Proc /\ pc[p] \in NewLabels /\ u = call[p].pt

OneHolder ==
  \A u \in Page : \E k \in Kinds, p \in 0..NPROC :
    \A l \in Kinds, q \in 0..NPROC : Holds(l, q, u) <=> l = k /\ q = p

\* The image pt maps n pages of user memory, the trapframe tf and the trampoline.
ImageIs(pt, n, tf) ==
  /\ pt \in Page /\ tf \in Page /\ n \in Nat /\ n <= TRAPFRAME
  /\ \A va \in Va : Entry(pt, va) = Null <=> n <= va /\ va < TRAPFRAME
  /\ Entry(pt, TRAMPOLINE).kind = "kernel"
  /\ Entry(pt, TRAPFRAME) = [pa |-> tf, kind |-> "kernel"]
  /\ \A va \in Va : va < n => Entry(pt, va).kind \in {"user", "guard"}
  /\ \A va, vb \in Va : Entry(pt, va).kind = "guard" /\ Entry(pt, vb).kind = "guard" => va = vb

Empty(pt) == pt \in Page /\ \A va \in Va : Entry(pt, va) = Null
\* No page of the image is closed to the user.
NoGuard(pt) == \A va \in Va : Entry(pt, va).kind # "guard"

\* The types of the local variables.
CallRec == [np : 0..NPROC, pt : Page \cup {None}, size : Nat, args : SUBSET Page,
            segs : 0..MaxSegs, mem : Page \cup {None}, base : Nat, va : Nat, end : Nat]

\* The types of the other variables: no panic.
Typed ==
  /\ free \subseteq Page
  /\ state \in [Proc -> {"unused", "used", "live", "zombie"}]
  /\ pagetable \in [Proc -> Page \cup {None}]
  /\ trapframe \in [Proc -> Page \cup {None}]
  /\ sz \in [Proc -> 0..MaxSz]
  /\ pc \in [Proc -> Labels]
  /\ call \in [Proc -> CallRec]
  /\ panicked = FALSE

\* What a slot of the process table has in each state.
SlotOK(p) ==
  /\ state[p] = "unused" => pagetable[p] = None /\ trapframe[p] = None
  /\ state[p] \in {"unused", "used"} => sz[p] = 0
  /\ pc[p] # "user" => state[p] = "live"
  /\ state[p] = "used" => pagetable[p] = None \/ \E n \in Nat : ImageIs(pagetable[p], n, trapframe[p])
  /\ state[p] \in {"live", "zombie"} =>
       /\ trapframe[p] \in Page /\ pagetable[p] \in Page
       /\ pc[p] \notin SbrkLabels => ImageIs(pagetable[p], PGROUNDUP(sz[p]), trapframe[p])

\* The call c of p maps memory from base on, and has mapped it below va.
Mapping(c, label) ==
  /\ c.base <= c.va /\ c.va <= PGROUNDUP(c.end) /\ c.end <= MaxSz
  /\ label \in MapLabels => c.va * PGSIZE < c.end

\* What fork(), sbrk() and exec() have at each label.
ForkOK(p, c) ==
  LET np == c.np IN
  /\ np \in Proc /\ state[np] = "used"
  /\ \A q \in Proc : pc[q] \in ForkLabels /\ call[q].np = np => q = p
  /\ pc[p] \in {"trapframe", "fork_root", "fork_tramp"} =>
       /\ pagetable[np] = None /\ c.base = 0 /\ c.va = 0
       /\ pc[p] # "fork_tramp" => c.pt = None
  /\ pc[p] = "trapframe" => trapframe[np] = None
  /\ pc[p] \in {"fork_root", "fork_tramp"} => trapframe[np] \in Page
  /\ pc[p] = "fork_tramp" => Empty(c.pt)
  /\ pc[p] \in {"copy", "copy_map"} =>
       /\ c.pt = pagetable[np] /\ c.base = 0 /\ c.end = sz[p]
       /\ Mapping(c, pc[p])
       /\ ImageIs(c.pt, c.va, trapframe[np])
       /\ \A va \in Va : va < c.va => Entry(c.pt, va).kind = Entry(pagetable[p], va).kind
  /\ pc[p] = "fork_bad" =>
       /\ c.pt = pagetable[np]
       /\ c.pt # None => ImageIs(c.pt, 0, trapframe[np])

SbrkOK(p, c) ==
  /\ c.pt = pagetable[p] /\ c.base = PGROUNDUP(sz[p]) /\ sz[p] <= c.end
  /\ Mapping(c, pc[p])
  /\ ImageIs(c.pt, c.va, trapframe[p])

ExecOK(p, c) ==
  /\ pc[p] \in {"args", "exec_root"} => c.pt = None
  /\ pc[p] \in {"args", "exec_root", "exec_tramp"} => c.size = 0
  /\ pc[p] = "exec_tramp" => Empty(c.pt)
  /\ pc[p] = "load" => ImageIs(c.pt, PGROUNDUP(c.size), trapframe[p])
  /\ pc[p] \in {"load", "seg", "seg_map"} => c.size + 3 * PGSIZE <= MaxSz
  /\ pc[p] \in {"load", "seg", "seg_map", "stack", "stack_map"} => NoGuard(c.pt)
  /\ pc[p] \in {"seg", "seg_map", "stack", "stack_map"} =>
       /\ c.base = PGROUNDUP(c.size) /\ c.size <= c.end
       /\ Mapping(c, pc[p])
       /\ ImageIs(c.pt, c.va, trapframe[p])
  /\ pc[p] \in {"seg", "seg_map"} => c.end + 3 * PGSIZE <= MaxSz /\ c.segs < MaxSegs
  /\ pc[p] \in {"stack", "stack_map"} => PGROUNDUP(c.end) = c.base + 2
  /\ pc[p] = "push" => c.size <= MaxSz /\ ImageIs(c.pt, PGROUNDUP(c.size), trapframe[p])
  /\ pc[p] = "exec_bad" => c.pt = None \/ ImageIs(c.pt, PGROUNDUP(c.size), trapframe[p])

\* A call and its label.
CallOK(p) ==
  LET c == call[p] IN
  /\ pc[p] = "user" => c = NoCall
  /\ c.mem # None <=> pc[p] \in MapLabels
  /\ pc[p] \notin ExecLabels => c.args = {}
  /\ pc[p] \in ForkLabels => ForkOK(p, c)
  /\ pc[p] \in SbrkLabels => SbrkOK(p, c)
  /\ pc[p] \in ExecLabels => ExecOK(p, c)

IInv == /\ Typed /\ Trees /\ OneHolder
        /\ \A p \in Proc : SlotOK(p)
        /\ \A p \in Proc : CallOK(p)

-----------------------------------------------------------------------------
(***************************************************************************)
(* Arithmetic: addresses are three digits, and sizes are rounded up to     *)
(* pages.                                                                  *)
(***************************************************************************)

\* A set of naturals that is not empty has a least element.
LEMMA MinInSet ==
  ASSUME NEW S, S \subseteq Nat, S # {}
  PROVE  Min(S) \in S /\ \A y \in S : Min(S) <= y
  <1> DEFINE R == {ss \in Nat \X Nat : ss[1] < ss[2]}
  <1>1. IsWellFoundedOn(R, Nat)
    BY NatLessThanWellFounded, Zenon DEF OpToRel
  <1>2. PICK x \in S : \A y \in S : ~(<<y, x>> \in R)
    BY <1>1, WFMin, Zenon
  <1>3. \A y \in S : x <= y
    <2> TAKE y \in S
    <2>1. x \in Nat /\ y \in Nat
      OBVIOUS
    <2>2. ~(y < x)
      BY <1>2, <2>1
    <2> QED
      BY <2>1, <2>2
  <1> QED
    BY <1>3 DEF Min

\* What % gives, and that \div gives a natural number.
LEMMA DivMod ==
  ASSUME NEW s \in Nat, NEW b \in Nat, b > 0
  PROVE  /\ s % b \in 0..(b - 1)
         /\ \E q \in Nat : s = b * q + (s % b)
  <1>1. s % b \in 0..(b - 1)
    OBVIOUS
  <1>2. s \div b \in Int
    OBVIOUS
  <1>3. s = b * (s \div b) + (s % b)
    OBVIOUS
  <1>4. PICK q \in Int : q = s \div b
    BY <1>2
  <1>5. PICK x \in 0..(b - 1) : x = s % b
    BY <1>1
  <1>6. s = b * q + x
    BY <1>3, <1>4, <1>5
  <1>7. ASSUME q < 0 PROVE FALSE
    <2>1. PICK d \in Nat : q = -1 - d
      BY <1>7
    <2>2. b * q = -b - b * d /\ b * d \in Nat
      BY <2>1
    <2> QED
      BY <1>6, <2>2
  <1> QED
    BY <1>1, <1>5, <1>6, <1>7

\* Quotient and remainder are unique.
LEMMA Remainder ==
  ASSUME NEW b \in Nat, b > 0, NEW q \in Int, NEW u \in Int,
         NEW x \in 0..(b - 1), NEW y \in 0..(b - 1), b * q + x = b * u + y
  PROVE  x = y
  <1>1. b * (q - u) = y - x /\ b * (u - q) = x - y
    OBVIOUS
  <1>2. ASSUME q > u PROVE FALSE
    <2>1. PICK d \in Nat : q - u = d + 1
      BY <1>2
    <2>2. b * (d + 1) = b * d + b /\ b * d \in Nat
      OBVIOUS
    <2> QED
      BY <1>1, <2>1, <2>2
  <1>3. ASSUME u > q PROVE FALSE
    <2>1. PICK d \in Nat : u - q = d + 1
      BY <1>3
    <2>2. b * (d + 1) = b * d + b /\ b * d \in Nat
      OBVIOUS
    <2> QED
      BY <1>1, <2>1, <2>2
  <1> QED
    BY <1>1, <1>2, <1>3

\* What VmAssumption says of the constants.
LEMMA VmConstants ==
  /\ NPROC \in Nat /\ NPROC > 0 /\ PGSIZE \in Nat /\ PGSIZE > 0 /\ UINT \in Nat /\ UINT > 0
  /\ NPAGES \in Nat /\ NPAGES >= 7 /\ FANOUT \in Nat /\ FANOUT >= 2
  /\ Grow \subseteq Int /\ SegEnds \subseteq Nat /\ MaxSegs \in Nat /\ MaxArgs \in Nat
  /\ MaxSz \in Nat /\ MaxSz <= TRAPFRAME * PGSIZE
  /\ 3 * PGSIZE <= MaxSz /\ \A end \in SegEnds : end + 3 * PGSIZE <= MaxSz
  /\ \A n \in Grow : MaxSz + n < UINT /\ MaxSz - n < UINT
  /\ None \notin Page /\ None \notin Proc /\ Page \subseteq Nat
  BY VmAssumption DEF None, Page, Proc

\* A number below the cube of FANOUT is three digits.
Number(a, b, c) == (a * FANOUT + b) * FANOUT + c

\* Division with remainder.
LEMMA Division ==
  ASSUME NEW s \in Nat, NEW b \in Nat, b > 0
  PROVE  \E q \in Nat, x \in 0..(b - 1) : s = b * q + x
<1>1. PICK x \in 0..(b - 1) : x = s % b
  BY DivMod
<1>2. PICK q \in Nat : s = b * q + (s % b)
  BY DivMod
<1>3. s = b * q + x
  BY <1>1, <1>2
<1> QED
  BY <1>3

\* \div and % are that quotient and remainder.
LEMMA Quotient ==
  ASSUME NEW s \in Nat, NEW b \in Nat, b > 0, NEW q \in Nat, NEW x \in 0..(b - 1),
         s = b * q + x
  PROVE  s \div b = q /\ s % b = x
<1>1. PICK u \in Int : u = s \div b
  OBVIOUS
<1>2. PICK y \in 0..(b - 1) : y = s % b
  OBVIOUS
<1>3. s = b * u + y
  BY <1>1, <1>2
<1>4. x = y
  <2>1. q \in Int /\ b * q + x = b * u + y
    BY <1>3
  <2> QED
    BY <2>1, Remainder
<1>5. b * q = b * u
  BY <1>3, <1>4
<1>6. q = u
  BY <1>5
<1> QED
  BY <1>1, <1>2, <1>4, <1>6

\* The digits of a number are the indices that PX() takes from it.
LEMMA Digits ==
  ASSUME NEW a \in Idx, NEW b \in Idx, NEW c \in Idx
  PROVE  /\ Number(a, b, c) \in Va
         /\ PX(2, Number(a, b, c)) = a /\ PX(1, Number(a, b, c)) = b
         /\ PX(0, Number(a, b, c)) = c
<1> DEFINE F == FANOUT
<1>1. F \in Nat /\ F >= 2
  BY VmConstants
<1>2. /\ a \in Nat /\ a <= F - 1 /\ b \in Nat /\ b <= F - 1 /\ c \in Nat /\ c <= F - 1
  BY <1>1 DEF Idx
<1>3. PICK q \in Nat : q = a * F + b
  BY <1>1, <1>2
<1>4. PICK n \in Nat : n = q * F + c
  BY <1>1, <1>2
<1>5. Number(a, b, c) = n
  BY <1>3, <1>4 DEF Number
<1>6. n \div F = q /\ n % F = c
  <2>1. n = F * q + c /\ c \in 0..(F - 1)
    BY <1>1, <1>2, <1>4
  <2> QED
    BY <1>1, <2>1, Quotient
<1>7. q \div F = a /\ q % F = b
  <2>1. q = F * a + b /\ b \in 0..(F - 1)
    BY <1>1, <1>2, <1>3
  <2> QED
    BY <1>1, <1>2, <2>1, Quotient
<1>8. n \div (F * F) = a
  <2>1. PICK g \in Nat : g = F * F
    BY <1>1
  <2>2. PICK x \in Nat : x = F * b + c
    BY <1>1, <1>2
  <2>3. F * b <= F * (F - 1)
    BY <1>1, <1>2
  <2>4. F * (F - 1) = g - F
    BY <1>1, <2>1
  <2>5. x <= g - 1
    BY <1>1, <1>2, <2>2, <2>3, <2>4
  <2>6. q * F = a * (F * F) + F * b
    <3>1. (a * F + b) * F = a * F * F + b * F
      BY <1>1, <1>2
    <3> QED
      BY <1>1, <1>2, <1>3, <3>1
  <2>7. n = g * a + x
    BY <1>1, <1>2, <1>4, <2>1, <2>2, <2>6
  <2>8. x \in 0..(g - 1) /\ g > 0
    BY <2>1, <2>2, <2>5
  <2> QED
    BY <1>2, <2>1, <2>7, <2>8, Quotient
<1>9. n \div 1 = n
  OBVIOUS
<1>10. a % F = a
  BY <1>1, <1>2
<1>11. n <= F * F * F - 1
  <2>1. a * F <= (F - 1) * F
    BY <1>1, <1>2
  <2>2. (F - 1) * F = F * F - F
    BY <1>1
  <2>3. q <= F * F - 1
    BY <1>1, <1>2, <1>3, <2>1, <2>2
  <2>4. PICK g \in Nat : g = F * F
    BY <1>1
  <2>5. q * F <= (g - 1) * F
    BY <1>1, <2>3, <2>4
  <2>6. (g - 1) * F = g * F - F
    BY <1>1
  <2> QED
    BY <1>1, <1>2, <1>4, <2>4, <2>5, <2>6
<1>12. n \in Va
  BY <1>1, <1>11 DEF Va, TRAMPOLINE
<1> QED
  BY <1>5, <1>6, <1>7, <1>8, <1>9, <1>10, <1>12 DEF PX, PXSHIFT

\* Every address has three digits.
LEMMA DigitsOf ==
  ASSUME NEW va \in Va
  PROVE  \E a, b, c \in Idx : va = Number(a, b, c)
<1> DEFINE F == FANOUT
<1>1. F \in Nat /\ F >= 2 /\ F > 0
  BY VmConstants
<1>2. va \in Nat /\ va <= F * F * F - 1
  BY <1>1 DEF Va, TRAMPOLINE
<1>3. PICK q \in Nat, c \in 0..(F - 1) : va = F * q + c
  BY <1>1, <1>2, Division
<1>4. PICK a \in Nat, b \in 0..(F - 1) : q = F * a + b
  BY <1>1, <1>3, Division
<1>5. a <= F - 1
  <2> SUFFICES ASSUME a >= F PROVE FALSE
    BY <1>1
  <2>1. F * a >= F * F
    BY <1>1
  <2>2. q >= F * F
    BY <1>1, <1>4, <2>1
  <2>3. PICK g \in Nat : g = F * F
    BY <1>1
  <2>4. F * q >= F * g
    BY <1>1, <2>2, <2>3
  <2>5. F * g = F * F * F
    BY <1>1, <2>3
  <2> QED
    BY <1>1, <1>2, <1>3, <2>4, <2>5
<1>6. va = Number(a, b, c)
  BY <1>1, <1>3, <1>4 DEF Number
<1>7. a \in Idx /\ b \in Idx /\ c \in Idx
  BY <1>1, <1>3, <1>4, <1>5 DEF Idx
<1> QED
  BY <1>6, <1>7

\* An address is the indices it has in the three tables.
LEMMA PXIs ==
  /\ \A va \in Va : PX(2, va) \in Idx /\ PX(1, va) \in Idx /\ PX(0, va) \in Idx
  /\ \A va, vb \in Va : PX(2, va) = PX(2, vb) /\ PX(1, va) = PX(1, vb) /\ PX(0, va) = PX(0, vb)
                          => va = vb
  /\ \A a, b, c \in Idx : \E va \in Va : PX(2, va) = a /\ PX(1, va) = b /\ PX(0, va) = c
<1>1. ASSUME NEW va \in Va
      PROVE  \E a, b, c \in Idx : /\ va = Number(a, b, c)
                                  /\ PX(2, va) = a /\ PX(1, va) = b /\ PX(0, va) = c
  BY DigitsOf, Digits
<1>2. \A a, b, c \in Idx : \E va \in Va : PX(2, va) = a /\ PX(1, va) = b /\ PX(0, va) = c
  BY Digits
<1>3. ASSUME NEW va \in Va, NEW vb \in Va, PX(2, va) = PX(2, vb), PX(1, va) = PX(1, vb),
             PX(0, va) = PX(0, vb)
      PROVE  va = vb
  BY <1>1, <1>3
<1>4. \A va \in Va : PX(2, va) \in Idx /\ PX(1, va) \in Idx /\ PX(0, va) \in Idx
  BY <1>1
<1> QED
  BY <1>2, <1>3, <1>4

\* The two highest addresses and the lowest one.
LEMMA PXAt ==
  /\ TRAMPOLINE \in Va /\ TRAPFRAME \in Va /\ 0 \in Va /\ TRAPFRAME = TRAMPOLINE - 1
  /\ TRAPFRAME \in Nat /\ TRAPFRAME >= 6
  /\ PX(2, TRAMPOLINE) = FANOUT - 1 /\ PX(1, TRAMPOLINE) = FANOUT - 1
  /\ PX(0, TRAMPOLINE) = FANOUT - 1
  /\ PX(2, TRAPFRAME) = FANOUT - 1 /\ PX(1, TRAPFRAME) = FANOUT - 1
  /\ PX(0, TRAPFRAME) = FANOUT - 2
  /\ PX(2, 0) = 0 /\ PX(1, 0) = 0 /\ PX(0, 0) = 0
<1> DEFINE F == FANOUT
<1>1. F \in Nat /\ F >= 2
  BY VmConstants
<1>2. F - 1 \in Idx /\ F - 2 \in Idx /\ 0 \in Idx
  BY <1>1 DEF Idx
<1>3. PICK g \in Nat : g = F * F /\ g >= 4
  <2>1. F * F >= 2 * F
    BY <1>1
  <2> QED
    BY <1>1, <2>1
<1>4. PICK h \in Nat : h = g * F /\ h >= 8
  <2>1. g * F >= 4 * F
    BY <1>1, <1>3
  <2> QED
    BY <1>1, <1>3, <2>1
<1>5. TRAMPOLINE = h - 1 /\ TRAPFRAME = h - 2
  BY <1>1, <1>3, <1>4 DEF TRAMPOLINE, TRAPFRAME
<1>6. ((F - 1) * F + (F - 1)) * F = (g - 1) * F
  <2>1. (F - 1) * F + (F - 1) = g - 1
    BY <1>1, <1>3
  <2> QED
    BY <2>1
<1>7. (g - 1) * F = h - F
  BY <1>1, <1>3, <1>4
<1>8. Number(F - 1, F - 1, F - 1) = TRAMPOLINE /\ Number(F - 1, F - 1, F - 2) = TRAPFRAME
  BY <1>1, <1>4, <1>5, <1>6, <1>7 DEF Number
<1>9. Number(0, 0, 0) = 0
  BY <1>1 DEF Number
<1>10. TRAMPOLINE \in Va /\ TRAPFRAME \in Va /\ 0 \in Va
  BY <1>4, <1>5 DEF Va
<1>11. /\ PX(2, TRAMPOLINE) = F - 1 /\ PX(1, TRAMPOLINE) = F - 1 /\ PX(0, TRAMPOLINE) = F - 1
  BY <1>2, <1>8, Digits
<1>12. /\ PX(2, TRAPFRAME) = F - 1 /\ PX(1, TRAPFRAME) = F - 1 /\ PX(0, TRAPFRAME) = F - 2
  BY <1>2, <1>8, Digits
<1>13. PX(2, 0) = 0 /\ PX(1, 0) = 0 /\ PX(0, 0) = 0
  BY <1>2, <1>9, Digits
<1> QED
  BY <1>4, <1>5, <1>10, <1>11, <1>12, <1>13

\* Pages that n bytes reach into.
LEMMA RoundUp ==
  ASSUME NEW n \in Nat
  PROVE  /\ PGROUNDUP(n) \in Nat /\ PGROUNDUP(n) * PGSIZE >= n
         /\ \A k \in Nat : k * PGSIZE >= n => PGROUNDUP(n) <= k
         /\ \A k \in Nat : k < PGROUNDUP(n) => k * PGSIZE < n
<1> DEFINE s == n + PGSIZE - 1
<1>1. PGSIZE \in Nat /\ PGSIZE > 0 /\ s \in Nat
  BY VmConstants
<1>2. PICK q \in Nat, x \in 0..(PGSIZE - 1) : s = PGSIZE * q + x
  BY <1>1, Division
<1>3. PGROUNDUP(n) = q
  BY <1>1, <1>2, Quotient DEF PGROUNDUP
<1>4. q * PGSIZE = s - x
  BY <1>1, <1>2
<1>5. ASSUME NEW k \in Nat, k < q PROVE k * PGSIZE < n
  <2>1. k + 1 <= q
    BY <1>5
  <2>2. (k + 1) * PGSIZE <= q * PGSIZE
    BY <1>1, <2>1
  <2>3. (k + 1) * PGSIZE = k * PGSIZE + PGSIZE
    BY <1>1
  <2>4. k * PGSIZE \in Nat
    BY <1>1
  <2> QED
    BY <1>1, <1>4, <2>2, <2>3, <2>4
<1>6. q * PGSIZE >= n
  BY <1>1, <1>4
<1> QED
  BY <1>1, <1>3, <1>5, <1>6

-----------------------------------------------------------------------------
(***************************************************************************)
(* Trees: where walk() leads.                                              *)
(***************************************************************************)

\* An entry that is not there owns nothing.
LEMMA NullIs == Null \in PTE /\ Null.kind = "none" /\ ~Owns(Null)
  BY DEF Null, PTE, Owns

\* The types of entries.
LEMMA EntryIs ==
  ASSUME tab \in [Page -> [Idx -> PTE]], NEW t \in Page, NEW i \in Idx
  PROVE  /\ tab[t][i] \in PTE
         /\ tab[t][i].kind \in {"none", "table", "user", "guard", "kernel"}
         /\ tab[t] \in [Idx -> PTE]
<1>1. tab[t][i] \in PTE /\ tab[t] \in [Idx -> PTE]
  OBVIOUS
<1> QED
  BY <1>1 DEF PTE

\* walk() goes down the levels.
LEMMA WalkIs ==
  ASSUME Trees, NEW lev, Levels(lev), NEW pt \in Images, NEW va \in Va
  PROVE  LET w == Walk(pt, va)
             m == tab[pt][PX(2, va)].pa
         IN  /\ w = [page |-> w.page, level |-> w.level]
             /\ w.page \in Page /\ w.level \in {0, 1, 2} /\ lev[w.page] = w.level
             /\ w.level > 0 => tab[w.page][PX(w.level, va)] = Null /\ PX(w.level, va) \in Idx
             /\ w.level = 2 => w.page = pt
             /\ w.level = 1 => w.page = m /\ tab[pt][PX(2, va)].kind = "table" /\ m \in Page
             /\ w.level = 0 => /\ tab[pt][PX(2, va)].kind = "table" /\ m \in Page
                               /\ tab[m][PX(1, va)].kind = "table"
                               /\ w.page = tab[m][PX(1, va)].pa
<1> DEFINE e2 == tab[pt][PX(2, va)]
           e1 == tab[e2.pa][PX(1, va)]
<1>1. PX(2, va) \in Idx /\ PX(1, va) \in Idx /\ PX(0, va) \in Idx
  BY PXIs
<1>2. pt \in Page /\ lev[pt] = 2
  BY DEF Trees, Levels
<1>3. EntryOK(lev, pt, e2) /\ e2.kind \in {"none", "table", "user", "guard", "kernel"}
  BY <1>1, <1>2, EntryIs DEF Trees, Levels
<1>4. CASE e2 = Null
  <2>1. Walk(pt, va) = [page |-> pt, level |-> 2]
    BY <1>4 DEF Walk
  <2> QED
    BY <1>1, <1>2, <1>4, <2>1
<1>5. CASE e2 # Null
  <2>1. e2.kind = "table" /\ e2.pa \in Page /\ lev[e2.pa] = 1
    BY <1>2, <1>3, <1>5 DEF EntryOK
  <2>2. EntryOK(lev, e2.pa, e1) /\ e1.kind \in {"none", "table", "user", "guard", "kernel"}
    BY <1>1, <2>1, EntryIs DEF Trees, Levels
  <2>3. CASE e1 = Null
    <3>1. Walk(pt, va) = [page |-> e2.pa, level |-> 1]
      BY <1>5, <2>3 DEF Walk
    <3> QED
      BY <1>1, <2>1, <2>3, <3>1
  <2>4. CASE e1 # Null
    <3>1. e1.kind = "table" /\ e1.pa \in Page /\ lev[e1.pa] = 0
      BY <2>1, <2>2, <2>4 DEF EntryOK
    <3>2. Walk(pt, va) = [page |-> e1.pa, level |-> 0]
      BY <1>5, <2>4 DEF Walk
    <3> QED
      BY <2>1, <3>1, <3>2
  <2> QED
    BY <2>3, <2>4
<1> QED
  BY <1>4, <1>5

\* The converse: where the tables lead.
LEMMA WalkTo ==
  ASSUME Trees, NEW lev, Levels(lev), NEW pt \in Images, NEW va \in Va, NEW m \in Page,
         tab[pt][PX(2, va)].kind = "table", tab[pt][PX(2, va)].pa = m,
         tab[m][PX(1, va)].kind = "table"
  PROVE  Walk(pt, va) = [page |-> tab[m][PX(1, va)].pa, level |-> 0]
<1>1. tab[pt][PX(2, va)] # Null /\ tab[m][PX(1, va)] # Null
  BY NullIs
<1> QED
  BY <1>1 DEF Walk

\* What walk() finds at an address is an entry, of a page or of nothing.
LEMMA EntryAt ==
  ASSUME Trees, NEW pt \in Images, NEW va \in Va
  PROVE  /\ Walk(pt, va).level \in {0, 1, 2} /\ Walk(pt, va).page \in Page
         /\ Entry(pt, va) = IF Walk(pt, va).level = 0 THEN tab[Walk(pt, va).page][PX(0, va)]
                                                      ELSE Null
         /\ Entry(pt, va) \in PTE
         /\ Entry(pt, va).kind \in {"none", "table", "user", "guard", "kernel"}
         /\ Entry(pt, va).kind # "table"
         /\ Entry(pt, va).kind = "none" <=> Entry(pt, va) = Null
         /\ Owns(Entry(pt, va)) => Entry(pt, va).pa \in Page
<1>1. PICK lev : Levels(lev)
  BY DEF Trees
<1>2. /\ Walk(pt, va).level \in {0, 1, 2} /\ Walk(pt, va).page \in Page
      /\ lev[Walk(pt, va).page] = Walk(pt, va).level
  BY <1>1, WalkIs
<1>3. Entry(pt, va) = IF Walk(pt, va).level = 0 THEN tab[Walk(pt, va).page][PX(0, va)]
                                                ELSE Null
  BY <1>2 DEF Entry
<1>4. CASE Walk(pt, va).level = 0
  <2>1. PICK t \in Page, i \in Idx : t = Walk(pt, va).page /\ i = PX(0, va)
    BY <1>2, PXIs
  <2>2. Entry(pt, va) = tab[t][i] /\ lev[t] = 0
    BY <1>2, <1>3, <1>4, <2>1
  <2>3. EntryOK(lev, t, tab[t][i])
    BY <1>1 DEF Levels
  <2>4. tab[t][i] \in PTE /\ tab[t][i].kind \in {"none", "table", "user", "guard", "kernel"}
    BY EntryIs DEF Trees
  <2> QED
    BY <1>2, <1>3, <2>2, <2>3, <2>4, NullIs DEF EntryOK, Owns
<1>5. CASE Walk(pt, va).level # 0
  <2>1. Entry(pt, va) = Null
    BY <1>3, <1>5
  <2> QED
    BY <1>2, <1>3, <2>1, NullIs
<1> QED
  BY <1>4, <1>5

\* Two addresses share a lowest table only in one image, with the same tables.
LEMMA PathInjective ==
  ASSUME Trees, NEW pt \in Images, NEW qt \in Images, NEW va \in Va, NEW vb \in Va,
         Walk(pt, va).level = 0, Walk(qt, vb).level = 0,
         Walk(pt, va).page = Walk(qt, vb).page
  PROVE  /\ pt = qt /\ PX(2, va) = PX(2, vb) /\ PX(1, va) = PX(1, vb)
         /\ PX(0, va) = PX(0, vb) => va = vb
<1>1. PICK lev : Levels(lev)
  BY DEF Trees
<1> DEFINE m == tab[pt][PX(2, va)].pa
           k == tab[qt][PX(2, vb)].pa
<1>2. /\ tab[pt][PX(2, va)].kind = "table" /\ m \in Page
      /\ tab[m][PX(1, va)].kind = "table" /\ Walk(pt, va).page = tab[m][PX(1, va)].pa
  BY <1>1, WalkIs
<1>3. /\ tab[qt][PX(2, vb)].kind = "table" /\ k \in Page
      /\ tab[k][PX(1, vb)].kind = "table" /\ Walk(qt, vb).page = tab[k][PX(1, vb)].pa
  BY <1>1, WalkIs
<1>4. /\ PX(2, va) \in Idx /\ PX(1, va) \in Idx /\ PX(2, vb) \in Idx /\ PX(1, vb) \in Idx
      /\ pt \in Page /\ qt \in Page
  BY PXIs DEF Trees
<1> HIDE DEF m, k
<1>5. Owns(tab[m][PX(1, va)]) /\ Points(k, PX(1, vb), tab[m][PX(1, va)].pa)
  BY <1>2, <1>3 DEF Owns, Points
<1>6. m = k /\ PX(1, va) = PX(1, vb)
  BY <1>2, <1>3, <1>4, <1>5 DEF Trees, Once
<1>7. Owns(tab[pt][PX(2, va)]) /\ Points(qt, PX(2, vb), tab[pt][PX(2, va)].pa)
  BY <1>2, <1>3, <1>6 DEF Owns, Points, m, k
<1>8. pt = qt /\ PX(2, va) = PX(2, vb)
  BY <1>4, <1>7 DEF Trees, Once
<1> QED
  BY <1>6, <1>8, PXIs

\* An entry of a lowest table is the entry of an address.
LEMMA LeafSeen ==
  ASSUME Trees, NEW lev, Levels(lev), NEW t \in Page, NEW i \in Idx, lev[t] = 0
  PROVE  \E pt \in Images, va \in Va : IsLeaf(pt, va, t, i) /\ Entry(pt, va) = tab[t][i]
<1>1. PICK m \in Page, b \in Idx : tab[m][b].kind = "table" /\ tab[m][b].pa = t
  BY DEF Levels
<1>2. lev[m] = 1
  BY <1>1 DEF Levels, EntryOK
<1>3. PICK pt \in Page, a \in Idx : tab[pt][a].kind = "table" /\ tab[pt][a].pa = m
  BY <1>2 DEF Levels
<1>4. lev[pt] = 2
  BY <1>2, <1>3 DEF Levels, EntryOK
<1>5. pt \in Images
  BY <1>4 DEF Levels
<1>6. PICK va \in Va : PX(2, va) = a /\ PX(1, va) = b /\ PX(0, va) = i
  BY PXIs
<1>7. Walk(pt, va) = [page |-> t, level |-> 0]
  BY <1>1, <1>3, <1>5, <1>6, WalkTo
<1>8. Entry(pt, va) = tab[t][i]
  BY <1>6, <1>7 DEF Entry
<1> QED
  BY <1>5, <1>6, <1>7, <1>8 DEF IsLeaf

\* A loose page is not a table, and nothing is in it.
LEMMA LooseIs ==
  ASSUME Trees, NEW lev, Levels(lev), NEW u \in Loose
  PROVE  u \in Page /\ lev[u] = 3 /\ \A i \in Idx : tab[u][i] = Null
<1>1. u \in Page /\ u \notin Images /\ u \notin Owned
  BY DEF Loose
<1>2. lev[u] \in 0..3 /\ lev[u] # 2
  BY <1>1 DEF Levels
<1>3. lev[u] \notin {0, 1}
  <2> SUFFICES ASSUME lev[u] \in {0, 1} PROVE FALSE
    OBVIOUS
  <2>1. PICK t \in Page, i \in Idx : tab[t][i].kind = "table" /\ tab[t][i].pa = u
    BY <1>1 DEF Levels
  <2> QED
    BY <1>1, <2>1 DEF Owned, Points, Owns
<1>4. lev[u] = 3
  BY <1>2, <1>3
<1>5. ASSUME NEW i \in Idx PROVE tab[u][i] = Null
  <2>1. EntryOK(lev, u, tab[u][i]) /\ tab[u][i].kind \in {"none", "table", "user", "guard", "kernel"}
    BY <1>1, EntryIs DEF Trees, Levels
  <2> QED
    BY <1>4, <2>1 DEF EntryOK
<1> QED
  BY <1>1, <1>4, <1>5

-----------------------------------------------------------------------------
(***************************************************************************)
(* What changes of tables do to what is mapped.                            *)
(***************************************************************************)

\* The entries of image pt at the addresses in S become f.
LeavesSet(pt, S, f) ==
  /\ tab' \in [Page -> [Idx -> PTE]]
  /\ \A va \in S : Walk(pt, va).level = 0 =>
                     tab'[Walk(pt, va).page][PX(0, va)] = f[va]
  /\ \A t \in Page, i \in Idx : (\A va \in S : ~IsLeaf(pt, va, t, i)) =>
                                  tab'[t][i] = tab[t][i]

\* An entry that may stand at va: its page was there, or nowhere.
Fits(pt, va, e) ==
  /\ e.kind \in {"none", "user", "guard", "kernel"} /\ (e.kind = "none" => e = Null)
  /\ Owns(e) => e.pa \in Loose \/ (Owns(Entry(pt, va)) /\ e.pa = Entry(pt, va).pa)

\* An entry is set, or it stays.
LEMMA LeavesCases ==
  ASSUME Trees, NEW pt \in Images, NEW S, S \subseteq Va, NEW f, LeavesSet(pt, S, f),
         NEW t \in Page, NEW i \in Idx
  PROVE  \/ \E va \in S : /\ IsLeaf(pt, va, t, i) /\ tab'[t][i] = f[va]
                          /\ tab[t][i] = Entry(pt, va)
         \/ (\A va \in S : ~IsLeaf(pt, va, t, i)) /\ tab'[t][i] = tab[t][i]
<1>1. ASSUME NEW va \in S, IsLeaf(pt, va, t, i)
      PROVE  tab'[t][i] = f[va] /\ tab[t][i] = Entry(pt, va)
  BY <1>1, EntryAt DEF IsLeaf, LeavesSet
<1> QED
  BY <1>1 DEF LeavesSet

\* When leaves change, walk() goes the same way and sees the new entries.
LEMMA LeavesSeen ==
  ASSUME Trees, NEW pt \in Images, NEW S, S \subseteq Va, NEW f, LeavesSet(pt, S, f),
         NEW qt \in Images, NEW vb \in Va
  PROVE  /\ Walk(qt, vb)' = Walk(qt, vb)
         /\ Entry(qt, vb)' = IF qt = pt /\ vb \in S /\ Walk(pt, vb).level = 0
                             THEN f[vb] ELSE Entry(qt, vb)
<1>1. PICK lev : Levels(lev)
  BY DEF Trees
<1>2. ASSUME NEW t \in Page, NEW i \in Idx, lev[t] # 0 PROVE tab'[t][i] = tab[t][i]
  <2>1. ASSUME NEW va \in S PROVE ~IsLeaf(pt, va, t, i)
    <3>1. va \in Va
      OBVIOUS
    <3>2. lev[Walk(pt, va).page] = Walk(pt, va).level
      BY <1>1, <3>1, WalkIs
    <3> QED
      BY <1>2, <3>2 DEF IsLeaf
  <2> QED
    BY <2>1 DEF LeavesSet
<1> DEFINE e2 == tab[qt][PX(2, vb)]
<1>3. /\ PX(2, vb) \in Idx /\ PX(1, vb) \in Idx /\ PX(0, vb) \in Idx
      /\ qt \in Page /\ lev[qt] = 2
  BY <1>1, PXIs DEF Trees, Levels
<1>4. tab'[qt][PX(2, vb)] = e2
  BY <1>2, <1>3
<1>5. e2 = Null \/ tab'[e2.pa][PX(1, vb)] = tab[e2.pa][PX(1, vb)]
  <2>1. EntryOK(lev, qt, e2) /\ e2.kind \in {"none", "table", "user", "guard", "kernel"}
    BY <1>1, <1>3, EntryIs DEF Levels, Trees
  <2>2. e2 # Null => e2.pa \in Page /\ lev[e2.pa] # 0
    BY <1>3, <2>1 DEF EntryOK
  <2> QED
    BY <1>2, <1>3, <2>2
<1>6. Walk(qt, vb)' = Walk(qt, vb)
  BY <1>4, <1>5 DEF Walk
<1>7. Walk(qt, vb).level \in {0, 1, 2} /\ Walk(qt, vb).page \in Page
  BY EntryAt
<1>8. Entry(qt, vb)' = IF Walk(qt, vb).level = 0 THEN tab'[Walk(qt, vb).page][PX(0, vb)]
                                                 ELSE Null
  BY <1>6, <1>7 DEF Entry
<1>9. CASE Walk(qt, vb).level # 0
  BY <1>6, <1>8, <1>9, EntryAt
<1>10. CASE Walk(qt, vb).level = 0
  <2>1. PICK t \in Page, i \in Idx : t = Walk(qt, vb).page /\ i = PX(0, vb)
    BY <1>3, <1>7
  <2>2. Entry(qt, vb) = tab[t][i] /\ Entry(qt, vb)' = tab'[t][i]
    BY <1>8, <1>10, <2>1, EntryAt
  <2>3. CASE \E va \in S : /\ IsLeaf(pt, va, t, i) /\ tab'[t][i] = f[va]
    <3>1. PICK va \in S : IsLeaf(pt, va, t, i) /\ tab'[t][i] = f[va]
      BY <2>3
    <3>2. va \in Va /\ Walk(pt, va).level = 0 /\ Walk(pt, va).page = Walk(qt, vb).page
          /\ PX(0, va) = PX(0, vb)
      BY <2>1, <3>1 DEF IsLeaf
    <3>3. pt = qt /\ va = vb
      BY <1>10, <3>2, PathInjective
    <3> QED
      BY <1>6, <2>2, <3>1, <3>2, <3>3
  <2>4. CASE (\A va \in S : ~IsLeaf(pt, va, t, i)) /\ tab'[t][i] = tab[t][i]
    <3>1. ~(qt = pt /\ vb \in S)
      <4> SUFFICES ASSUME qt = pt, vb \in S PROVE FALSE
        OBVIOUS
      <4>1. PICK lv : Levels(lv)
        BY <1>1
      <4>2. Walk(qt, vb) = [page |-> t, level |-> 0]
        BY <1>1, <1>10, <2>1, WalkIs
      <4> QED
        BY <2>1, <2>4, <4>2 DEF IsLeaf
    <3> QED
      BY <1>6, <2>2, <2>4, <3>1
  <2> QED
    BY <2>3, <2>4, LeavesCases
<1> QED
  BY <1>9, <1>10

\* When the new entries fit, the trees stay trees.
LEMMA LeavesTrees ==
  ASSUME Trees, NEW pt \in Images, NEW S, S \subseteq Va, NEW f, LeavesSet(pt, S, f),
         Images' = Images, \A va \in S : Fits(pt, va, f[va]),
         \A va, vb \in S : Owns(f[va]) /\ Owns(f[vb]) /\ f[va].pa = f[vb].pa => va = vb
  PROVE  /\ Trees'
         /\ \A u \in Page : u \in Owned' <=>
              \/ /\ u \in Owned
                 /\ \A va \in S : ~(Owns(Entry(pt, va)) /\ Entry(pt, va).pa = u)
              \/ \E va \in S : Walk(pt, va).level = 0 /\ Owns(f[va]) /\ f[va].pa = u
<1>1. PICK lev : Levels(lev)
  BY DEF Trees
<1>2. ASSUME NEW t \in Page, NEW i \in Idx, NEW va \in S, IsLeaf(pt, va, t, i)
      PROVE  /\ va \in Va /\ lev[t] = 0 /\ tab[t][i] = Entry(pt, va) /\ Walk(pt, va).level = 0
             /\ tab'[t][i] = f[va] /\ EntryOK(lev, t, f[va])
  <2>1. va \in Va
    OBVIOUS
  <2>2. lev[t] = 0 /\ Walk(pt, va).level = 0
    BY <1>1, <1>2, <2>1, WalkIs DEF IsLeaf
  <2>3. tab[t][i] = Entry(pt, va) /\ tab'[t][i] = f[va]
    BY <1>2, <2>1, <2>2, EntryAt DEF IsLeaf, LeavesSet
  <2>4. EntryOK(lev, t, tab[t][i]) /\ tab[t][i].kind # "table"
    BY <1>1, <2>1, <2>3, EntryAt DEF Levels
  <2>5. Owns(f[va]) => f[va].pa \in Page /\ lev[f[va].pa] = 3
    <3>1. CASE f[va].pa \in Loose
      BY <1>1, <3>1, LooseIs
    <3>2. CASE Owns(tab[t][i]) /\ f[va].pa = tab[t][i].pa
      BY <2>4, <3>2 DEF EntryOK, Owns
    <3> QED
      BY <2>3, <3>1, <3>2 DEF Fits
  <2>6. EntryOK(lev, t, f[va])
    BY <2>2, <2>5 DEF Fits, EntryOK, Owns
  <2> QED
    BY <2>1, <2>2, <2>3, <2>6
<1>3. ASSUME NEW t \in Page, NEW i \in Idx PROVE EntryOK(lev, t, tab'[t][i])
  <2>1. EntryOK(lev, t, tab[t][i])
    BY <1>1 DEF Levels
  <2> QED
    BY <1>2, <2>1, LeavesCases
<1>4. \A t \in Page, i \in Idx : tab[t][i].kind = "table" => tab'[t][i] = tab[t][i]
  <2> SUFFICES ASSUME NEW t \in Page, NEW i \in Idx, tab[t][i].kind = "table"
               PROVE  tab'[t][i] = tab[t][i]
    OBVIOUS
  <2>1. lev[t] # 0
    BY <1>1 DEF Levels, EntryOK
  <2> QED
    BY <1>2, <2>1, LeavesCases
<1>5. Levels(lev)'
  <2>1. lev \in [Page -> 0..3] /\ \A t \in Page : lev[t] = 2 <=> t \in Images'
    BY <1>1 DEF Levels
  <2>2. \A u \in Page : lev[u] \in {0, 1} =>
          \E t \in Page, i \in Idx : tab'[t][i].kind = "table" /\ tab'[t][i].pa = u
    BY <1>1, <1>4 DEF Levels
  <2> QED
    BY <1>3, <2>1, <2>2 DEF Levels, EntryOK
<1>6. ASSUME NEW t \in Page, NEW u \in Page, NEW i \in Idx, NEW j \in Idx,
             Owns(tab'[t][i]), Owns(tab'[u][j]), tab'[t][i].pa = tab'[u][j].pa,
             NEW va \in S, IsLeaf(pt, va, t, i), \A vb \in S : ~IsLeaf(pt, vb, u, j),
             tab'[u][j] = tab[u][j]
      PROVE  FALSE
  <2>1. tab'[t][i] = f[va] /\ tab[t][i] = Entry(pt, va)
    BY <1>2, <1>6
  <2>2. Fits(pt, va, f[va])
    OBVIOUS
  <2>3. tab[u][j].pa \in Owned
    <3>1. tab[u][j].pa \in Page
      BY <1>1, <1>6 DEF Levels, EntryOK, Owns
    <3> QED
      BY <1>6, <3>1 DEF Owned, Points
  <2>4. f[va].pa \notin Loose
    BY <1>6, <2>1, <2>3 DEF Loose
  <2>5. Owns(tab[t][i]) /\ tab[t][i].pa = tab[u][j].pa
    BY <1>6, <2>1, <2>2, <2>4 DEF Fits
  <2>6. t = u /\ i = j
    BY <1>6, <2>5 DEF Trees, Once, Points
  <2> QED
    BY <1>6, <2>6
<1>7. ASSUME NEW t \in Page, NEW u \in Page, NEW i \in Idx, NEW j \in Idx,
             Owns(tab'[t][i]), Owns(tab'[u][j]), tab'[t][i].pa = tab'[u][j].pa
      PROVE  t = u /\ i = j
  <2>1. CASE \E va \in S : IsLeaf(pt, va, t, i)
    <3>1. PICK va \in S : IsLeaf(pt, va, t, i)
      BY <2>1
    <3>2. CASE \E vb \in S : IsLeaf(pt, vb, u, j)
      <4>1. PICK vb \in S : IsLeaf(pt, vb, u, j)
        BY <3>2
      <4>2. tab'[t][i] = f[va] /\ tab'[u][j] = f[vb]
        BY <1>2, <3>1, <4>1
      <4>3. va = vb
        BY <1>7, <4>2
      <4> QED
        BY <3>1, <4>1, <4>3 DEF IsLeaf
    <3>3. CASE \A vb \in S : ~IsLeaf(pt, vb, u, j)
      <4>1. tab'[u][j] = tab[u][j]
        BY <3>3 DEF LeavesSet
      <4> QED
        BY <1>6, <1>7, <3>1, <3>3, <4>1
    <3> QED
      BY <3>2, <3>3
  <2>2. CASE \A va \in S : ~IsLeaf(pt, va, t, i)
    <3>1. tab'[t][i] = tab[t][i]
      BY <2>2 DEF LeavesSet
    <3>2. CASE \E vb \in S : IsLeaf(pt, vb, u, j)
      <4>1. PICK vb \in S : IsLeaf(pt, vb, u, j)
        BY <3>2
      <4> QED
        BY <1>6, <1>7, <2>2, <3>1, <4>1
    <3>3. CASE \A vb \in S : ~IsLeaf(pt, vb, u, j)
      <4>1. tab'[u][j] = tab[u][j]
        BY <3>3 DEF LeavesSet
      <4> QED
        BY <1>7, <3>1, <4>1 DEF Trees, Once, Points
    <3> QED
      BY <3>2, <3>3
  <2> QED
    BY <2>1, <2>2
<1>8. Trees'
  <2>1. Once'
    BY <1>7 DEF Once, Points
  <2>2. tab' \in [Page -> [Idx -> PTE]] /\ Images' \subseteq Page
    BY DEF LeavesSet, Trees
  <2> QED
    BY <1>5, <2>1, <2>2 DEF Trees
<1>9. ASSUME NEW u \in Page, u \in Owned',
             ~\E va \in S : Walk(pt, va).level = 0 /\ Owns(f[va]) /\ f[va].pa = u
      PROVE  u \in Owned /\ \A va \in S : ~(Owns(Entry(pt, va)) /\ Entry(pt, va).pa = u)
  <2>1. PICK t \in Page, i \in Idx : Owns(tab'[t][i]) /\ tab'[t][i].pa = u
    BY <1>9 DEF Owned, Points
  <2>2. (\A va \in S : ~IsLeaf(pt, va, t, i)) /\ tab'[t][i] = tab[t][i]
    BY <1>2, <1>9, <2>1, LeavesCases
  <2>3. u \in Owned
    BY <2>1, <2>2 DEF Owned, Points
  <2>4. ASSUME NEW va \in S, Owns(Entry(pt, va)), Entry(pt, va).pa = u PROVE FALSE
    <3>1. va \in Va
      OBVIOUS
    <3>2. Walk(pt, va).level = 0
      BY <2>4, <3>1, EntryAt, NullIs
    <3>3. PICK x \in Page, j \in Idx : x = Walk(pt, va).page /\ j = PX(0, va)
      BY <3>1, EntryAt, PXIs
    <3>4. tab[x][j] = Entry(pt, va)
      BY <3>1, <3>2, <3>3, EntryAt
    <3>5. x = t /\ j = i
      BY <2>1, <2>2, <2>4, <3>4 DEF Trees, Once, Points
    <3>6. Walk(pt, va) = [page |-> t, level |-> 0]
      <4>1. Walk(pt, va) = [page |-> Walk(pt, va).page, level |-> Walk(pt, va).level]
        BY <1>1, <3>1, WalkIs
      <4> QED
        BY <3>2, <3>3, <3>5, <4>1
    <3> QED
      BY <2>2, <3>3, <3>5, <3>6 DEF IsLeaf
  <2> QED
    BY <2>3, <2>4
<1>10. ASSUME NEW u \in Page, u \in Owned,
              \A va \in S : ~(Owns(Entry(pt, va)) /\ Entry(pt, va).pa = u)
       PROVE  u \in Owned'
  <2>1. PICK t \in Page, i \in Idx : Owns(tab[t][i]) /\ tab[t][i].pa = u
    BY <1>10 DEF Owned, Points
  <2>2. \A va \in S : ~IsLeaf(pt, va, t, i)
    BY <1>2, <1>10, <2>1
  <2>3. tab'[t][i] = tab[t][i]
    BY <2>2 DEF LeavesSet
  <2> QED
    BY <2>1, <2>3 DEF Owned, Points
<1>11. ASSUME NEW u \in Page, NEW va \in S, Walk(pt, va).level = 0, Owns(f[va]), f[va].pa = u
       PROVE  u \in Owned'
  <2>1. va \in Va
    OBVIOUS
  <2>2. PICK t \in Page, i \in Idx : t = Walk(pt, va).page /\ i = PX(0, va)
    BY <2>1, EntryAt, PXIs
  <2>3. tab'[t][i] = f[va]
    BY <1>11, <2>2 DEF LeavesSet
  <2> QED
    BY <1>11, <2>3 DEF Owned, Points
<1> QED
  BY <1>8, <1>9, <1>10, <1>11

\* A new table, where walk() misses one: nothing more is mapped.
LEMMA TableAdded ==
  ASSUME Trees, NEW pt \in Images, NEW va \in Va, Walk(pt, va).level > 0,
         NEW page \in Loose, tab' = AddTable(pt, va, page), Images' = Images
  PROVE  /\ Trees' /\ \A u \in Page : u \in Owned' <=> u \in Owned \/ u = page
         /\ \A qt \in Images, vb \in Va : Entry(qt, vb)' = Entry(qt, vb)
<1>1. PICK lev : Levels(lev)
  BY DEF Trees
<1>2. PICK x \in Page, k \in {1, 2}, j \in Idx :
        /\ x = Walk(pt, va).page /\ k = Walk(pt, va).level /\ j = PX(k, va)
        /\ lev[x] = k /\ tab[x][j] = Null
  BY <1>1, WalkIs
<1>3. page \in Page /\ lev[page] = 3 /\ (\A i \in Idx : tab[page][i] = Null) /\ page # x
  BY <1>1, <1>2, LooseIs
<1> DEFINE e == [pa |-> page, kind |-> "table"]
<1>4. tab' = [tab EXCEPT ![x][j] = e, ![page] = NoEntries]
  BY <1>2 DEF AddTable
<1>5. e \in PTE /\ NoEntries \in [Idx -> PTE] /\ Owns(e)
  BY <1>3, NullIs DEF PTE, NoEntries, Owns
<1> HIDE DEF e
<1>6. /\ tab' \in [Page -> [Idx -> PTE]] /\ tab'[x][j] = e
      /\ \A t \in Page, i \in Idx : t # x \/ i # j => tab'[t][i] = tab[t][i]
  <2>1. tab \in [Page -> [Idx -> PTE]]
    BY DEF Trees
  <2>2. tab' \in [Page -> [Idx -> PTE]]
    <3>1. PICK r \in [Idx -> PTE] : r = [tab[x] EXCEPT ![j] = e]
      BY <1>5, <2>1
    <3>2. tab' = [[tab EXCEPT ![x] = r] EXCEPT ![page] = NoEntries]
      BY <1>4, <3>1
    <3> QED
      BY <1>5, <2>1, <3>2
  <2>3. tab'[x][j] = e
    BY <1>3, <1>4, <2>1
  <2>4. ASSUME NEW t \in Page, NEW i \in Idx, t # x \/ i # j PROVE tab'[t][i] = tab[t][i]
    <3>1. CASE t = page
      <4>1. tab'[page] = NoEntries
        BY <1>3, <1>4, <2>1
      <4> QED
        BY <1>3, <3>1, <4>1 DEF NoEntries
    <3>2. CASE t # page
      BY <1>4, <2>1, <2>4, <3>2
    <3> QED
      BY <3>1, <3>2
  <2> QED
    BY <2>2, <2>3, <2>4
<1>7. \A t \in Page, i \in Idx : Points(t, i, page)' <=> t = x /\ i = j
  <2> SUFFICES ASSUME NEW t \in Page, NEW i \in Idx PROVE Points(t, i, page)' <=> t = x /\ i = j
    OBVIOUS
  <2>1. ~Points(t, i, page)
    BY <1>3 DEF Loose, Owned
  <2>2. e.pa = page
    BY DEF e
  <2> QED
    BY <1>5, <1>6, <2>1, <2>2 DEF Points
<1> DEFINE lv == [lev EXCEPT ![page] = k - 1]
<1>8. /\ lv \in [Page -> 0..3] /\ lv[page] = k - 1
      /\ \A t \in Page : t # page => lv[t] = lev[t]
  <2>1. lev \in [Page -> 0..3] /\ k - 1 \in 0..3
    BY <1>1 DEF Levels
  <2> QED
    BY <1>3, <2>1
<1> HIDE DEF lv
<1>9. ASSUME NEW t \in Page, NEW i \in Idx PROVE EntryOK(lv, t, tab'[t][i])
  <2>1. CASE t = x /\ i = j
    <3>1. lv[x] = k
      BY <1>2, <1>3, <1>8
    <3> QED
      BY <1>2, <1>3, <1>6, <1>8, <2>1, <3>1 DEF EntryOK, e
  <2>2. CASE t = page
    BY <1>3, <1>6, <2>2, NullIs DEF EntryOK
  <2>3. CASE t # page /\ ~(t = x /\ i = j)
    <3>1. tab'[t][i] = tab[t][i] /\ EntryOK(lev, t, tab[t][i]) /\ lv[t] = lev[t]
      BY <1>1, <1>6, <1>8, <2>3 DEF Levels
    <3>2. Owns(tab[t][i]) => tab[t][i].pa # page
      BY <1>7, <1>6, <2>3, <3>1 DEF Points
    <3> QED
      BY <1>8, <3>1, <3>2 DEF EntryOK, Owns
  <2> QED
    BY <2>1, <2>2, <2>3
<1>10. Levels(lv)'
  <2>1. \A t \in Page : lv[t] = 2 <=> t \in Images'
    BY <1>1, <1>2, <1>3, <1>8 DEF Levels, Loose
  <2>2. ASSUME NEW u \in Page, lv[u] \in {0, 1}
        PROVE  \E t \in Page, i \in Idx : tab'[t][i].kind = "table" /\ tab'[t][i].pa = u
    <3>1. CASE u = page
      BY <1>2, <1>6, <3>1 DEF e
    <3>2. CASE u # page
      <4>1. PICK t \in Page, i \in Idx : tab[t][i].kind = "table" /\ tab[t][i].pa = u
        BY <1>1, <1>8, <2>2, <3>2 DEF Levels
      <4>2. t # x \/ i # j
        BY <1>2, <4>1, NullIs
      <4> QED
        BY <1>6, <4>1, <4>2
    <3> QED
      BY <3>1, <3>2
  <2> QED
    BY <1>8, <1>9, <2>1, <2>2 DEF Levels, EntryOK
<1>11. Once'
  <2> SUFFICES ASSUME NEW t \in Page, NEW u \in Page, NEW i \in Idx, NEW h \in Idx,
                      Owns(tab'[t][i]), Owns(tab'[u][h]), tab'[t][i].pa = tab'[u][h].pa
               PROVE  t = u /\ i = h
    BY DEF Once, Points
  <2>1. CASE tab'[t][i].pa = page
    BY <1>7, <2>1 DEF Points
  <2>2. CASE tab'[t][i].pa # page
    <3>1. tab'[t][i] = tab[t][i] /\ tab'[u][h] = tab[u][h]
      BY <1>6, <2>2 DEF e
    <3> QED
      BY <3>1 DEF Trees, Once, Points
  <2> QED
    BY <2>1, <2>2
<1>12. Trees'
  BY <1>6, <1>10, <1>11 DEF Trees
<1>13. ASSUME NEW u \in Page PROVE u \in Owned' <=> u \in Owned \/ u = page
  <2>1. CASE u = page
    BY <1>2, <1>7, <2>1 DEF Owned
  <2>2. CASE u # page
    <3>1. ASSUME NEW t \in Page, NEW i \in Idx PROVE Points(t, i, u)' <=> Points(t, i, u)
      <4>1. CASE t = x /\ i = j
        BY <1>2, <1>6, <2>2, <4>1, NullIs DEF Points, e
      <4>2. CASE ~(t = x /\ i = j)
        BY <1>6, <4>2 DEF Points
      <4> QED
        BY <4>1, <4>2
    <3> QED
      BY <2>2, <3>1 DEF Owned
  <2> QED
    BY <2>1, <2>2
<1>14. ASSUME NEW qt \in Images, NEW vb \in Va PROVE Entry(qt, vb)' = Entry(qt, vb)
  <2>1. Levels(lev) /\ qt \in Page /\ lev[qt] = 2 /\ PX(2, vb) \in Idx /\ PX(1, vb) \in Idx
        /\ PX(0, vb) \in Idx
    BY <1>1, PXIs DEF Levels, Trees
  <2> DEFINE e2 == tab[qt][PX(2, vb)]
  <2>2. \A i \in Idx : tab'[page][i] = Null
    BY <1>3, <1>6
  <2>3. CASE Walk(qt, vb).level = 2
    <3>1. e2 = Null
      BY <2>1, <2>3, WalkIs
    <3>2. CASE tab'[qt][PX(2, vb)] = Null
      <4>1. Walk(qt, vb)' = [page |-> qt, level |-> 2]
        BY <3>2 DEF Walk
      <4> QED
        BY <2>3, <4>1, EntryAt DEF Entry
    <3>3. CASE tab'[qt][PX(2, vb)] # Null
      <4>1. tab'[qt][PX(2, vb)] = e
        BY <1>6, <2>1, <3>1, <3>3
      <4>2. tab'[page][PX(1, vb)] = Null /\ e.pa = page
        BY <2>1, <2>2 DEF e
      <4>3. Walk(qt, vb)' = [page |-> page, level |-> 1]
        BY <3>3, <4>1, <4>2 DEF Walk
      <4> QED
        BY <2>3, <4>3, EntryAt DEF Entry
    <3> QED
      BY <3>2, <3>3
  <2>4. CASE Walk(qt, vb).level = 1
    <3>1. PICK m \in Page : /\ m = e2.pa /\ e2.kind = "table" /\ tab[m][PX(1, vb)] = Null
                            /\ lev[m] = 1
      BY <2>1, <2>4, WalkIs
    <3>2. tab'[qt][PX(2, vb)] = e2 /\ e2 # Null
      BY <1>2, <1>6, <2>1, <3>1, NullIs
    <3>3. CASE tab'[m][PX(1, vb)] = Null
      <4>1. Walk(qt, vb)' = [page |-> m, level |-> 1]
        BY <3>1, <3>2, <3>3 DEF Walk
      <4> QED
        BY <2>4, <4>1, EntryAt DEF Entry
    <3>4. CASE tab'[m][PX(1, vb)] # Null
      <4>1. tab'[m][PX(1, vb)] = e
        BY <1>6, <2>1, <3>1, <3>4
      <4>2. Walk(qt, vb)' = [page |-> page, level |-> 0]
        BY <3>1, <3>2, <3>4, <4>1 DEF Walk, e
      <4>3. Entry(qt, vb)' = Null
        BY <2>1, <2>2, <4>2 DEF Entry
      <4> QED
        BY <2>4, <4>3, EntryAt
    <3> QED
      BY <3>3, <3>4
  <2>5. CASE Walk(qt, vb).level = 0
    <3>1. PICK m \in Page : /\ m = e2.pa /\ e2.kind = "table"
                            /\ tab[m][PX(1, vb)].kind = "table"
      BY <2>1, <2>5, WalkIs
    <3>2. tab'[qt][PX(2, vb)] = e2 /\ tab'[m][PX(1, vb)] = tab[m][PX(1, vb)]
      BY <1>2, <1>6, <2>1, <3>1, NullIs
    <3>3. Walk(qt, vb)' = Walk(qt, vb)
      BY <3>1, <3>2 DEF Walk
    <3>4. PICK t \in Page : t = Walk(qt, vb).page /\ lev[t] = 0
      BY <2>1, <2>5, WalkIs
    <3>5. tab'[t][PX(0, vb)] = tab[t][PX(0, vb)]
      BY <1>2, <1>6, <2>1, <3>4
    <3> QED
      BY <2>5, <3>3, <3>4, <3>5, EntryAt DEF Entry
  <2> QED
    BY <2>3, <2>4, <2>5, EntryAt
<1> QED
  BY <1>12, <1>13, <1>14

\* uvmcreate(): an image in which nothing is mapped.
LEMMA RootAdded ==
  ASSUME Trees, NEW page \in Loose, tab' = tab, Images' = Images \cup {page}
  PROVE  /\ Trees' /\ Owned' = Owned
         /\ \A qt \in Images, vb \in Va : Entry(qt, vb)' = Entry(qt, vb)
         /\ \A vb \in Va : Entry(page, vb)' = Null
<1>1. PICK lev : Levels(lev)
  BY DEF Trees
<1>2. page \in Page /\ lev[page] = 3 /\ \A i \in Idx : tab[page][i] = Null
  BY <1>1, LooseIs
<1> DEFINE lv == [lev EXCEPT ![page] = 2]
<1>3. lv \in [Page -> 0..3] /\ lv[page] = 2 /\ \A t \in Page : t # page => lv[t] = lev[t]
  BY <1>1, <1>2 DEF Levels
<1> HIDE DEF lv
<1>4. ASSUME NEW t \in Page, NEW i \in Idx PROVE EntryOK(lv, t, tab[t][i])
  <2>1. CASE t = page
    BY <1>2, <2>1, NullIs DEF EntryOK
  <2>2. CASE t # page
    <3>1. EntryOK(lev, t, tab[t][i]) /\ lv[t] = lev[t]
      BY <1>1, <1>3, <2>2 DEF Levels
    <3>2. Owns(tab[t][i]) => tab[t][i].pa # page
      BY <1>2 DEF Loose, Owned, Points
    <3> QED
      BY <1>3, <3>1, <3>2 DEF EntryOK, Owns
  <2> QED
    BY <2>1, <2>2
<1>5. Levels(lv)'
  <2>1. \A t \in Page : lv[t] = 2 <=> t \in Images'
    BY <1>1, <1>3 DEF Levels
  <2>2. \A u \in Page : lv[u] \in {0, 1} =>
          \E t \in Page, i \in Idx : tab[t][i].kind = "table" /\ tab[t][i].pa = u
    BY <1>1, <1>3 DEF Levels
  <2> QED
    BY <1>3, <1>4, <2>1, <2>2 DEF Levels, EntryOK
<1>6. Trees'
  BY <1>2, <1>5 DEF Trees, Once, Points
<1>7. Owned' = Owned
  BY DEF Owned, Points
<1>8. ASSUME NEW vb \in Va PROVE Entry(page, vb)' = Null
  <2>1. Walk(page, vb)' = [page |-> page, level |-> 2]
    BY <1>2, PXIs DEF Walk
  <2> QED
    BY <2>1 DEF Entry
<1>9. \A qt \in Images, vb \in Va : Entry(qt, vb)' = Entry(qt, vb)
  BY DEF Entry, Walk
<1> QED
  BY <1>6, <1>7, <1>8, <1>9

\* The tables of an image are its root and what the entries of its tables own.
LEMMA TablesIs ==
  ASSUME Trees, NEW lev, Levels(lev), NEW pt \in Images
  PROVE  /\ pt \in Tables(pt) /\ Tables(pt) \subseteq Page
         /\ \A t \in Tables(pt) : lev[t] \in {0, 1, 2} /\ (lev[t] = 2 => t = pt)
         /\ \A t \in Tables(pt), i \in Idx : tab[t][i].kind = "table" =>
              tab[t][i].pa \in Tables(pt)
         /\ \A u \in Tables(pt) : u # pt =>
              \E t \in Tables(pt), i \in Idx : tab[t][i].kind = "table" /\ tab[t][i].pa = u
<1> DEFINE below(t) == {tab[t][i].pa : i \in {j \in Idx : tab[t][j].kind = "table"}}
<1>1. Tables(pt) = {pt} \cup below(pt) \cup UNION {below(t) : t \in below(pt)}
  BY DEF Tables
<1>2. pt \in Page /\ lev[pt] = 2
  BY DEF Trees, Levels
<1>3. \A t \in Page : \A u \in below(t) : /\ u \in Page /\ lev[u] = lev[t] - 1 /\ lev[t] \in {1, 2}
                                         /\ \E i \in Idx : tab[t][i].kind = "table" /\ tab[t][i].pa = u
  BY DEF Levels, EntryOK
<1>4. \A t \in Page, i \in Idx : tab[t][i].kind = "table" => tab[t][i].pa \in below(t)
  OBVIOUS
<1> HIDE DEF below
<1>5. \A t \in below(pt) : t \in Page /\ lev[t] = 1
  BY <1>2, <1>3
<1>6. \A t \in below(pt) : \A u \in below(t) : u \in Page /\ lev[u] = 0
  BY <1>3, <1>5
<1>7. Tables(pt) \subseteq Page /\ pt \in Tables(pt)
  BY <1>1, <1>2, <1>5, <1>6
<1>8. \A t \in Tables(pt) : lev[t] \in {0, 1, 2} /\ (lev[t] = 2 => t = pt)
  BY <1>1, <1>2, <1>5, <1>6
<1>9. ASSUME NEW t \in Tables(pt), NEW i \in Idx, tab[t][i].kind = "table"
      PROVE  tab[t][i].pa \in Tables(pt)
  <2>1. tab[t][i].pa \in below(t) /\ t \in Page
    BY <1>4, <1>7, <1>9
  <2>2. lev[t] \in {1, 2}
    BY <1>3, <2>1
  <2>3. t \in {pt} \cup below(pt)
    BY <1>1, <1>6, <2>2
  <2> QED
    BY <1>1, <2>1, <2>3
<1>10. ASSUME NEW u \in Tables(pt), u # pt
       PROVE  \E t \in Tables(pt), i \in Idx : tab[t][i].kind = "table" /\ tab[t][i].pa = u
  <2>1. PICK t \in {pt} \cup below(pt) : u \in below(t)
    BY <1>1, <1>10
  <2>2. t \in Tables(pt)
    BY <1>1, <2>1
  <2> QED
    BY <1>3, <1>7, <2>1, <2>2
<1> QED
  BY <1>7, <1>8, <1>9, <1>10

\* An entry that leads to a table of an image is in a table of that image.
LEMMA TablesUp ==
  ASSUME Trees, NEW pt \in Images, NEW u \in Tables(pt), NEW t \in Page, NEW i \in Idx,
         Points(t, i, u)
  PROVE  t \in Tables(pt) /\ tab[t][i].kind = "table"
<1>1. PICK lev : Levels(lev)
  BY DEF Trees
<1>2. u # pt
  <2> SUFFICES ASSUME u = pt PROVE FALSE
    OBVIOUS
  <2>1. lev[u] = 2 /\ EntryOK(lev, t, tab[t][i])
    BY <1>1 DEF Levels, Trees
  <2> QED
    BY <2>1 DEF EntryOK, Points, Owns
<1>3. PICK x \in Tables(pt), j \in Idx : tab[x][j].kind = "table" /\ tab[x][j].pa = u
  BY <1>1, <1>2, TablesIs
<1>4. x \in Page
  BY <1>1, TablesIs
<1>5. Owns(tab[x][j])
  BY <1>3 DEF Owns
<1>6. x = t /\ j = i
  BY <1>3, <1>4, <1>5 DEF Trees, Once, Points
<1> QED
  BY <1>3, <1>6

\* Images share no table, and every table is in an image.
LEMMA TablesApart ==
  ASSUME Trees
  PROVE  /\ \A pt, qt \in Images : pt # qt => Tables(pt) \cap Tables(qt) = {}
         /\ \A lev : Levels(lev) => \A u \in Page : lev[u] # 3 =>
              \E pt \in Images : u \in Tables(pt)
<1>1. PICK lev : Levels(lev)
  BY DEF Trees
<1>2. ASSUME NEW pt \in Images, NEW qt \in Images, pt # qt, NEW u \in Tables(pt),
             u \in Tables(qt)
      PROVE  FALSE
  <2>1. /\ \A x \in Tables(pt) : x \in Page /\ lev[x] \in {0, 1, 2} /\ (lev[x] = 2 => x = pt)
        /\ \A x \in Tables(qt) : x \in Page /\ lev[x] \in {0, 1, 2} /\ (lev[x] = 2 => x = qt)
    BY <1>1, TablesIs
  <2>2. ASSUME NEW x \in Tables(pt), x \in Tables(qt), lev[x] # 2
        PROVE  \E y \in Tables(pt) : y \in Tables(qt) /\ lev[y] = lev[x] + 1
    <3>1. x # pt
      BY <1>1, <2>2 DEF Levels, Trees
    <3>2. PICK y \in Tables(pt), i \in Idx : tab[y][i].kind = "table" /\ tab[y][i].pa = x
      BY <1>1, <3>1, TablesIs
    <3>3. Points(y, i, x)
      BY <3>2 DEF Points, Owns
    <3>4. y \in Tables(qt)
      BY <2>1, <2>2, <3>3, TablesUp
    <3>5. lev[x] = lev[y] - 1 /\ lev[y] \in {1, 2}
      BY <1>1, <2>1, <3>2 DEF Levels, EntryOK
    <3> QED
      BY <3>4, <3>5
  <2>3. ASSUME NEW x \in Tables(pt), x \in Tables(qt), lev[x] = 2 PROVE FALSE
    BY <1>2, <2>1, <2>3
  <2>4. ASSUME NEW x \in Tables(pt), x \in Tables(qt), lev[x] = 1 PROVE FALSE
    BY <2>2, <2>3, <2>4
  <2>5. ASSUME NEW x \in Tables(pt), x \in Tables(qt), lev[x] = 0 PROVE FALSE
    BY <2>2, <2>4, <2>5
  <2> QED
    BY <1>2, <2>1, <2>3, <2>4, <2>5
<1>3. ASSUME NEW lv, Levels(lv), NEW u \in Page, lv[u] # 3
      PROVE  \E pt \in Images : u \in Tables(pt)
  <2>1. ASSUME NEW x \in Page, lv[x] = 2 PROVE \E pt \in Images : x \in Tables(pt)
    <3>1. x \in Images
      BY <1>3, <2>1 DEF Levels
    <3> QED
      BY <1>3, <3>1, TablesIs
  <2>2. ASSUME NEW x \in Page, lv[x] \in {0, 1},
               \A t \in Page : lv[t] = lv[x] + 1 => \E pt \in Images : t \in Tables(pt)
        PROVE  \E pt \in Images : x \in Tables(pt)
    <3>1. PICK t \in Page, i \in Idx : tab[t][i].kind = "table" /\ tab[t][i].pa = x
      BY <1>3, <2>2 DEF Levels
    <3>2. lv[t] = lv[x] + 1
      BY <1>3, <3>1 DEF Levels, EntryOK
    <3>3. PICK pt \in Images : t \in Tables(pt)
      BY <2>2, <3>2
    <3> QED
      BY <1>3, <3>1, <3>3, TablesIs
  <2>3. ASSUME NEW x \in Page, lv[x] = 1 PROVE \E pt \in Images : x \in Tables(pt)
    BY <2>1, <2>2, <2>3
  <2>4. ASSUME NEW x \in Page, lv[x] = 0 PROVE \E pt \in Images : x \in Tables(pt)
    BY <2>2, <2>3, <2>4
  <2>5. lv[u] \in 0..3
    BY <1>3 DEF Levels
  <2> QED
    BY <1>3, <2>1, <2>3, <2>4, <2>5
<1> QED
  BY <1>2, <1>3

\* walk() stays within the tables of the image.
LEMMA WalkInTables ==
  ASSUME Trees, NEW pt \in Images, NEW va \in Va
  PROVE  /\ pt \in Tables(pt) /\ Walk(pt, va).page \in Tables(pt)
         /\ tab[pt][PX(2, va)].kind = "table" => tab[pt][PX(2, va)].pa \in Tables(pt)
<1>1. PICK lev : Levels(lev)
  BY DEF Trees
<1>2. PX(2, va) \in Idx /\ PX(1, va) \in Idx
  BY PXIs
<1>3. pt \in Tables(pt)
  BY <1>1, TablesIs
<1>4. tab[pt][PX(2, va)].kind = "table" => tab[pt][PX(2, va)].pa \in Tables(pt)
  BY <1>1, <1>2, <1>3, TablesIs
<1>5. CASE Walk(pt, va).level = 2
  BY <1>1, <1>3, <1>4, <1>5, WalkIs
<1>6. CASE Walk(pt, va).level = 1
  BY <1>1, <1>3, <1>4, <1>6, WalkIs
<1>7. CASE Walk(pt, va).level = 0
  <2>1. PICK m \in Page : /\ m = tab[pt][PX(2, va)].pa /\ tab[pt][PX(2, va)].kind = "table"
                          /\ tab[m][PX(1, va)].kind = "table"
                          /\ Walk(pt, va).page = tab[m][PX(1, va)].pa
    BY <1>1, <1>7, WalkIs
  <2>2. m \in Tables(pt)
    BY <1>4, <2>1
  <2> QED
    BY <1>1, <1>2, <1>3, <1>4, <2>1, <2>2, TablesIs
<1> QED
  BY <1>5, <1>6, <1>7, EntryAt

\* The entry that owns a page is in one of the tables above, or it is a leaf.
LEMMA OwnedBy ==
  ASSUME Trees, NEW t \in Page, NEW i \in Idx, NEW u \in Page, Points(t, i, u)
  PROVE  \E pt \in Images :
           /\ t \in Tables(pt)
           /\ \/ tab[t][i].kind = "table" /\ u \in Tables(pt) /\ u # pt
              \/ \E va \in Va : IsLeaf(pt, va, t, i) /\ Owns(Entry(pt, va)) /\ Entry(pt, va).pa = u
                               /\ u \notin Tables(pt)
<1>1. PICK lev : Levels(lev)
  BY DEF Trees
<1>2. EntryOK(lev, t, tab[t][i]) /\ Owns(tab[t][i]) /\ tab[t][i].pa = u
  BY <1>1 DEF Levels, Points
<1>3. CASE tab[t][i].kind = "table"
  <2>1. lev[t] \in {1, 2} /\ lev[u] = lev[t] - 1
    BY <1>2, <1>3 DEF EntryOK
  <2>2. PICK pt \in Images : t \in Tables(pt)
    BY <1>1, <2>1, TablesApart
  <2>3. u \in Tables(pt)
    BY <1>1, <1>2, <1>3, <2>2, TablesIs
  <2>4. u # pt
    BY <1>1, <2>1 DEF Levels, Trees
  <2> QED
    BY <1>3, <2>2, <2>3, <2>4
<1>4. CASE tab[t][i].kind # "table"
  <2>1. lev[t] = 0 /\ lev[u] = 3
    BY <1>2, <1>4 DEF EntryOK, Owns
  <2>2. PICK pt \in Images, va \in Va : IsLeaf(pt, va, t, i) /\ Entry(pt, va) = tab[t][i]
    BY <1>1, <2>1, LeafSeen
  <2>3. t \in Tables(pt)
    BY <2>2, WalkInTables DEF IsLeaf
  <2>4. u \notin Tables(pt)
    BY <1>1, <2>1, TablesIs
  <2> QED
    BY <1>2, <2>2, <2>3, <2>4
<1> QED
  BY <1>3, <1>4

\* freewalk(): the tables of an image and what its entries own are loose again.
LEMMA TreeFreed ==
  ASSUME Trees, NEW pt \in Images, Images' = Images \ {pt},
         tab' = [t \in Page |-> IF t \in Tables(pt) THEN NoEntries ELSE tab[t]]
  PROVE  /\ Trees'
         /\ \A qt \in Images, vb \in Va : qt # pt => Entry(qt, vb)' = Entry(qt, vb)
         /\ \A u \in Page : u \in Owned' <=>
              /\ u \in Owned /\ u \notin Tables(pt)
              /\ \A va \in Va : ~(Owns(Entry(pt, va)) /\ Entry(pt, va).pa = u)
<1>1. PICK lev : Levels(lev)
  BY DEF Trees
<1>2. PICK T : T = Tables(pt)
  OBVIOUS
<1>3. /\ T \subseteq Page /\ pt \in T
      /\ \A t \in T : lev[t] \in {0, 1, 2} /\ (lev[t] = 2 => t = pt)
      /\ \A t \in T, i \in Idx : tab[t][i].kind = "table" => tab[t][i].pa \in T
  BY <1>1, <1>2, TablesIs
<1>4. \A u \in T : \A t \in Page, i \in Idx : Points(t, i, u) => t \in T
  BY <1>2, TablesUp
<1>5. /\ tab' \in [Page -> [Idx -> PTE]]
      /\ \A t \in T, i \in Idx : tab'[t][i] = Null
      /\ \A t \in Page \ T : tab'[t] = tab[t]
  <2>1. NoEntries \in [Idx -> PTE] /\ tab \in [Page -> [Idx -> PTE]]
    BY NullIs DEF NoEntries, Trees
  <2>2. tab' \in [Page -> [Idx -> PTE]]
    BY <2>1
  <2>3. \A t \in T : tab'[t] = NoEntries
    BY <1>2, <1>3
  <2>4. \A t \in Page \ T : tab'[t] = tab[t]
    BY <1>2
  <2> QED
    BY <2>2, <2>3, <2>4 DEF NoEntries
<1> DEFINE lv == [u \in Page |-> IF u \in T THEN 3 ELSE lev[u]]
<1>6. /\ lv \in [Page -> 0..3] /\ \A u \in T : lv[u] = 3
      /\ \A u \in Page \ T : lv[u] = lev[u]
  BY <1>1, <1>3 DEF Levels
<1> HIDE DEF lv
<1>7. ASSUME NEW t \in Page, NEW i \in Idx PROVE EntryOK(lv, t, tab'[t][i])
  <2>1. CASE t \in T
    BY <1>5, <2>1, NullIs DEF EntryOK
  <2>2. CASE t \notin T
    <3>1. EntryOK(lev, t, tab[t][i]) /\ tab'[t][i] = tab[t][i] /\ lv[t] = lev[t]
      BY <1>1, <1>5, <1>6, <2>2 DEF Levels
    <3>2. tab[t][i].kind = "table" => tab[t][i].pa \notin T
      BY <1>4, <2>2 DEF Points, Owns
    <3> QED
      BY <1>6, <3>1, <3>2 DEF EntryOK
  <2> QED
    BY <2>1, <2>2
<1>8. Levels(lv)'
  <2>1. ASSUME NEW t \in Page PROVE lv[t] = 2 <=> t \in Images'
    <3>1. lev[t] = 2 <=> t \in Images
      BY <1>1 DEF Levels
    <3> QED
      BY <1>3, <1>6, <3>1
  <2>2. ASSUME NEW u \in Page, lv[u] \in {0, 1}
        PROVE  \E t \in Page, i \in Idx : tab'[t][i].kind = "table" /\ tab'[t][i].pa = u
    <3>1. u \notin T /\ lev[u] \in {0, 1}
      BY <1>6, <2>2
    <3>2. PICK t \in Page, i \in Idx : tab[t][i].kind = "table" /\ tab[t][i].pa = u
      BY <1>1, <3>1 DEF Levels
    <3>3. t \notin T
      BY <1>3, <3>1, <3>2
    <3> QED
      BY <1>5, <3>2, <3>3
  <2> QED
    BY <1>6, <1>7, <2>1, <2>2 DEF Levels, EntryOK
<1>9. \A t \in Page, i \in Idx, u \in Page :
        Points(t, i, u)' <=> t \notin T /\ Points(t, i, u)
  <2> SUFFICES ASSUME NEW t \in Page, NEW i \in Idx, NEW u \in Page
               PROVE  Points(t, i, u)' <=> t \notin T /\ Points(t, i, u)
    OBVIOUS
  <2>1. CASE t \in T
    BY <1>5, <2>1, NullIs DEF Points
  <2>2. CASE t \notin T
    BY <1>5, <2>2 DEF Points
  <2> QED
    BY <2>1, <2>2
<1>10. Trees'
  <2>1. ASSUME NEW t \in Page, NEW u \in Page, NEW i \in Idx, NEW j \in Idx,
               Owns(tab'[t][i]), Owns(tab'[u][j]), tab'[u][j].pa = tab'[t][i].pa
        PROVE  t = u /\ i = j
    <3>1. t \notin T /\ u \notin T
      BY <1>5, <2>1, NullIs
    <3>2. tab'[t][i] = tab[t][i] /\ tab'[u][j] = tab[u][j]
      BY <1>5, <3>1
    <3> QED
      BY <2>1, <3>2 DEF Trees, Once, Points
  <2>2. Once'
    BY <2>1 DEF Once, Points
  <2>3. Images' \subseteq Page
    BY DEF Trees
  <2> QED
    BY <1>5, <1>8, <2>2, <2>3 DEF Trees
<1>11. ASSUME NEW qt \in Images, NEW vb \in Va, qt # pt PROVE Entry(qt, vb)' = Entry(qt, vb)
  <2>1. T \cap Tables(qt) = {} /\ Tables(qt) \subseteq Page
    BY <1>1, <1>2, <1>11, TablesApart, TablesIs
  <2> DEFINE e2 == tab[qt][PX(2, vb)]
  <2>2. qt \in Tables(qt) /\ Walk(qt, vb).page \in Tables(qt)
        /\ (e2.kind = "table" => e2.pa \in Tables(qt))
    BY WalkInTables
  <2>3. tab'[qt] = tab[qt] /\ tab'[Walk(qt, vb).page] = tab[Walk(qt, vb).page]
        /\ (e2.kind = "table" => tab'[e2.pa] = tab[e2.pa])
    BY <1>5, <2>1, <2>2
  <2>4. e2 = Null \/ e2.kind = "table"
    <3>1. lev[qt] = 2 /\ qt \in Page /\ PX(2, vb) \in Idx
      BY <1>1, PXIs DEF Levels, Trees
    <3>2. EntryOK(lev, qt, e2) /\ e2.kind \in {"none", "table", "user", "guard", "kernel"}
      BY <1>1, <3>1, EntryIs DEF Levels, Trees
    <3>3. PICK e : e = e2
      OBVIOUS
    <3>4. EntryOK(lev, qt, e) /\ e.kind \in {"none", "table", "user", "guard", "kernel"}
      BY <3>2, <3>3
    <3>5. e = Null \/ e.kind = "table"
      BY <3>1, <3>4 DEF EntryOK
    <3> QED
      BY <3>3, <3>5
  <2>5. Walk(qt, vb)' = Walk(qt, vb)
    BY <2>3, <2>4 DEF Walk
  <2> QED
    BY <2>3, <2>5 DEF Entry
<1>12. ASSUME NEW u \in Page
       PROVE  u \in Owned' <=>
                /\ u \in Owned /\ u \notin T
                /\ \A va \in Va : ~(Owns(Entry(pt, va)) /\ Entry(pt, va).pa = u)
  <2>1. ASSUME u \in Owned', u \in T PROVE FALSE
    BY <1>4, <1>9, <2>1 DEF Owned
  <2>2. ASSUME u \in Owned', NEW va \in Va, Owns(Entry(pt, va)), Entry(pt, va).pa = u
        PROVE  FALSE
    <3>1. PICK t \in Page, i \in Idx : t \notin T /\ Points(t, i, u)
      BY <1>9, <2>2 DEF Owned
    <3>2. PICK x \in Page, j \in Idx : x = Walk(pt, va).page /\ j = PX(0, va)
      BY EntryAt, PXIs
    <3>3. Entry(pt, va) = tab[x][j]
      BY <2>2, <3>2, EntryAt, NullIs
    <3>4. x = t
      BY <2>2, <3>1, <3>3 DEF Trees, Once, Points
    <3> QED
      BY <1>2, <3>1, <3>2, <3>4, WalkInTables
  <2>3. u \in Owned' => u \in Owned
    BY <1>9 DEF Owned
  <2>4. ASSUME u \in Owned, u \notin T,
               \A va \in Va : ~(Owns(Entry(pt, va)) /\ Entry(pt, va).pa = u)
        PROVE  u \in Owned'
    <3>1. PICK t \in Page, i \in Idx : Points(t, i, u)
      BY <2>4 DEF Owned
    <3>2. PICK qt \in Images :
           /\ t \in Tables(qt)
           /\ \/ tab[t][i].kind = "table" /\ u \in Tables(qt) /\ u # qt
              \/ \E va \in Va : IsLeaf(qt, va, t, i) /\ Owns(Entry(qt, va)) /\ Entry(qt, va).pa = u
                               /\ u \notin Tables(qt)
      BY <3>1, OwnedBy
    <3>3. qt # pt
      BY <1>2, <2>4, <3>2
    <3>4. t \notin T
      BY <1>2, <3>2, <3>3, TablesApart
    <3> QED
      BY <1>9, <3>1, <3>4 DEF Owned
  <2> QED
    BY <2>1, <2>2, <2>3, <2>4
<1> QED
  BY <1>2, <1>10, <1>11, <1>12

-----------------------------------------------------------------------------
(***************************************************************************)
(* Images: what uvmunmap(), proc_freepagetable(), mappages() and           *)
(* uvmclear() do to them.                                                  *)
(***************************************************************************)

\* PGROUNDUP() counts pages, and is monotonic.
LEMMA Rounding ==
  /\ PGROUNDUP(0) = 0
  /\ \A n \in Nat : n <= MaxSz => PGROUNDUP(n) <= TRAPFRAME
  /\ \A m, n \in Nat : m <= n => PGROUNDUP(m) <= PGROUNDUP(n)
  /\ \A k, n \in Nat : k * PGSIZE < n <=> k < PGROUNDUP(n)
  /\ \A k \in Nat : PGROUNDUP(k * PGSIZE) = k /\ PGROUNDUP(k * PGSIZE + 2 * PGSIZE) = k + 2
<1> DEFINE P == PGSIZE
<1>1. P \in Nat /\ P > 0 /\ MaxSz \in Nat /\ MaxSz <= TRAPFRAME * P /\ TRAPFRAME \in Nat
  BY VmConstants, PXAt
<1> HIDE DEF P
<1>2. \A n \in Nat : /\ PGROUNDUP(n) \in Nat /\ PGROUNDUP(n) * P >= n
                     /\ \A k \in Nat : k * P >= n => PGROUNDUP(n) <= k
                     /\ \A k \in Nat : k < PGROUNDUP(n) => k * P < n
  BY RoundUp DEF P
<1>3. ASSUME NEW k \in Nat, NEW n \in Nat PROVE k * P < n <=> k < PGROUNDUP(n)
  <2>1. PICK q \in Nat : q = PGROUNDUP(n)
    BY <1>2
  <2>2. q * P >= n /\ (k < q => k * P < n)
    BY <1>2, <2>1
  <2>3. ASSUME q <= k PROVE k * P >= n
    <3>1. PICK d \in Nat : k = q + d
      BY <2>3
    <3>2. d * P \in Nat
      BY <1>1
    <3>3. k * P = q * P + d * P
      BY <1>1, <3>1
    <3>4. k * P \in Nat /\ q * P \in Nat
      BY <1>1
    <3> QED
      BY <2>2, <3>2, <3>3, <3>4
  <2>4. k * P \in Nat
    BY <1>1
  <2> QED
    BY <2>1, <2>2, <2>3, <2>4
<1>4. ASSUME NEW n \in Nat, n <= MaxSz PROVE PGROUNDUP(n) <= TRAPFRAME
  <2>1. TRAPFRAME * P >= n
    BY <1>1, <1>4
  <2> QED
    BY <1>1, <1>2, <2>1
<1>5. ASSUME NEW m \in Nat, NEW n \in Nat, m <= n PROVE PGROUNDUP(m) <= PGROUNDUP(n)
  <2>1. PICK q \in Nat : q = PGROUNDUP(n)
    BY <1>2
  <2>2. q * P >= m /\ q * P \in Nat
    BY <1>1, <1>2, <1>5, <2>1
  <2> QED
    BY <1>2, <2>1, <2>2
<1>6. ASSUME NEW k \in Nat PROVE PGROUNDUP(k * P) = k
  <2>1. PICK n \in Nat : n = k * P
    BY <1>1
  <2>2. PGROUNDUP(n) \in Nat /\ PGROUNDUP(n) <= k /\ ~(k < PGROUNDUP(n))
    BY <1>2, <1>3, <2>1
  <2>3. ~(PGROUNDUP(n) < k)
    <3>1. PICK q \in Nat : q = PGROUNDUP(n)
      BY <2>2
    <3>2. q * P >= k * P
      BY <1>2, <2>1, <3>1
    <3>3. ASSUME q < k PROVE FALSE
      <4>1. PICK d \in Nat : k = q + d /\ d >= 1
        BY <3>3
      <4>2. d * P >= 1 /\ k * P = q * P + d * P
        BY <1>1, <4>1
      <4>3. q * P \in Nat /\ d * P \in Nat
        BY <1>1
      <4> QED
        BY <3>2, <4>2, <4>3
    <3> QED
      BY <3>1, <3>3
  <2> QED
    BY <2>1, <2>2, <2>3
<1>7. ASSUME NEW k \in Nat PROVE PGROUNDUP(k * P + 2 * P) = k + 2
  <2>1. k * P + 2 * P = (k + 2) * P
    BY <1>1
  <2> QED
    BY <1>6, <2>1
<1>8. PGROUNDUP(0) = 0
  <2>1. 0 * P = 0
    BY <1>1
  <2> QED
    BY <1>6, <2>1
<1> QED
  BY <1>3, <1>4, <1>5, <1>6, <1>7, <1>8 DEF P

\* What is mapped at an address, but for the trampoline and the trapframe, is
\* owned.
LEMMA EntryOwned ==
  ASSUME Trees, NEW pt \in Images, NEW va \in Va, Owns(Entry(pt, va))
  PROVE  Entry(pt, va).pa \in Owned /\ Walk(pt, va).level = 0
<1>1. PICK t \in Page, i \in Idx : t = Walk(pt, va).page /\ i = PX(0, va)
  BY EntryAt, PXIs
<1>2. Walk(pt, va).level = 0 /\ Entry(pt, va) = tab[t][i] /\ Entry(pt, va).pa \in Page
  BY <1>1, EntryAt, NullIs
<1> QED
  BY <1>2 DEF Owned, Points

\* An image of n pages maps these, the trapframe and the trampoline.
LEMMA ImageMaps ==
  ASSUME Trees, NEW pt \in Images, NEW n, NEW tf, ImageIs(pt, n, tf)
  PROVE  /\ Mapped(pt) = {TRAMPOLINE, TRAPFRAME} \cup 0..(n - 1)
         /\ \A va \in Va : Owns(Entry(pt, va)) <=> va < n
         /\ \A va \in Va : Walk(pt, va).level # 0 => n <= va /\ va < TRAPFRAME
         /\ \A va \in Nat : va < n => va \in Va
<1>1. /\ n \in Nat /\ n <= TRAPFRAME /\ TRAPFRAME \in Nat /\ TRAPFRAME = TRAMPOLINE - 1
      /\ TRAMPOLINE \in Va /\ TRAPFRAME \in Va
  BY PXAt DEF ImageIs
<1>2. \A va \in Nat : va < n => va \in Va
  BY <1>1 DEF Va
<1>3. \A va \in Va : va \in Nat /\ (va < TRAPFRAME \/ va = TRAPFRAME \/ va = TRAMPOLINE)
  BY <1>1 DEF Va
<1>4. Mapped(pt) = {va \in Va : Entry(pt, va) # Null}
  BY DEF Mapped, Va
<1>5. ASSUME NEW va \in Va PROVE Owns(Entry(pt, va)) <=> va < n
  <2>1. CASE va < n
    BY <2>1 DEF ImageIs, Owns
  <2>2. CASE n <= va /\ va < TRAPFRAME
    <3>1. Entry(pt, va) = Null
      BY <2>2 DEF ImageIs
    <3>2. ~(va < n)
      BY <1>1, <1>3, <2>2
    <3> QED
      BY <3>1, <3>2, NullIs
  <2>3. CASE va = TRAPFRAME \/ va = TRAMPOLINE
    <3>1. Entry(pt, va).kind = "kernel"
      BY <2>3 DEF ImageIs
    <3>2. ~(va < n)
      BY <1>1, <1>3, <2>3
    <3> QED
      BY <3>1, <3>2 DEF Owns
  <2> QED
    BY <1>1, <1>3, <2>1, <2>2, <2>3
<1>6. \A va \in Va : Entry(pt, va) = Null <=> n <= va /\ va < TRAPFRAME
  BY DEF ImageIs
<1>7. Mapped(pt) = {TRAMPOLINE, TRAPFRAME} \cup 0..(n - 1)
  <2>1. ASSUME NEW va \in Va, Entry(pt, va) # Null
        PROVE  va \in {TRAMPOLINE, TRAPFRAME} \cup 0..(n - 1)
    BY <1>1, <1>3, <1>6, <2>1
  <2>2. ASSUME NEW va \in 0..(n - 1) PROVE va \in Va /\ Entry(pt, va) # Null
    BY <1>1, <1>2, <1>6, <2>2
  <2>3. ASSUME NEW va \in {TRAMPOLINE, TRAPFRAME} PROVE va \in Va /\ Entry(pt, va) # Null
    BY <1>1, <1>6, <2>3
  <2> QED
    BY <1>4, <2>1, <2>2, <2>3
<1>8. \A va \in Va : Walk(pt, va).level # 0 => n <= va /\ va < TRAPFRAME
  BY <1>6, EntryAt
<1> QED
  BY <1>2, <1>5, <1>7, <1>8

\* Pages that entries owned become free, and so do the pages also.
Moved(also) ==
  \E M \in SUBSET Owned :
    /\ free' = free \cup also \cup M
    /\ \A u \in Page : u \in Owned' <=> u \in Owned /\ u \notin M

\* uvmunmap() of the highest pages of an image.
LEMMA UnmapDone ==
  ASSUME Trees, NEW pt \in Images, NEW tf, NEW b \in Nat, NEW v \in Nat, b <= v,
         ImageIs(pt, v, tf), NEW also, Unmap(pt, b..(v - 1), also), Images' = Images
  PROVE  /\ panicked' = FALSE /\ Trees' /\ ImageIs(pt, b, tf)'
         /\ \A qt \in Images, vb \in Va : qt # pt => Entry(qt, vb)' = Entry(qt, vb)
         /\ Moved(also)
<1>1. PICK S : S = b..(v - 1)
  OBVIOUS
<1> DEFINE f == [va \in S |-> Null]
<1>2. /\ v <= TRAPFRAME /\ TRAPFRAME \in Nat /\ TRAMPOLINE = TRAPFRAME + 1
      /\ TRAMPOLINE \in Va /\ TRAPFRAME \in Va
  BY PXAt DEF ImageIs
<1>3. S \subseteq Va /\ S \subseteq Mapped(pt) /\ \A va \in S : Owns(Entry(pt, va))
  <2>1. S \subseteq 0..(v - 1) /\ \A va \in S : va \in Nat /\ va < v
    BY <1>1
  <2> QED
    BY <2>1, ImageMaps
<1>4. LeavesSet(pt, S, f)
  <2>1. tab' = [t \in Page |-> [i \in Idx |->
                   IF \E va \in S : IsLeaf(pt, va, t, i) THEN Null ELSE tab[t][i]]]
    BY <1>1 DEF Unmap, IsLeaf
  <2>2. tab \in [Page -> [Idx -> PTE]]
    BY DEF Trees
  <2>3. tab' \in [Page -> [Idx -> PTE]]
    BY <2>1, <2>2, NullIs
  <2>4. ASSUME NEW va \in S, Walk(pt, va).level = 0
        PROVE  tab'[Walk(pt, va).page][PX(0, va)] = f[va]
    <3>1. PICK lev : Levels(lev)
      BY DEF Trees
    <3>2. va \in Va
      BY <1>3
    <3>3. Walk(pt, va) = [page |-> Walk(pt, va).page, level |-> 0] /\ Walk(pt, va).page \in Page
      BY <2>4, <3>1, <3>2, WalkIs
    <3>4. PICK t \in Page, i \in Idx : t = Walk(pt, va).page /\ i = PX(0, va)
      BY <3>2, <3>3, PXIs
    <3>5. IsLeaf(pt, va, t, i)
      BY <3>3, <3>4 DEF IsLeaf
    <3> QED
      BY <2>1, <3>4, <3>5
  <2>5. ASSUME NEW t \in Page, NEW i \in Idx, \A va \in S : ~IsLeaf(pt, va, t, i)
        PROVE  tab'[t][i] = tab[t][i]
    BY <2>1, <2>5
  <2> QED
    BY <2>3, <2>4, <2>5 DEF LeavesSet
<1>5. \A va \in S : f[va] = Null
  OBVIOUS
<1> HIDE DEF f
<1>6. /\ \A va \in S : Fits(pt, va, f[va])
      /\ \A va, vb \in S : Owns(f[va]) /\ Owns(f[vb]) /\ f[va].pa = f[vb].pa => va = vb
  BY <1>5, NullIs DEF Fits
<1>7. /\ Trees'
      /\ \A u \in Page : u \in Owned' <=>
              \/ /\ u \in Owned
                 /\ \A va \in S : ~(Owns(Entry(pt, va)) /\ Entry(pt, va).pa = u)
              \/ \E va \in S : Walk(pt, va).level = 0 /\ Owns(f[va]) /\ f[va].pa = u
  BY <1>3, <1>4, <1>6, LeavesTrees
<1>8. \A qt \in Images, vb \in Va :
        Entry(qt, vb)' = IF qt = pt /\ vb \in S /\ Walk(pt, vb).level = 0
                             THEN f[vb] ELSE Entry(qt, vb)
  BY <1>3, <1>4, LeavesSeen
<1>9. \A va \in S : Walk(pt, va).level = 0
  BY <1>3, EntryOwned
<1>10. \A vb \in Va : Entry(pt, vb)' = IF vb \in S THEN Null ELSE Entry(pt, vb)
  BY <1>5, <1>8, <1>9
<1>11. panicked' = FALSE
  BY <1>1, <1>3 DEF Unmap
<1> DEFINE M == {Entry(pt, va).pa : va \in S}
<1>12. free' = free \cup also \cup M
  <2>1. S \cap Mapped(pt) = S
    BY <1>3
  <2>2. free' = free \cup (also \cup {Entry(pt, va).pa : va \in S \cap Mapped(pt)})
    BY <1>1 DEF Unmap, Kfree
  <2> QED
    BY <2>1, <2>2
<1>13. M \in SUBSET Owned
  BY <1>3, EntryOwned
<1>14. \A u \in Page : u \in Owned' <=> u \in Owned /\ u \notin M
  BY <1>3, <1>5, <1>7, NullIs
<1>15. ImageIs(pt, b, tf)'
  <2>1. \A va \in Va : va \in S <=> b <= va /\ va < v
    BY <1>1 DEF Va
  <2>2. ASSUME NEW va \in Va PROVE Entry(pt, va)' = Null <=> b <= va /\ va < TRAPFRAME
    <3>1. va \in Nat /\ (Entry(pt, va) = Null <=> v <= va /\ va < TRAPFRAME)
      BY DEF ImageIs, Va
    <3> QED
      BY <1>2, <1>10, <2>1, <3>1
  <2>3. TRAMPOLINE \notin S /\ TRAPFRAME \notin S
    BY <1>2, <2>1
  <2>4. Entry(pt, TRAMPOLINE)' = Entry(pt, TRAMPOLINE) /\ Entry(pt, TRAPFRAME)' = Entry(pt, TRAPFRAME)
    BY <1>2, <1>10, <2>3
  <2>5. ASSUME NEW va \in Va, va < b PROVE Entry(pt, va)' \in {Entry(pt, va)} /\ va < v
    <3>1. va \in Nat
      BY DEF Va
    <3> QED
      BY <1>10, <2>1, <2>5, <3>1
  <2>6. \A va \in Va : Entry(pt, va)'.kind = "guard" => Entry(pt, va).kind = "guard"
    BY <1>10, NullIs
  <2>7. b <= TRAPFRAME
    BY <1>2
  <2> QED
    BY <2>2, <2>4, <2>5, <2>6, <2>7 DEF ImageIs
<1> QED
  <2>1. Moved(also)
    BY <1>12, <1>13, <1>14 DEF Moved
  <2> QED
    BY <1>3, <1>7, <1>8, <1>11, <1>15, <2>1

\* An image is freed with all it has.
LEMMA ImageFreed ==
  ASSUME Trees, NEW pt \in Images, NEW vas, NEW also, FreeImage(pt, vas, also),
         Mapped(pt) = vas, \A va \in Va : Owns(Entry(pt, va)) => va < TRAPFRAME,
         \A va \in Va : va < TRAPFRAME => Entry(pt, va) = Null \/ Owns(Entry(pt, va)),
         Images' = Images \ {pt}
  PROVE  /\ panicked' = FALSE /\ Trees'
         /\ \A qt \in Images, vb \in Va : qt # pt => Entry(qt, vb)' = Entry(qt, vb)
         /\ \E M \in SUBSET Owned :
              /\ free' = free \cup also \cup M \cup {pt}
              /\ \A u \in Page : u \in Owned' <=> u \in Owned /\ u \notin M
<1>1. PICK lev : Levels(lev)
  BY DEF Trees
<1>2. panicked' = FALSE
  BY DEF FreeImage
<1>3. tab' = [t \in Page |-> IF t \in Tables(pt) THEN NoEntries ELSE tab[t]]
  BY DEF FreeImage
<1>4. /\ Trees'
      /\ \A qt \in Images, vb \in Va : qt # pt => Entry(qt, vb)' = Entry(qt, vb)
      /\ \A u \in Page : u \in Owned' <=>
              /\ u \in Owned /\ u \notin Tables(pt)
              /\ \A va \in Va : ~(Owns(Entry(pt, va)) /\ Entry(pt, va).pa = u)
  BY <1>3, TreeFreed
<1>5. PICK U : U = vas \cap Mapped(pt) \cap 0..(TRAPFRAME - 1)
  OBVIOUS
<1>6. \A va : va \in U <=> va \in Va /\ Owns(Entry(pt, va))
  <2>1. \A va \in Va : va \in Nat
    BY DEF Va
  <2>2. Mapped(pt) = {va \in Va : Entry(pt, va) # Null} /\ TRAPFRAME \in Nat
    BY PXAt DEF Mapped, Va
  <2>3. \A va : va \in U <=> va \in Va /\ Entry(pt, va) # Null /\ va < TRAPFRAME
    BY <1>5, <2>1, <2>2
  <2> QED
    BY <2>3, NullIs
<1> DEFINE R == {Entry(pt, va).pa : va \in U}
<1>7. free' = free \cup also \cup R \cup Tables(pt)
  BY <1>5 DEF FreeImage, Kfree
<1>8. R \subseteq Owned
  BY <1>6, EntryOwned
<1>9. pt \in Tables(pt) /\ Tables(pt) \ {pt} \subseteq Owned
  <2>1. Tables(pt) \subseteq Page /\ pt \in Tables(pt)
    BY <1>1, TablesIs
  <2>2. ASSUME NEW u \in Tables(pt), u # pt PROVE u \in Owned
    <3>1. PICK t \in Tables(pt), i \in Idx : tab[t][i].kind = "table" /\ tab[t][i].pa = u
      BY <1>1, <2>2, TablesIs
    <3> QED
      BY <2>1, <3>1 DEF Owned, Points, Owns
  <2> QED
    BY <2>1, <2>2
<1> DEFINE M == R \cup (Tables(pt) \ {pt})
<1>10. M \in SUBSET Owned
  BY <1>8, <1>9
<1>11. free' = free \cup also \cup M \cup {pt}
  BY <1>7, <1>9
<1>12. pt \notin Owned
  <2> SUFFICES ASSUME pt \in Owned PROVE FALSE
    OBVIOUS
  <2>1. PICK t \in Page, i \in Idx : Points(t, i, pt)
    BY DEF Owned
  <2>2. lev[pt] = 2 /\ EntryOK(lev, t, tab[t][i])
    BY <1>1 DEF Levels, Trees
  <2> QED
    BY <2>1, <2>2 DEF EntryOK, Points, Owns
<1>13. ASSUME NEW u \in Page PROVE u \in Owned' <=> u \in Owned /\ u \notin M
  <2>1. u \in R <=> \E va \in Va : Owns(Entry(pt, va)) /\ Entry(pt, va).pa = u
    BY <1>6
  <2> QED
    BY <1>4, <1>12, <2>1
<1> QED
  BY <1>2, <1>4, <1>10, <1>11, <1>13

\* proc_freepagetable(), and uvmfree() of an image in which nothing is mapped.
LEMMA PagetableFreed ==
  ASSUME Trees, NEW pt \in Images, NEW size \in Nat, NEW tf, NEW also,
         \/ ImageIs(pt, PGROUNDUP(size), tf) /\ ProcFreePagetable(pt, size, also)
         \/ Empty(pt) /\ FreeImage(pt, {}, also),
         Images' = Images \ {pt}
  PROVE  /\ panicked' = FALSE /\ Trees'
         /\ \A qt \in Images, vb \in Va : qt # pt => Entry(qt, vb)' = Entry(qt, vb)
         /\ \E M \in SUBSET Owned :
              /\ free' = free \cup also \cup M \cup {pt}
              /\ \A u \in Page : u \in Owned' <=> u \in Owned /\ u \notin M
<1>1. CASE ImageIs(pt, PGROUNDUP(size), tf) /\ ProcFreePagetable(pt, size, also)
  <2>1. PICK n : n = PGROUNDUP(size)
    OBVIOUS
  <2>2. n \in Nat /\ n <= TRAPFRAME /\ ImageIs(pt, n, tf) /\ TRAPFRAME \in Nat
    BY <1>1, <2>1, PXAt DEF ImageIs
  <2>3. /\ Mapped(pt) = {TRAMPOLINE, TRAPFRAME} \cup 0..(n - 1)
        /\ \A va \in Va : Owns(Entry(pt, va)) <=> va < n
    BY <2>2, ImageMaps
  <2>4. FreeImage(pt, {TRAMPOLINE, TRAPFRAME} \cup 0..(n - 1), also)
    BY <1>1, <2>1 DEF ProcFreePagetable, Image
  <2>5. \A va \in Va : /\ Owns(Entry(pt, va)) => va < TRAPFRAME
                       /\ va < TRAPFRAME => Entry(pt, va) = Null \/ Owns(Entry(pt, va))
    <3>1. \A va \in Va : va \in Nat /\ (Entry(pt, va) = Null <=> n <= va /\ va < TRAPFRAME)
      BY <2>2 DEF ImageIs, Va
    <3> QED
      BY <2>2, <2>3, <3>1
  <2> QED
    BY <2>3, <2>4, <2>5, ImageFreed
<1>2. CASE Empty(pt) /\ FreeImage(pt, {}, also)
  <2>1. Mapped(pt) = {}
    BY <1>2 DEF Mapped, Empty, Va
  <2>2. \A va \in Va : Entry(pt, va) = Null /\ ~Owns(Entry(pt, va))
    BY <1>2, NullIs DEF Empty
  <2> QED
    BY <1>2, <2>1, <2>2, ImageFreed
<1> QED
  BY <1>1, <1>2

\* The entry at one address, whose table exists, is set to e.
LEMMA EntrySet ==
  ASSUME Trees, NEW pt \in Images, NEW va \in Va, Walk(pt, va).level = 0, NEW e \in PTE,
         e.kind \in {"user", "guard"}, tab' = SetEntry(pt, va, e), Images' = Images,
         \/ e.pa \in Loose /\ Entry(pt, va) = Null
         \/ Owns(Entry(pt, va)) /\ e.pa = Entry(pt, va).pa
  PROVE  /\ Trees'
         /\ \A qt \in Images, vb \in Va :
              Entry(qt, vb)' = IF qt = pt /\ vb = va THEN e ELSE Entry(qt, vb)
         /\ \A u \in Page : u \in Owned' <=> u \in Owned \/ u = e.pa
<1> DEFINE f == [x \in {va} |-> e]
<1>1. f[va] = e
  OBVIOUS
<1> HIDE DEF f
<1>2. PICK lev : Levels(lev)
  BY DEF Trees
<1>3. PICK t \in Page, i \in Idx : t = Walk(pt, va).page /\ i = PX(0, va)
  BY EntryAt, PXIs
<1>4. Walk(pt, va) = [page |-> t, level |-> 0] /\ Entry(pt, va) = tab[t][i]
  <2>1. Walk(pt, va) = [page |-> Walk(pt, va).page, level |-> Walk(pt, va).level]
    BY <1>2, WalkIs
  <2> QED
    BY <1>3, <2>1, EntryAt
<1>5. LeavesSet(pt, {va}, f)
  <2>1. tab \in [Page -> [Idx -> PTE]]
    BY DEF Trees
  <2>2. tab' = [tab EXCEPT ![t][i] = e]
    BY <1>3 DEF SetEntry
  <2>3. tab' \in [Page -> [Idx -> PTE]] /\ tab'[t][i] = e
    BY <2>1, <2>2
  <2>4. \A x \in Page, j \in Idx : ~(x = t /\ j = i) => tab'[x][j] = tab[x][j]
    BY <2>1, <2>2
  <2>5. \A x \in Page, j \in Idx : IsLeaf(pt, va, x, j) <=> x = t /\ j = i
    BY <1>3, <1>4 DEF IsLeaf
  <2> QED
    BY <1>1, <1>3, <2>3, <2>4, <2>5 DEF LeavesSet
<1>6. Owns(e) /\ Fits(pt, va, e)
  BY NullIs DEF Fits, Owns
<1>7. {va} \subseteq Va /\ \A x \in {va} : Fits(pt, x, f[x])
  BY <1>1, <1>6
<1>8. \A x, y \in {va} : Owns(f[x]) /\ Owns(f[y]) /\ f[x].pa = f[y].pa => x = y
  OBVIOUS
<1>9. /\ Trees'
      /\ \A u \in Page : u \in Owned' <=>
              \/ /\ u \in Owned
                 /\ \A x \in {va} : ~(Owns(Entry(pt, x)) /\ Entry(pt, x).pa = u)
              \/ \E x \in {va} : Walk(pt, x).level = 0 /\ Owns(f[x]) /\ f[x].pa = u
  BY <1>5, <1>7, <1>8, LeavesTrees
<1>10. \A qt \in Images, vb \in Va :
        Entry(qt, vb)' = IF qt = pt /\ vb \in {va} /\ Walk(pt, vb).level = 0
                             THEN f[vb] ELSE Entry(qt, vb)
  BY <1>5, <1>7, LeavesSeen, ZenonT(40)
<1>11. ASSUME NEW qt \in Images, NEW vb \in Va
       PROVE  Entry(qt, vb)' = IF qt = pt /\ vb = va THEN e ELSE Entry(qt, vb)
  <2>1. CASE vb = va
    BY <1>1, <1>10, <2>1
  <2>2. CASE vb # va
    BY <1>10, <2>2
  <2> QED
    BY <2>1, <2>2
<1>12. ASSUME NEW u \in Page PROVE u \in Owned' <=> u \in Owned \/ u = e.pa
  <2>1. u \in Owned' <=> (u \in Owned /\ ~(Owns(Entry(pt, va)) /\ Entry(pt, va).pa = u)) \/ e.pa = u
    BY <1>1, <1>6, <1>9
  <2>2. Owns(Entry(pt, va)) => e.pa = Entry(pt, va).pa
    BY NullIs
  <2> QED
    BY <2>1, <2>2
<1> QED
  BY <1>9, <1>11, <1>12

\* A page is mapped next above the user memory of an image.
LEMMA PageMapped ==
  ASSUME Trees, NEW pt \in Images, NEW n, NEW tf, ImageIs(pt, n, tf), n < TRAPFRAME,
         Walk(pt, n).level = 0, NEW mem \in Loose, NEW kind \in {"user", "guard"},
         kind = "user" \/ NoGuard(pt), Images' = Images,
         NEW e, e = [pa |-> mem, kind |-> kind], tab' = SetEntry(pt, n, e)
  PROVE  /\ Trees' /\ ImageIs(pt, n + 1, tf)' /\ Entry(pt, n) = Null
         /\ \A qt \in Images, vb \in Va :
              Entry(qt, vb)' = IF qt = pt /\ vb = n THEN e ELSE Entry(qt, vb)
         /\ \A u \in Page : u \in Owned' <=> u \in Owned \/ u = mem
<1>1. /\ n \in Nat /\ TRAPFRAME \in Nat /\ TRAMPOLINE = TRAPFRAME + 1
      /\ TRAMPOLINE \in Va /\ TRAPFRAME \in Va /\ \A va \in Va : va \in Nat
  BY PXAt DEF ImageIs, Va
<1>2. n \in Va /\ Entry(pt, n) = Null
  BY <1>1 DEF ImageIs, Va
<1>4. e \in PTE /\ e.kind = kind /\ e.pa = mem /\ e # Null
  BY NullIs DEF PTE, Loose
<1>5. /\ Trees'
      /\ \A qt \in Images, vb \in Va :
              Entry(qt, vb)' = IF qt = pt /\ vb = n THEN e ELSE Entry(qt, vb)
      /\ \A u \in Page : u \in Owned' <=> u \in Owned \/ u = mem
  BY <1>2, <1>4, EntrySet
<1>6. ImageIs(pt, n + 1, tf)'
  <2>1. \A va \in Va : Entry(pt, va)' = IF va = n THEN e ELSE Entry(pt, va)
    BY <1>5
  <2>2. /\ \A va \in Va : Entry(pt, va) = Null <=> n <= va /\ va < TRAPFRAME
        /\ Entry(pt, TRAMPOLINE).kind = "kernel"
        /\ Entry(pt, TRAPFRAME) = [pa |-> tf, kind |-> "kernel"]
        /\ \A va \in Va : va < n => Entry(pt, va).kind \in {"user", "guard"}
        /\ \A va, vb \in Va : Entry(pt, va).kind = "guard" /\ Entry(pt, vb).kind = "guard" => va = vb
        /\ pt \in Page /\ tf \in Page
    BY DEF ImageIs
  <2>3. \A va \in Va : Entry(pt, va)' = Null <=> n + 1 <= va /\ va < TRAPFRAME
    <3> SUFFICES ASSUME NEW va \in Va
                 PROVE  Entry(pt, va)' = Null <=> n + 1 <= va /\ va < TRAPFRAME
      OBVIOUS
    <3>1. va \in Nat /\ Entry(pt, va)' = IF va = n THEN e ELSE Entry(pt, va)
      BY <1>1, <2>1
    <3>2. Entry(pt, va) = Null <=> n <= va /\ va < TRAPFRAME
      BY <2>2
    <3>3. CASE va = n
      BY <1>1, <1>4, <3>1, <3>3
    <3>4. CASE va # n
      BY <1>1, <3>1, <3>2, <3>4
    <3> QED
      BY <3>3, <3>4
  <2>4. Entry(pt, TRAMPOLINE)' = Entry(pt, TRAMPOLINE) /\ Entry(pt, TRAPFRAME)' = Entry(pt, TRAPFRAME)
    BY <1>1, <2>1
  <2>5. ASSUME NEW va \in Va, va < n + 1 PROVE Entry(pt, va)'.kind \in {"user", "guard"}
    <3>1. va = n \/ (va # n /\ va < n)
      BY <1>1, <2>5
    <3> QED
      BY <1>4, <2>1, <2>2, <3>1
  <2>6. ASSUME NEW va \in Va, NEW vb \in Va, Entry(pt, va)'.kind = "guard",
               Entry(pt, vb)'.kind = "guard"
        PROVE  va = vb
    <3>1. CASE NoGuard(pt)
      BY <2>1, <2>6, <3>1 DEF NoGuard
    <3>2. CASE kind = "user"
      BY <1>4, <2>1, <2>2, <2>6, <3>2
    <3> QED
      BY <3>1, <3>2
  <2>7. n + 1 \in Nat /\ n + 1 <= TRAPFRAME
    BY <1>1
  <2> QED
    BY <2>2, <2>3, <2>4, <2>5, <2>6, <2>7 DEF ImageIs
<1> QED
  BY <1>2, <1>5, <1>6

\* uvmclear(): a page of the user becomes the guard.
LEMMA GuardSet ==
  ASSUME Trees, NEW pt \in Images, NEW n, NEW tf, ImageIs(pt, n, tf), NoGuard(pt),
         NEW va \in Nat, va < n, Images' = Images,
         tab' = SetEntry(pt, va, [Entry(pt, va) EXCEPT !.kind = "guard"])
  PROVE  /\ Trees' /\ ImageIs(pt, n, tf)'
         /\ \A qt \in Images, vb \in Va : qt # pt => Entry(qt, vb)' = Entry(qt, vb)
         /\ \A u \in Page : u \in Owned' <=> u \in Owned
<1>1. /\ n \in Nat /\ n <= TRAPFRAME /\ TRAPFRAME \in Nat /\ TRAMPOLINE = TRAPFRAME + 1
      /\ TRAMPOLINE \in Va /\ TRAPFRAME \in Va /\ \A vb \in Va : vb \in Nat
  BY PXAt DEF ImageIs, Va
<1>2. va \in Va /\ Owns(Entry(pt, va))
  BY ImageMaps
<1>3. Walk(pt, va).level = 0 /\ Entry(pt, va).pa \in Owned /\ Entry(pt, va) \in PTE
  BY <1>2, EntryOwned, EntryAt
<1>4. PICK e : e = [Entry(pt, va) EXCEPT !.kind = "guard"]
  OBVIOUS
<1>5. e \in PTE /\ e.kind = "guard" /\ e.pa = Entry(pt, va).pa /\ e # Null
  <2>1. PICK d \in PTE : d = Entry(pt, va)
    BY <1>3
  <2>2. e = [pa |-> d.pa, kind |-> "guard"]
    BY <1>4, <2>1 DEF PTE
  <2> QED
    BY <2>1, <2>2, NullIs DEF PTE
<1>6. /\ Trees'
      /\ \A qt \in Images, vb \in Va :
              Entry(qt, vb)' = IF qt = pt /\ vb = va THEN e ELSE Entry(qt, vb)
      /\ \A u \in Page : u \in Owned' <=> u \in Owned \/ u = e.pa
  <2>1. tab' = SetEntry(pt, va, e)
    BY <1>4
  <2>2. e.kind \in {"user", "guard"}
    BY <1>5
  <2> QED
    BY <1>2, <1>3, <1>5, <2>1, <2>2, EntrySet
<1>7. ImageIs(pt, n, tf)'
  <2>1. \A vb \in Va : Entry(pt, vb)' = IF vb = va THEN e ELSE Entry(pt, vb)
    BY <1>6
  <2>2. /\ \A vb \in Va : Entry(pt, vb) = Null <=> n <= vb /\ vb < TRAPFRAME
        /\ Entry(pt, TRAMPOLINE).kind = "kernel"
        /\ Entry(pt, TRAPFRAME) = [pa |-> tf, kind |-> "kernel"]
        /\ \A vb \in Va : vb < n => Entry(pt, vb).kind \in {"user", "guard"}
        /\ pt \in Page /\ tf \in Page
    BY DEF ImageIs
  <2>3. \A vb \in Va : Entry(pt, vb)' = Null <=> n <= vb /\ vb < TRAPFRAME
    BY <1>1, <1>5, <2>1, <2>2
  <2>4. Entry(pt, TRAMPOLINE)' = Entry(pt, TRAMPOLINE) /\ Entry(pt, TRAPFRAME)' = Entry(pt, TRAPFRAME)
    BY <1>1, <2>1
  <2>5. \A vb \in Va : vb < n => Entry(pt, vb)'.kind \in {"user", "guard"}
    BY <1>5, <2>1, <2>2
  <2>6. \A vb, vc \in Va : Entry(pt, vb)'.kind = "guard" /\ Entry(pt, vc)'.kind = "guard" => vb = vc
    BY <2>1 DEF NoGuard
  <2> QED
    BY <1>1, <2>2, <2>3, <2>4, <2>5, <2>6 DEF ImageIs
<1> QED
  BY <1>3, <1>5, <1>6, <1>7

\* proc_pagetable(): the trampoline and the trapframe, in an empty image.
LEMMA TopMapped ==
  ASSUME Trees, NEW pt \in Images, Empty(pt), Walk(pt, TRAMPOLINE).level = 0, NEW tf \in Page,
         Images' = Images,
         tab' = [tab EXCEPT
           ![Walk(pt, TRAMPOLINE).page][PX(0, TRAMPOLINE)] = [pa |-> None, kind |-> "kernel"],
           ![Walk(pt, TRAMPOLINE).page][PX(0, TRAPFRAME)] = [pa |-> tf, kind |-> "kernel"]]
  PROVE  /\ Trees' /\ ImageIs(pt, 0, tf)' /\ NoGuard(pt)'
         /\ \A qt \in Images, vb \in Va : qt # pt => Entry(qt, vb)' = Entry(qt, vb)
         /\ \A u \in Page : u \in Owned' <=> u \in Owned
<1> DEFINE S == {TRAMPOLINE, TRAPFRAME}
           ke == [pa |-> None, kind |-> "kernel"]
           kt == [pa |-> tf, kind |-> "kernel"]
           f == [va \in S |-> IF va = TRAMPOLINE THEN ke ELSE kt]
<1>1. /\ TRAPFRAME \in Nat /\ TRAMPOLINE = TRAPFRAME + 1 /\ TRAMPOLINE # TRAPFRAME
      /\ TRAMPOLINE \in Va /\ TRAPFRAME \in Va /\ \A vb \in Va : vb \in Nat
  BY PXAt DEF Va
<1>2. /\ S \subseteq Va /\ f[TRAMPOLINE] = ke /\ f[TRAPFRAME] = kt
      /\ ke \in PTE /\ kt \in PTE /\ ke # Null /\ kt # Null
  BY <1>1, NullIs DEF PTE
<1>3. ke.kind = "kernel" /\ kt.kind = "kernel" /\ ~Owns(ke) /\ ~Owns(kt)
  BY DEF Owns
<1>4. PICK lev : Levels(lev)
  BY DEF Trees
<1>5. Walk(pt, TRAPFRAME) = Walk(pt, TRAMPOLINE)
  <2>1. PX(2, TRAPFRAME) = PX(2, TRAMPOLINE) /\ PX(1, TRAPFRAME) = PX(1, TRAMPOLINE)
    BY PXAt
  <2> QED
    BY <2>1 DEF Walk
<1>6. PICK t \in Page, i \in Idx, j \in Idx :
        t = Walk(pt, TRAMPOLINE).page /\ i = PX(0, TRAMPOLINE) /\ j = PX(0, TRAPFRAME)
  BY <1>1, EntryAt, PXIs
<1>7. i # j
  <2>1. FANOUT - 1 # FANOUT - 2
    BY VmConstants
  <2> QED
    BY <1>6, <2>1, PXAt
<1>8. Walk(pt, TRAMPOLINE) = [page |-> t, level |-> 0]
  <2>1. Walk(pt, TRAMPOLINE) = [page |-> Walk(pt, TRAMPOLINE).page,
                                level |-> Walk(pt, TRAMPOLINE).level]
    BY <1>1, <1>4, WalkIs
  <2> QED
    BY <1>6, <2>1
<1> HIDE DEF ke, kt
<1>9. LeavesSet(pt, S, f)
  <2>1. tab \in [Page -> [Idx -> PTE]]
    BY DEF Trees
  <2>2. PICK r \in [Idx -> PTE] : r = [[tab[t] EXCEPT ![i] = ke] EXCEPT ![j] = kt]
    <3>1. [tab[t] EXCEPT ![i] = ke] \in [Idx -> PTE]
      BY <1>2, <2>1
    <3> QED
      BY <1>2, <3>1
  <2>3. tab' = [tab EXCEPT ![t] = r]
    <3>1. tab' = [tab EXCEPT ![t][i] = ke, ![t][j] = kt]
      BY <1>6 DEF ke, kt
    <3> QED
      BY <2>1, <2>2, <3>1
  <2>4. r[i] = ke /\ r[j] = kt /\ \A k \in Idx : k # i /\ k # j => r[k] = tab[t][k]
    BY <1>7, <2>1, <2>2
  <2>5. tab' \in [Page -> [Idx -> PTE]] /\ tab'[t][i] = ke /\ tab'[t][j] = kt
    BY <1>7, <2>1, <2>3, <2>4
  <2>6. \A x \in Page, k \in Idx : ~(x = t /\ k \in {i, j}) => tab'[x][k] = tab[x][k]
    BY <2>1, <2>3, <2>4
  <2>7. \A x \in Page, k \in Idx : /\ IsLeaf(pt, TRAMPOLINE, x, k) <=> x = t /\ k = i
                                   /\ IsLeaf(pt, TRAPFRAME, x, k) <=> x = t /\ k = j
    BY <1>5, <1>6, <1>8 DEF IsLeaf
  <2>8. \A va \in S : Walk(pt, va).level = 0 => tab'[Walk(pt, va).page][PX(0, va)] = f[va]
    BY <1>2, <1>5, <1>6, <2>5
  <2>9. ASSUME NEW x \in Page, NEW k \in Idx, \A va \in S : ~IsLeaf(pt, va, x, k)
        PROVE  tab'[x][k] = tab[x][k]
    BY <2>6, <2>7, <2>9
  <2> QED
    BY <2>5, <2>8, <2>9 DEF LeavesSet
<1>10. \A va \in S : (f[va] = ke \/ f[va] = kt) /\ ~Owns(f[va]) /\ f[va].kind = "kernel"
  BY <1>2, <1>3
<1> HIDE DEF f
<1>11. /\ \A va \in S : Fits(pt, va, f[va])
       /\ \A va, vb \in S : Owns(f[va]) /\ Owns(f[vb]) /\ f[va].pa = f[vb].pa => va = vb
  BY <1>10 DEF Fits
<1>12. /\ Trees'
       /\ \A u \in Page : u \in Owned' <=>
              \/ /\ u \in Owned
                 /\ \A va \in S : ~(Owns(Entry(pt, va)) /\ Entry(pt, va).pa = u)
              \/ \E va \in S : Walk(pt, va).level = 0 /\ Owns(f[va]) /\ f[va].pa = u
  BY <1>2, <1>9, <1>11, LeavesTrees
<1>13. \A qt \in Images, vb \in Va :
        Entry(qt, vb)' = IF qt = pt /\ vb \in S /\ Walk(pt, vb).level = 0
                             THEN f[vb] ELSE Entry(qt, vb)
  BY <1>2, <1>9, LeavesSeen, ZenonT(40)
<1>14. \A va \in Va : Entry(pt, va) = Null /\ ~Owns(Entry(pt, va))
  BY NullIs DEF Empty
<1>15. \A u \in Page : u \in Owned' <=> u \in Owned
  BY <1>2, <1>10, <1>12, <1>14
<1>16. \A vb \in Va : Entry(pt, vb)' = IF vb = TRAMPOLINE THEN ke
                                       ELSE IF vb = TRAPFRAME THEN kt ELSE Null
  BY <1>2, <1>5, <1>13, <1>14
<1>17. ImageIs(pt, 0, tf)' /\ NoGuard(pt)'
  <2>1. \A va \in Va : Entry(pt, va)' = Null <=> 0 <= va /\ va < TRAPFRAME
    <3>1. \A va \in Va : 0 <= va /\ (va < TRAPFRAME <=> va # TRAPFRAME /\ va # TRAMPOLINE)
      BY <1>1 DEF Va
    <3> QED
      BY <1>2, <1>16, <3>1
  <2>2. Entry(pt, TRAMPOLINE)'.kind = "kernel" /\ Entry(pt, TRAPFRAME)' = [pa |-> tf, kind |-> "kernel"]
    BY <1>1, <1>3, <1>16 DEF kt
  <2>3. \A va \in Va : Entry(pt, va)'.kind # "guard" /\ ~(va < 0)
    <3>1. Null.kind # "guard"
      BY NullIs
    <3> QED
      BY <1>1, <1>3, <1>16, <3>1
  <2>4. pt \in Page /\ 0 \in Nat /\ 0 <= TRAPFRAME
    BY <1>1 DEF Trees
  <2> QED
    BY <2>1, <2>2, <2>3, <2>4 DEF ImageIs, NoGuard
<1> QED
  BY <1>12, <1>13, <1>15, <1>17

-----------------------------------------------------------------------------
(***************************************************************************)
(* What a step leaves alone: other images, other slots and other calls     *)
(* keep their invariants, and a step need only keep the number of holders  *)
(* of each page that it touches.                                           *)
(***************************************************************************)

\* What a step leaves of an image, a slot and a call.
Same(pt) == \A va \in Va : Entry(pt, va)' = Entry(pt, va)
SlotSame(q) == /\ state'[q] = state[q] /\ pagetable'[q] = pagetable[q]
               /\ trapframe'[q] = trapframe[q] /\ sz'[q] = sz[q]
ProcSame(q) == pc'[q] = pc[q] /\ call'[q] = call[q]

\* A page has one holder.
LEMMA OneIs ==
  ASSUME OneHolder, NEW u \in Page, NEW k \in Kinds, NEW l \in Kinds,
         NEW p \in 0..NPROC, NEW q \in 0..NPROC, Holds(k, p, u), Holds(l, q, u)
  PROVE  k = l /\ p = q
BY DEF OneHolder

\* None is not a process.
LEMMA ProcIs == \A p \in Proc : p \in 0..NPROC /\ p # None /\ None \in 0..NPROC
BY VmConstants DEF Proc, None

\* The types of the local variables of a call.
LEMMA CallIs ==
  ASSUME Typed, NEW p \in Proc
  PROVE  /\ call[p] \in CallRec /\ pc[p] \in Labels /\ pagetable[p] \in Page \cup {None}
         /\ trapframe[p] \in Page \cup {None} /\ sz[p] \in Nat /\ sz[p] <= MaxSz
         /\ call[p].np \in 0..NPROC /\ call[p].pt \in Page \cup {None}
         /\ call[p].size \in Nat /\ call[p].args \subseteq Page /\ call[p].segs \in 0..MaxSegs
         /\ call[p].mem \in Page \cup {None} /\ call[p].base \in Nat /\ call[p].va \in Nat
         /\ call[p].end \in Nat
<1>1. call[p] \in CallRec /\ pc[p] \in Labels /\ pagetable[p] \in Page \cup {None}
      /\ trapframe[p] \in Page \cup {None} /\ sz[p] \in 0..MaxSz
  BY DEF Typed
<1>2. sz[p] \in Nat /\ sz[p] <= MaxSz
  BY <1>1, VmConstants
<1> QED
  BY <1>1, <1>2 DEF CallRec

\* Each page has one holder: so images are in one place.
LEMMA RootsApart ==
  ASSUME Typed, OneHolder, NEW p \in Proc, NEW q \in Proc
  PROVE  /\ pagetable[p] # None /\ pagetable[p] = pagetable[q] => p = q
         /\ pc[p] \in NewLabels /\ call[p].pt # None => call[p].pt # pagetable[q]
         /\ pc[p] \in NewLabels /\ pc[q] \in NewLabels /\ call[p].pt # None
              /\ call[p].pt = call[q].pt => p = q
<1>1. p \in 0..NPROC /\ q \in 0..NPROC
  BY ProcIs
<1>2. ASSUME pagetable[p] # None, pagetable[p] = pagetable[q] PROVE p = q
  <2>1. PICK u \in Page : u = pagetable[p]
    BY <1>2, CallIs
  <2>2. Holds("root", p, u) /\ Holds("root", q, u) /\ "root" \in Kinds
    BY <1>2, <2>1 DEF Holds, Kinds
  <2> QED
    BY <1>1, <2>2, OneIs
<1>3. ASSUME pc[p] \in NewLabels, call[p].pt # None, call[p].pt = pagetable[q] PROVE FALSE
  <2>1. PICK u \in Page : u = call[p].pt
    BY <1>3, CallIs
  <2>2. Holds("new", p, u) /\ Holds("root", q, u) /\ "root" \in Kinds /\ "new" \in Kinds
    BY <1>3, <2>1 DEF Holds, Kinds
  <2> QED
    BY <1>1, <2>2, OneIs
<1>4. ASSUME pc[p] \in NewLabels, pc[q] \in NewLabels, call[p].pt # None,
             call[p].pt = call[q].pt
      PROVE  p = q
  <2>1. PICK u \in Page : u = call[p].pt
    BY <1>4, CallIs
  <2>2. Holds("new", p, u) /\ Holds("new", q, u) /\ "new" \in Kinds
    BY <1>4, <2>1 DEF Holds, Kinds
  <2> QED
    BY <1>1, <2>2, OneIs
<1> QED
  BY <1>2, <1>3, <1>4

\* Where the image that a call works on is.
LEMMA CallImage ==
  ASSUME IInv, NEW p \in Proc, call[p].pt # None
  PROVE  \/ pc[p] \in NewLabels
         \/ /\ pc[p] \in {"copy", "copy_map", "fork_bad"} /\ call[p].np \in Proc
            /\ call[p].pt = pagetable[call[p].np]
         \/ pc[p] \in SbrkLabels /\ call[p].pt = pagetable[p]
<1>1. CallOK(p) /\ pc[p] \in Labels
  BY CallIs DEF IInv
<1>2. CASE pc[p] = "user"
  BY <1>1, <1>2 DEF CallOK, NoCall
<1>3. CASE pc[p] \in ForkLabels
  BY <1>1, <1>3 DEF CallOK, ForkOK, ForkLabels, NewLabels
<1>4. CASE pc[p] \in SbrkLabels
  BY <1>1, <1>4 DEF CallOK, SbrkOK
<1>5. CASE pc[p] \in ExecLabels
  <2>1. pc[p] \in {"args", "exec_root"} => call[p].pt = None
    BY <1>1, <1>5 DEF CallOK, ExecOK
  <2> QED
    BY <1>5, <2>1 DEF ExecLabels, NewLabels
<1> QED
  BY <1>1, <1>2, <1>3, <1>4, <1>5 DEF Labels, ForkLabels, SbrkLabels, ExecLabels, LoadLabels

\* Images are those of processes and calls, and each is held as a root.
LEMMA ImagesIs ==
  ASSUME IInv
  PROVE  /\ \A u : u \in Images <=> u # None /\ \E p \in Proc : u = pagetable[p] \/ u = call[p].pt
         /\ \A u \in Images : u \in Page /\ \E p \in Proc : Holds("root", p, u) \/ Holds("new", p, u)
<1>1. \A u : u \in Images <=> u # None /\ \E p \in Proc : u = pagetable[p] \/ u = call[p].pt
  BY DEF Images
<1>2. ASSUME NEW u \in Images
      PROVE  u \in Page /\ \E p \in Proc : Holds("root", p, u) \/ Holds("new", p, u)
  <2>1. PICK p \in Proc : u # None /\ (u = pagetable[p] \/ u = call[p].pt)
    BY <1>1
  <2>2. u \in Page
    BY <2>1, CallIs DEF IInv
  <2>3. CASE u = pagetable[p]
    BY <2>2, <2>3 DEF Holds
  <2>4. CASE u = call[p].pt
    <3>1. CASE pc[p] \in NewLabels
      BY <2>2, <2>4, <3>1 DEF Holds
    <3>2. CASE pc[p] \notin NewLabels
      <4>1. \E q \in Proc : u = pagetable[q]
        BY <2>1, <2>4, <3>2, CallImage
      <4> QED
        BY <2>2, <4>1 DEF Holds
    <3> QED
      BY <3>1, <3>2
  <2> QED
    BY <2>1, <2>2, <2>3, <2>4
<1> QED
  BY <1>1, <1>2

\* Free pages, and pages that a call has not mapped yet, are in no image.
LEMMA LooseHeld ==
  ASSUME IInv
  PROVE  /\ \A u \in free : u \in Loose /\ u \in Page
         /\ \A p \in Proc : call[p].mem # None => call[p].mem \in Loose
<1>1. ASSUME NEW u \in Page, NEW k \in {"free", "mem"}, NEW q \in 0..NPROC, Holds(k, q, u)
      PROVE  u \in Loose
  <2>1. OneHolder /\ {"owned", "root", "new", "free", "mem"} \subseteq Kinds /\ k \in Kinds
    BY DEF IInv, Kinds
  <2>2. u \notin Owned
    <3> SUFFICES ASSUME u \in Owned PROVE FALSE
      OBVIOUS
    <3>1. Holds("owned", None, u) /\ None \in 0..NPROC
      BY VmConstants DEF Holds, None
    <3>2. k = "owned"
      BY <1>1, <2>1, <3>1, OneIs
    <3> QED
      BY <3>2
  <2>3. u \notin Images
    <3> SUFFICES ASSUME u \in Images PROVE FALSE
      OBVIOUS
    <3>1. PICK p \in Proc : Holds("root", p, u) \/ Holds("new", p, u)
      BY ImagesIs
    <3>2. p \in 0..NPROC
      BY ProcIs
    <3>3. k = "root" \/ k = "new"
      BY <1>1, <2>1, <3>1, <3>2, OneIs
    <3> QED
      BY <3>3
  <2> QED
    BY <2>2, <2>3 DEF Loose
<1>2. ASSUME NEW u \in free PROVE u \in Loose /\ u \in Page
  <2>1. u \in Page
    BY DEF IInv, Typed
  <2>2. Holds("free", None, u) /\ None \in 0..NPROC
    BY VmConstants DEF Holds, None
  <2> QED
    BY <1>1, <2>1, <2>2
<1>3. ASSUME NEW p \in Proc, call[p].mem # None PROVE call[p].mem \in Loose
  <2>1. PICK u \in Page : u = call[p].mem
    BY <1>3, CallIs DEF IInv
  <2>2. Holds("mem", p, u) /\ p \in 0..NPROC
    BY <2>1, ProcIs DEF Holds
  <2> QED
    BY <1>1, <2>1, <2>2
<1> QED
  BY <1>2, <1>3

\* How many of the holders that a step of p and of the slot r may change hold u.
N(b) == IF b THEN 1 ELSE 0
Count(p, r, u) ==
  N(u \in free) + N(u \in Owned) + N(u = trapframe[p]) + N(u \in call[p].args)
    + N(u = call[p].mem) + N(u = pagetable[p]) + N(pc[p] \in NewLabels /\ u = call[p].pt)
    + (IF r = p THEN 0 ELSE N(u = trapframe[r]) + N(u = pagetable[r]))

\* At most one of the holders that are counted holds the page.
LEMMA AtMost ==
  ASSUME OneHolder, NEW p \in Proc, NEW r \in Proc, NEW u \in Page
  PROVE  /\ Count(p, r, u) \in {0, 1}
         /\ \E k \in Kinds, x \in 0..NPROC :
              /\ \A l \in Kinds, q \in 0..NPROC : Holds(l, q, u) <=> l = k /\ q = x
              /\ Count(p, r, u) = 1 <=> \/ k \in {"free", "owned"}
                                        \/ k \in {"trapframe", "root"} /\ x \in {p, r}
                                        \/ k \in {"argv", "mem", "new"} /\ x = p
<1>1. PICK k \in Kinds, x \in 0..NPROC :
        \A l \in Kinds, q \in 0..NPROC : Holds(l, q, u) <=> l = k /\ q = x
  BY DEF OneHolder
<1>2. p \in 0..NPROC /\ r \in 0..NPROC /\ None \in 0..NPROC /\ p # None /\ r # None
  BY ProcIs
<1>3. /\ u \in free <=> k = "free" /\ x = None
      /\ u \in Owned <=> k = "owned" /\ x = None
      /\ u = trapframe[p] <=> k = "trapframe" /\ x = p
      /\ u \in call[p].args <=> k = "argv" /\ x = p
      /\ u = call[p].mem <=> k = "mem" /\ x = p
      /\ u = pagetable[p] <=> k = "root" /\ x = p
      /\ (pc[p] \in NewLabels /\ u = call[p].pt) <=> k = "new" /\ x = p
      /\ u = trapframe[r] <=> k = "trapframe" /\ x = r
      /\ u = pagetable[r] <=> k = "root" /\ x = r
  <2>1. /\ Holds("free", None, u) <=> u \in free
        /\ Holds("owned", None, u) <=> u \in Owned
        /\ Holds("trapframe", p, u) <=> u = trapframe[p]
        /\ Holds("argv", p, u) <=> u \in call[p].args
        /\ Holds("mem", p, u) <=> u = call[p].mem
        /\ Holds("root", p, u) <=> u = pagetable[p]
        /\ Holds("new", p, u) <=> (pc[p] \in NewLabels /\ u = call[p].pt)
        /\ Holds("trapframe", r, u) <=> u = trapframe[r]
        /\ Holds("root", r, u) <=> u = pagetable[r]
    BY DEF Holds
  <2>2. {"free", "owned", "trapframe", "argv", "mem", "root", "new"} \subseteq Kinds
    BY DEF Kinds
  <2> QED
    BY <1>1, <1>2, <2>1, <2>2
<1>4. x = None <=> k \in {"free", "owned"}
  <2>1. Holds(k, x, u)
    BY <1>1
  <2> QED
    BY <1>1, <1>2, <2>1, ProcIs DEF Holds, Kinds
<1>5. /\ Count(p, r, u) \in {0, 1}
      /\ Count(p, r, u) = 1 <=> \/ k \in {"free", "owned"}
                                \/ k \in {"trapframe", "root"} /\ x \in {p, r}
                                \/ k \in {"argv", "mem", "new"} /\ x = p
  BY <1>1, <1>2, <1>3, <1>4 DEF Count, N, Kinds
<1> QED
  BY <1>1, <1>5

\* So when the count stays, every page still has one holder.
LEMMA Counted ==
  ASSUME OneHolder, NEW p \in Proc, NEW r \in Proc,
         \A q \in Proc : q \notin {p, r} => SlotSame(q),
         \A q \in Proc : q # p => ProcSame(q),
         \A u \in Page : Count(p, r, u)' = Count(p, r, u)
  PROVE  OneHolder'
<1> SUFFICES ASSUME NEW u \in Page
             PROVE  \E k \in Kinds, x \in 0..NPROC :
                      \A l \in Kinds, q \in 0..NPROC : Holds(l, q, u)' <=> l = k /\ q = x
  BY DEF OneHolder
<1> DEFINE Near(k, x) == \/ k \in {"free", "owned"}
                         \/ k \in {"trapframe", "root"} /\ x \in {p, r}
                         \/ k \in {"argv", "mem", "new"} /\ x = p
<1>1. PICK k \in Kinds, x \in 0..NPROC :
        /\ \A l \in Kinds, q \in 0..NPROC : Holds(l, q, u) <=> l = k /\ q = x
        /\ Count(p, r, u) = 1 <=> Near(k, x)
  BY AtMost
<1>2. Count(p, r, u) \in {0, 1} /\ Count(p, r, u)' = Count(p, r, u)
  BY AtMost
<1>3. \A l \in Kinds, q \in 0..NPROC : ~Near(l, q) => (Holds(l, q, u)' <=> Holds(l, q, u))
  BY DEF Holds, Kinds, SlotSame, ProcSame
<1>4. p # None /\ r # None /\ p \in 0..NPROC /\ r \in 0..NPROC /\ None \in 0..NPROC
  BY ProcIs
<1>5. PICK F, O, a, t, m, pt, tr, pr :
        /\ F = free' /\ O = Owned' /\ a = call'[p].args /\ t = trapframe'[p] /\ m = call'[p].mem
        /\ pt = pagetable'[p] /\ tr = trapframe'[r] /\ pr = pagetable'[r]
  OBVIOUS
<1>6. PICK w : w = IF pc'[p] \in NewLabels THEN call'[p].pt ELSE None
  OBVIOUS
<1>7. u # None
  BY VmConstants
<1>8. Count(p, r, u)' = N(u \in F) + N(u \in O) + N(u = t) + N(u \in a) + N(u = m)
                          + N(u = pt) + N(u = w)
                          + (IF r = p THEN 0 ELSE N(u = tr) + N(u = pr))
  <2>1. (pc'[p] \in NewLabels /\ u = call'[p].pt) <=> u = w
    BY <1>6, <1>7
  <2>2. N(pc'[p] \in NewLabels /\ u = call'[p].pt) = N(u = w)
    BY <2>1 DEF N
  <2> QED
    BY <1>5, <2>2 DEF Count
<1> DEFINE Table(l, q) == \/ l = "free" /\ q = None /\ u \in F
                          \/ l = "owned" /\ q = None /\ u \in O
                          \/ l = "trapframe" /\ q = p /\ u = t
                          \/ l = "argv" /\ q = p /\ u \in a
                          \/ l = "mem" /\ q = p /\ u = m
                          \/ l = "root" /\ q = p /\ u = pt
                          \/ l = "new" /\ q = p /\ u = w
                          \/ l = "trapframe" /\ q = r /\ u = tr
                          \/ l = "root" /\ q = r /\ u = pr
<1>9. \A l \in Kinds, q \in 0..NPROC : Near(l, q) => (Holds(l, q, u)' <=> Table(l, q))
  <2> SUFFICES ASSUME NEW l \in Kinds, NEW q \in 0..NPROC, Near(l, q)
               PROVE  Holds(l, q, u)' <=> Table(l, q)
    OBVIOUS
  <2>1. CASE l = "free"
    BY <1>5, <2>1 DEF Holds
  <2>2. CASE l = "owned"
    BY <1>5, <2>2 DEF Holds
  <2>3. CASE l = "trapframe"
    BY <1>5, <2>3 DEF Holds
  <2>4. CASE l = "root"
    BY <1>5, <2>4 DEF Holds
  <2>5. CASE l = "argv"
    BY <1>5, <2>5 DEF Holds
  <2>6. CASE l = "mem"
    BY <1>5, <2>6 DEF Holds
  <2>7. CASE l = "new"
    BY <1>5, <1>6, <1>7, <2>7 DEF Holds
  <2>8. l \in {"free", "owned", "trapframe", "argv", "mem", "root", "new"}
    BY DEF Kinds
  <2> HIDE DEF Table, Near
  <2> QED
    BY <2>1, <2>2, <2>3, <2>4, <2>5, <2>6, <2>7, <2>8
<1>10. CASE Count(p, r, u)' = 0
  <2>1. /\ u \notin F /\ u \notin O /\ u # t /\ u \notin a /\ u # m /\ u # pt /\ u # w
        /\ u # tr /\ u # pr
    <3>1. (pr = pt /\ tr = t) \/ r # p
      BY <1>5
    <3> QED
      BY <1>8, <1>10, <3>1 DEF N
  <2>2. ~Near(k, x)
    BY <1>1, <1>2, <1>10
  <2>3. \A l \in Kinds, q \in 0..NPROC : Near(l, q) => ~Holds(l, q, u)'
    BY <1>9, <2>1
  <2> HIDE DEF Near
  <2>4. \A l \in Kinds, q \in 0..NPROC : Holds(l, q, u)' <=> l = k /\ q = x
    BY <1>1, <1>3, <2>2, <2>3
  <2> QED
    BY <2>4
<1>11. CASE Count(p, r, u)' = 1
  <2> DEFINE Only(l, q) == \A l2 \in Kinds, q2 \in 0..NPROC : Near(l2, q2) =>
                             (Holds(l2, q2, u)' <=> l2 = l /\ q2 = q)
  <2>1. \E l \in Kinds, q \in 0..NPROC : Near(l, q) /\ Only(l, q)
    <3>1. r = p => pr = pt /\ tr = t
      BY <1>5
    <3>2. CASE u \in F
      <4>1. u \notin O /\ u # t /\ u \notin a /\ u # m /\ u # pt /\ u # w /\ u # tr /\ u # pr
        BY <1>8, <1>11, <3>1, <3>2 DEF N
      <4>2. Near("free", None) /\ Only("free", None)
        BY <1>9, <3>2, <4>1
      <4> QED
        BY <1>4, <4>2 DEF Kinds
    <3>3. CASE u \in O
      <4>1. u \notin F /\ u # t /\ u \notin a /\ u # m /\ u # pt /\ u # w /\ u # tr /\ u # pr
        BY <1>8, <1>11, <3>1, <3>3 DEF N
      <4>2. Near("owned", None) /\ Only("owned", None)
        BY <1>9, <3>3, <4>1
      <4> QED
        BY <1>4, <4>2 DEF Kinds
    <3>4. CASE u = t
      <4>1. u \notin F /\ u \notin O /\ u \notin a /\ u # m /\ u # pt /\ u # w
            /\ (r # p => u # tr) /\ u # pr
        BY <1>8, <1>11, <3>1, <3>4 DEF N
      <4>2. Near("trapframe", p) /\ Only("trapframe", p)
        BY <1>9, <3>4, <4>1
      <4> QED
        BY <1>4, <4>2 DEF Kinds
    <3>5. CASE u \in a
      <4>1. u \notin F /\ u # t /\ u \notin O /\ u # m /\ u # pt /\ u # w /\ u # tr /\ u # pr
        BY <1>8, <1>11, <3>1, <3>5 DEF N
      <4>2. Near("argv", p) /\ Only("argv", p)
        BY <1>9, <3>5, <4>1
      <4> QED
        BY <1>4, <4>2 DEF Kinds
    <3>6. CASE u = m
      <4>1. u \notin F /\ u # t /\ u \notin O /\ u \notin a /\ u # pt /\ u # w /\ u # tr /\ u # pr
        BY <1>8, <1>11, <3>1, <3>6 DEF N
      <4>2. Near("mem", p) /\ Only("mem", p)
        BY <1>9, <3>6, <4>1
      <4> QED
        BY <1>4, <4>2 DEF Kinds
    <3>7. CASE u = pt
      <4>1. u \notin F /\ u \notin O /\ u # t /\ u \notin a /\ u # m /\ u # w /\ u # tr
            /\ (r # p => u # pr)
        BY <1>8, <1>11, <3>1, <3>7 DEF N
      <4>2. Near("root", p) /\ Only("root", p)
        BY <1>9, <3>7, <4>1
      <4> QED
        BY <1>4, <4>2 DEF Kinds
    <3>8. CASE u = w
      <4>1. u \notin F /\ u # t /\ u \notin O /\ u \notin a /\ u # pt /\ u # m /\ u # tr /\ u # pr
        BY <1>8, <1>11, <3>1, <3>8 DEF N
      <4>2. Near("new", p) /\ Only("new", p)
        BY <1>9, <3>8, <4>1
      <4> QED
        BY <1>4, <4>2 DEF Kinds
    <3>9. CASE r # p /\ u = tr
      <4>1. u \notin F /\ u # t /\ u \notin O /\ u \notin a /\ u # pt /\ u # m /\ u # w /\ u # pr
        BY <1>8, <1>11, <3>9 DEF N
      <4>2. Near("trapframe", r) /\ Only("trapframe", r)
        BY <1>9, <3>9, <4>1
      <4> QED
        BY <1>4, <4>2 DEF Kinds
    <3>10. CASE r # p /\ u = pr
      <4>1. u \notin F /\ u # t /\ u \notin O /\ u \notin a /\ u # pt /\ u # m /\ u # w /\ u # tr
        BY <1>8, <1>11, <3>10 DEF N
      <4>2. Near("root", r) /\ Only("root", r)
        BY <1>9, <3>10, <4>1
      <4> QED
        BY <1>4, <4>2 DEF Kinds
    <3>11. \/ u \in F \/ u \in O \/ u = t \/ u \in a \/ u = m \/ u = pt \/ u = w
           \/ r # p /\ u = tr
           \/ r # p /\ u = pr
      <4> SUFFICES ASSUME u \notin F, u \notin O, u # t, u \notin a, u # m, u # pt, u # w,
                          r # p => u # tr, r # p => u # pr
                   PROVE  FALSE
        OBVIOUS
      <4>1. N(u \in F) = 0 /\ N(u \in O) = 0 /\ N(u = t) = 0 /\ N(u \in a) = 0 /\ N(u = m) = 0
            /\ N(u = pt) = 0 /\ N(u = w) = 0 /\ (r # p => N(u = tr) = 0 /\ N(u = pr) = 0)
        BY DEF N
      <4>2. Count(p, r, u)' = 0
        BY <1>8, <4>1
      <4> QED
        BY <1>11, <4>2
    <3> QED
      BY <3>2, <3>3, <3>4, <3>5, <3>6, <3>7, <3>8, <3>9, <3>10, <3>11
  <2>2. PICK l \in Kinds, q \in 0..NPROC : Near(l, q) /\ Only(l, q)
    BY <2>1
  <2>3. Near(k, x)
    BY <1>1, <1>2, <1>11
  <2>4. \A l2 \in Kinds, q2 \in 0..NPROC : ~Near(l2, q2) => ~Holds(l2, q2, u)'
    BY <1>1, <1>3, <2>3
  <2> HIDE DEF Near
  <2>5. \A l2 \in Kinds, q2 \in 0..NPROC : Holds(l2, q2, u)' <=> l2 = l /\ q2 = q
    BY <2>2, <2>4
  <2> QED
    BY <2>5
<1> QED
  BY <1>2, <1>10, <1>11

\* An image that a step leaves alone is what it was.
LEMMA ImageSame ==
  ASSUME NEW pt, Same(pt)
  PROVE  /\ \A n, tf : ImageIs(pt, n, tf) => ImageIs(pt, n, tf)'
         /\ Empty(pt) => Empty(pt)'
         /\ NoGuard(pt) => NoGuard(pt)'
<1>1. TRAMPOLINE \in Va /\ TRAPFRAME \in Va
  BY PXAt
<1>2. \A va \in Va : Entry(pt, va)' = Entry(pt, va)
  BY DEF Same
<1>3. ASSUME NEW n, NEW tf, ImageIs(pt, n, tf) PROVE ImageIs(pt, n, tf)'
  <2>1. Entry(pt, TRAMPOLINE)' = Entry(pt, TRAMPOLINE) /\ Entry(pt, TRAPFRAME)' = Entry(pt, TRAPFRAME)
    BY <1>1, <1>2
  <2> QED
    BY <1>2, <1>3, <2>1 DEF ImageIs
<1>4. Empty(pt) => Empty(pt)'
  BY <1>2 DEF Empty
<1>5. NoGuard(pt) => NoGuard(pt)'
  BY <1>2 DEF NoGuard
<1> QED
  BY <1>3, <1>4, <1>5

\* A slot that a step leaves alone.
LEMMA SlotFrame ==
  ASSUME NEW q \in Proc, SlotOK(q), SlotSame(q), pagetable[q] # None => Same(pagetable[q]),
         pc'[q] # "user" => state[q] = "live",
         pc'[q] \notin SbrkLabels => pc[q] \notin SbrkLabels
  PROVE  SlotOK(q)'
<1>1. PICK pt, tf, s, z : pt = pagetable[q] /\ tf = trapframe[q] /\ s = state[q] /\ z = sz[q]
  OBVIOUS
<1>2. pagetable'[q] = pt /\ trapframe'[q] = tf /\ state'[q] = s /\ sz'[q] = z
  BY <1>1 DEF SlotSame
<1>3. /\ s = "unused" => pt = None /\ tf = None
      /\ s \in {"unused", "used"} => z = 0
      /\ s = "used" => pt = None \/ \E n \in Nat : ImageIs(pt, n, tf)
      /\ s \in {"live", "zombie"} =>
           /\ tf \in Page /\ pt \in Page
           /\ pc[q] \notin SbrkLabels => ImageIs(pt, PGROUNDUP(z), tf)
  BY <1>1 DEF SlotOK
<1>4. ASSUME NEW n, pt # None, ImageIs(pt, n, tf) PROVE ImageIs(pt, n, tf)'
  BY <1>1, <1>4, ImageSame
<1>5. s = "used" => pt = None \/ \E n \in Nat : ImageIs(pt, n, tf)'
  BY <1>3, <1>4
<1>6. s \in {"live", "zombie"} /\ pc'[q] \notin SbrkLabels => ImageIs(pt, PGROUNDUP(z), tf)'
  <2> SUFFICES ASSUME s \in {"live", "zombie"}, pc'[q] \notin SbrkLabels
               PROVE  ImageIs(pt, PGROUNDUP(z), tf)'
    OBVIOUS
  <2>1. pt \in Page /\ ImageIs(pt, PGROUNDUP(z), tf)
    BY <1>3
  <2> QED
    BY <1>4, <2>1, VmConstants
<1> QED
  BY <1>1, <1>2, <1>3, <1>5, <1>6 DEF SlotOK

\* A call that a step leaves alone.
LEMMA CallFrame ==
  ASSUME Typed, NEW q \in Proc, CallOK(q), SlotOK(q), ProcSame(q), SlotSame(q),
         pagetable[q] # None => Same(pagetable[q]),
         call[q].pt # None => Same(call[q].pt),
         pc[q] \in ForkLabels =>
           /\ state'[call[q].np] = state[call[q].np]
           /\ pagetable'[call[q].np] = pagetable[call[q].np]
           /\ trapframe'[call[q].np] = trapframe[call[q].np]
           /\ \A r \in Proc : pc'[r] \in ForkLabels /\ call'[r].np = call[q].np => r = q
  PROVE  CallOK(q)'
<1>1. PICK c, L : c = call[q] /\ L = pc[q]
  OBVIOUS
<1>2. call'[q] = c /\ pc'[q] = L
  BY <1>1 DEF ProcSame
<1>3. PICK pt, tf, z : pt = pagetable[q] /\ tf = trapframe[q] /\ z = sz[q]
  OBVIOUS
<1>4. pagetable'[q] = pt /\ trapframe'[q] = tf /\ sz'[q] = z
  BY <1>3 DEF SlotSame
<1>5. /\ c.pt \in Page \cup {None} /\ pt \in Page \cup {None}
      /\ pc[q] # "user" => state[q] = "live" /\ pt \in Page
  BY <1>1, <1>3, CallIs DEF SlotOK
<1>6. None \notin Page
  BY VmConstants
<1>7. /\ c.pt # None => (\A n, x : ImageIs(c.pt, n, x) => ImageIs(c.pt, n, x)')
                        /\ (Empty(c.pt) => Empty(c.pt)') /\ (NoGuard(c.pt) => NoGuard(c.pt)')
                        /\ \A va \in Va : Entry(c.pt, va)' = Entry(c.pt, va)
      /\ pt # None => \A va \in Va : Entry(pt, va)' = Entry(pt, va)
  <2>1. ASSUME c.pt # None
        PROVE  /\ \A n, x : ImageIs(c.pt, n, x) => ImageIs(c.pt, n, x)'
               /\ Empty(c.pt) => Empty(c.pt)'
               /\ NoGuard(c.pt) => NoGuard(c.pt)'
               /\ \A va \in Va : Entry(c.pt, va)' = Entry(c.pt, va)
    <3>1. PICK cp : cp = c.pt
      OBVIOUS
    <3>2. Same(cp)
      BY <1>1, <2>1, <3>1
    <3>3. \A va \in Va : Entry(cp, va)' = Entry(cp, va)
      BY <3>2 DEF Same
    <3> QED
      BY <3>1, <3>2, <3>3, ImageSame
  <2>2. pt # None => Same(pt)
    BY <1>3
  <2>3. pt # None => \A va \in Va : Entry(pt, va)' = Entry(pt, va)
    BY <2>2 DEF Same
  <2> QED
    BY <2>1, <2>3
<1>8. \A n, x : ImageIs(c.pt, n, x) => ImageIs(c.pt, n, x)'
  BY <1>6, <1>7 DEF ImageIs
<1>9. Empty(c.pt) => Empty(c.pt)'
  BY <1>6, <1>7 DEF Empty
<1>10. ASSUME L \in ForkLabels PROVE ForkOK(q, c)'
  <2>1. ForkOK(q, c)
    BY <1>1, <1>10 DEF CallOK
  <2>2. PICK np \in Proc : np = c.np
    BY <2>1 DEF ForkOK
  <2>3. PICK npt, ntf : npt = pagetable[np] /\ ntf = trapframe[np]
    OBVIOUS
  <2>4. pagetable'[np] = npt /\ trapframe'[np] = ntf /\ state'[np] = "used"
    BY <1>1, <1>10, <2>1, <2>2, <2>3 DEF ForkOK
  <2>5. \A r \in Proc : pc'[r] \in ForkLabels /\ call'[r].np = np => r = q
    BY <1>1, <1>10, <2>2
  <2>6. /\ L \in {"trapframe", "fork_root", "fork_tramp"} =>
            /\ npt = None /\ c.base = 0 /\ c.va = 0
            /\ L # "fork_tramp" => c.pt = None
        /\ L = "trapframe" => ntf = None
        /\ L \in {"fork_root", "fork_tramp"} => ntf \in Page
        /\ L = "fork_tramp" => Empty(c.pt)
        /\ L \in {"copy", "copy_map"} =>
            /\ c.pt = npt /\ c.base = 0 /\ c.end = z
            /\ Mapping(c, L)
            /\ ImageIs(c.pt, c.va, ntf)
            /\ \A va \in Va : va < c.va => Entry(c.pt, va).kind = Entry(pt, va).kind
        /\ L = "fork_bad" =>
            /\ c.pt = npt
            /\ c.pt # None => ImageIs(c.pt, 0, ntf)
    BY <1>1, <1>3, <2>1, <2>2, <2>3 DEF ForkOK
  <2>7. L \in {"copy", "copy_map"} =>
          \A va \in Va : va < c.va => Entry(c.pt, va)'.kind = Entry(pt, va)'.kind
    <3>1. ASSUME L \in {"copy", "copy_map"} PROVE c.pt # None /\ pt # None
      BY <1>1, <1>5, <1>6, <2>6, <3>1 DEF ImageIs
    <3> QED
      BY <1>7, <2>6, <3>1
  <2>8. L = "fork_tramp" => Empty(c.pt)'
    BY <1>9, <2>6
  <2>9. L \in {"copy", "copy_map"} => ImageIs(c.pt, c.va, ntf)'
    BY <1>8, <2>6
  <2>10. L = "fork_bad" /\ c.pt # None => ImageIs(c.pt, 0, ntf)'
    BY <1>8, <2>6
  <2> QED
    BY <1>2, <1>4, <2>2, <2>4, <2>5, <2>6, <2>7, <2>8, <2>9, <2>10 DEF ForkOK
<1>11. ASSUME L \in SbrkLabels PROVE SbrkOK(q, c)'
  <2>1. /\ c.pt = pt /\ c.base = PGROUNDUP(z) /\ z <= c.end
        /\ Mapping(c, L) /\ ImageIs(c.pt, c.va, tf)
    BY <1>1, <1>3, <1>11 DEF CallOK, SbrkOK
  <2>2. ImageIs(c.pt, c.va, tf)'
    BY <1>8, <2>1
  <2> QED
    BY <1>2, <1>4, <2>1, <2>2 DEF SbrkOK
<1>12. ASSUME L \in ExecLabels PROVE ExecOK(q, c)'
  <2>1. /\ L \in {"args", "exec_root"} => c.pt = None
        /\ L \in {"args", "exec_root", "exec_tramp"} => c.size = 0
        /\ L = "exec_tramp" => Empty(c.pt)
        /\ L = "load" => ImageIs(c.pt, PGROUNDUP(c.size), tf)
        /\ L \in {"load", "seg", "seg_map"} => c.size + 3 * PGSIZE <= MaxSz
        /\ L \in {"load", "seg", "seg_map", "stack", "stack_map"} => NoGuard(c.pt)
        /\ L \in {"seg", "seg_map", "stack", "stack_map"} =>
             /\ c.base = PGROUNDUP(c.size) /\ c.size <= c.end
             /\ Mapping(c, L)
             /\ ImageIs(c.pt, c.va, tf)
        /\ L \in {"seg", "seg_map"} => c.end + 3 * PGSIZE <= MaxSz /\ c.segs < MaxSegs
        /\ L \in {"stack", "stack_map"} => PGROUNDUP(c.end) = c.base + 2
        /\ L = "push" => c.size <= MaxSz /\ ImageIs(c.pt, PGROUNDUP(c.size), tf)
        /\ L = "exec_bad" => c.pt = None \/ ImageIs(c.pt, PGROUNDUP(c.size), tf)
    BY <1>1, <1>3, <1>12 DEF CallOK, ExecOK
  <2>2. /\ L = "exec_tramp" => Empty(c.pt)'
        /\ L \in {"load", "push"} => ImageIs(c.pt, PGROUNDUP(c.size), tf)'
        /\ L \in {"seg", "seg_map", "stack", "stack_map"} => ImageIs(c.pt, c.va, tf)'
        /\ L = "exec_bad" => c.pt = None \/ ImageIs(c.pt, PGROUNDUP(c.size), tf)'
    BY <1>8, <1>9, <2>1
  <2>3. L \in {"load", "seg", "seg_map", "stack", "stack_map"} => NoGuard(c.pt)'
    <3>1. L \in {"load", "seg", "seg_map", "stack", "stack_map"} => c.pt # None
      BY <1>6, <2>1 DEF ImageIs
    <3> QED
      BY <1>7, <2>1, <3>1
  <2> QED
    BY <1>2, <1>4, <2>1, <2>2, <2>3 DEF ExecOK
<1>13. /\ L = "user" => c = NoCall
       /\ c.mem # None <=> L \in MapLabels
       /\ L \notin ExecLabels => c.args = {}
  BY <1>1 DEF CallOK
<1> QED
  BY <1>2, <1>10, <1>11, <1>12, <1>13 DEF CallOK

\* The slot r that a step of p may change besides its own: a slot to take, a
\* zombie to free, or the child that p is making.
With(p, r) == /\ state[p] = "live"
              /\ r = p \/ state[r] \in {"unused", "zombie"}
                       \/ (pc[p] \in ForkLabels /\ r = call[p].np)
              /\ pc[p] \in ForkLabels => r = call[p].np

\* The slot and the image that a step of p changes are nobody else's.
LEMMA Apart ==
  ASSUME IInv, NEW p \in Proc, NEW r \in Proc, With(p, r),
         NEW X \in {None, pagetable[p], pagetable[r], call[p].pt}
  PROVE  /\ r # p => pc[r] = "user" /\ call[r] = NoCall
         /\ \A q \in Proc : q # p /\ pc[q] \in ForkLabels => call[q].np \in Proc \ {p, r}
         /\ X # None => \A q \in Proc : q \notin {p, r} => pagetable[q] # X /\ call[q].pt # X
<1>1. Typed /\ OneHolder /\ \A q \in Proc : SlotOK(q) /\ CallOK(q)
  BY DEF IInv
<1>2. ASSUME r # p PROVE pc[r] = "user" /\ call[r] = NoCall
  <2>1. state[r] # "live"
    <3>1. CASE pc[p] \in ForkLabels /\ r = call[p].np
      BY <1>1, <3>1 DEF CallOK, ForkOK
    <3> QED
      BY <1>2, <3>1 DEF With
  <2> QED
    BY <1>1, <2>1 DEF SlotOK, CallOK
<1>3. ASSUME NEW q \in Proc, q # p, pc[q] \in ForkLabels PROVE call[q].np \in Proc \ {p, r}
  <2>1. PICK np \in Proc : np = call[q].np /\ state[np] = "used"
        /\ \A s \in Proc : pc[s] \in ForkLabels /\ call[s].np = np => s = q
    BY <1>1, <1>3 DEF CallOK, ForkOK
  <2>2. np # p
    BY <2>1 DEF With
  <2>3. np # r
    BY <1>3, <2>1, <2>2 DEF With
  <2> QED
    BY <2>1, <2>2, <2>3
<1>4. ASSUME X # None
      PROVE  X = pagetable[p] \/ X = pagetable[r] \/ (pc[p] \in NewLabels /\ X = call[p].pt)
  <2>1. CASE X = call[p].pt
    <3>1. CASE pc[p] \in NewLabels
      BY <2>1, <3>1
    <3>2. CASE pc[p] \notin NewLabels
      <4>1. \/ pc[p] \in {"copy", "copy_map", "fork_bad"} /\ call[p].pt = pagetable[call[p].np]
            \/ call[p].pt = pagetable[p]
        BY <1>4, <2>1, <3>2, CallImage
      <4> QED
        BY <2>1, <4>1 DEF With, ForkLabels
    <3> QED
      BY <3>1, <3>2
  <2> QED
    BY <1>4, <2>1
<1>5. ASSUME X # None, NEW q \in Proc, q \notin {p, r} PROVE pagetable[q] # X /\ call[q].pt # X
  <2>1. ASSUME NEW s \in Proc \ {p, r} PROVE pagetable[s] # X
    BY <1>1, <1>4, <1>5, RootsApart
  <2>2. pagetable[q] # X
    BY <1>5, <2>1
  <2>3. ASSUME call[q].pt = X PROVE FALSE
    <3>1. CASE pc[q] \in NewLabels
      BY <1>1, <1>4, <1>5, <2>3, <3>1, RootsApart
    <3>2. CASE pc[q] \notin NewLabels
      <4>1. \/ pc[q] \in {"copy", "copy_map", "fork_bad"} /\ call[q].pt = pagetable[call[q].np]
            \/ call[q].pt = pagetable[q]
        BY <1>5, <2>3, <3>2, CallImage
      <4>2. CASE pc[q] \in {"copy", "copy_map", "fork_bad"} /\ call[q].pt = pagetable[call[q].np]
        <5>1. call[q].np \in Proc \ {p, r}
          BY <1>3, <1>5, <4>2 DEF ForkLabels
        <5> QED
          BY <2>1, <2>3, <4>2, <5>1
      <4> QED
        BY <2>2, <2>3, <4>1, <4>2
    <3> QED
      BY <3>1, <3>2
  <2> QED
    BY <2>2, <2>3
<1> QED
  BY <1>2, <1>3, <1>5

\* What a step of p with r leaves alone keeps its invariant.
LEMMA Others ==
  ASSUME IInv, NEW p \in Proc, NEW r \in Proc, With(p, r),
         \A q \in Proc : q \notin {p, r} => SlotSame(q),
         \A q \in Proc : q # p => ProcSame(q),
         NEW X \in {None, pagetable[p], pagetable[r], call[p].pt},
         \A qt \in Images : qt # X => Same(qt),
         pc'[p] \in ForkLabels => call'[p].np = r
  PROVE  /\ \A q \in Proc : q \notin {p, r} => SlotOK(q)' /\ CallOK(q)'
         /\ r # p => CallOK(r)'
<1>1. Typed /\ OneHolder /\ \A q \in Proc : SlotOK(q) /\ CallOK(q)
  BY DEF IInv
<1>2. /\ r # p => pc[r] = "user" /\ call[r] = NoCall
      /\ \A q \in Proc : q # p /\ pc[q] \in ForkLabels => call[q].np \in Proc \ {p, r}
      /\ X # None => \A q \in Proc : q \notin {p, r} => pagetable[q] # X /\ call[q].pt # X
  BY Apart
<1>3. ASSUME NEW q \in Proc, q \notin {p, r} PROVE SlotOK(q)' /\ CallOK(q)'
  <2>1. /\ pagetable[q] # None => Same(pagetable[q])
        /\ call[q].pt # None => Same(call[q].pt)
    <3>1. /\ pagetable[q] # None => pagetable[q] \in Images
          /\ call[q].pt # None => call[q].pt \in Images
      BY ImagesIs
    <3> QED
      BY <1>2, <1>3, <3>1
  <2>2. SlotOK(q) /\ CallOK(q) /\ SlotSame(q) /\ ProcSame(q)
    BY <1>1, <1>3
  <2>3. pc'[q] = pc[q] /\ call'[q] = call[q] /\ (pc[q] # "user" => state[q] = "live")
    BY <2>2 DEF ProcSame, SlotOK
  <2>4. SlotOK(q)'
    BY <2>1, <2>2, <2>3, SlotFrame
  <2>5. ASSUME pc[q] \in ForkLabels
        PROVE  /\ state'[call[q].np] = state[call[q].np]
               /\ pagetable'[call[q].np] = pagetable[call[q].np]
               /\ trapframe'[call[q].np] = trapframe[call[q].np]
               /\ \A s \in Proc : pc'[s] \in ForkLabels /\ call'[s].np = call[q].np => s = q
    <3>1. PICK np \in Proc : np = call[q].np /\ np \notin {p, r}
      BY <1>2, <1>3, <2>5
    <3>2. SlotSame(np)
      BY <3>1
    <3>3. ASSUME NEW s \in Proc, pc'[s] \in ForkLabels, call'[s].np = np PROVE s = q
      <4>1. s # p
        BY <3>1, <3>3
      <4>2. pc[s] \in ForkLabels /\ call[s].np = np
        BY <3>3, <4>1 DEF ProcSame
      <4> QED
        BY <2>2, <2>5, <3>1, <4>2 DEF CallOK, ForkOK
    <3> QED
      BY <3>1, <3>2, <3>3 DEF SlotSame
  <2>6. CallOK(q)'
    BY <1>1, <2>1, <2>2, <2>5, CallFrame
  <2> QED
    BY <2>4, <2>6
<1>4. ASSUME r # p PROVE CallOK(r)'
  <2>1. pc'[r] = "user" /\ call'[r] = NoCall
    BY <1>2, <1>4 DEF ProcSame
  <2> QED
    BY <2>1 DEF CallOK, NoCall, MapLabels, ForkLabels, SbrkLabels, ExecLabels, LoadLabels
<1> QED
  BY <1>3, <1>4

\* A step of p with the slot r keeps the invariant, when it does so for both.
LEMMA Preserved ==
  ASSUME IInv, NEW p \in Proc, NEW r \in Proc, With(p, r),
         \A q \in Proc : q \notin {p, r} => SlotSame(q),
         \A q \in Proc : q # p => ProcSame(q),
         NEW X \in {None, pagetable[p], pagetable[r], call[p].pt},
         \A qt \in Images : qt # X => Same(qt),
         pc'[p] \in ForkLabels => call'[p].np = r,
         Typed', Trees', \A u \in Page : Count(p, r, u)' = Count(p, r, u),
         SlotOK(p)', SlotOK(r)', CallOK(p)'
  PROVE  IInv'
<1>1. OneHolder'
  BY Counted DEF IInv
<1>2. /\ \A q \in Proc : q \notin {p, r} => SlotOK(q)' /\ CallOK(q)'
      /\ r # p => CallOK(r)'
  BY Others
<1>3. \A q \in Proc : SlotOK(q)' /\ CallOK(q)'
  BY <1>2
<1> QED
  BY <1>1, <1>3 DEF IInv

\* A step changes where p is and its local variables.
LEMMA GoIs ==
  ASSUME Typed, NEW p \in Proc, NEW L \in Labels, NEW c \in CallRec, Go(p, L, c)
  PROVE  /\ pc' \in [Proc -> Labels] /\ call' \in [Proc -> CallRec]
         /\ pc'[p] = L /\ call'[p] = c
         /\ \A q \in Proc : q # p => ProcSame(q)
BY DEF Typed, Go, ProcSame

\* The local variables outside of system calls.
LEMMA NoCallIs ==
  /\ NoCall \in CallRec /\ NoCall.np = None /\ NoCall.pt = None /\ NoCall.size = 0
  /\ NoCall.args = {} /\ NoCall.segs = 0 /\ NoCall.mem = None /\ NoCall.base = 0
  /\ NoCall.va = 0 /\ NoCall.end = 0
<1>1. 0 \in 0..NPROC /\ 0 \in 0..MaxSegs /\ None = 0
  BY VmConstants DEF None
<1> QED
  BY <1>1 DEF NoCall, CallRec

\* The slot of fork()'s child, and else the slot of the caller.
R(p) == IF pc[p] \in ForkLabels THEN call[p].np ELSE p

\* What a process in a system call has.
LEMMA Mine ==
  ASSUME IInv, NEW p \in Proc, pc[p] # "user"
  PROVE  /\ R(p) \in Proc /\ With(p, R(p)) /\ SlotOK(p) /\ SlotOK(R(p)) /\ CallOK(p)
         /\ state[p] = "live" /\ trapframe[p] \in Page /\ pagetable[p] \in Page
         /\ pc[p] \in ForkLabels => /\ R(p) # p /\ ForkOK(p, call[p]) /\ state[R(p)] = "used"
                                   /\ R(p) = call[p].np
         /\ pc[p] \notin ForkLabels => R(p) = p
<1>1. Typed /\ SlotOK(p) /\ CallOK(p) /\ state[p] = "live"
  BY DEF IInv, SlotOK
<1>2. pc[p] \in ForkLabels => ForkOK(p, call[p]) /\ call[p].np \in Proc /\ state[call[p].np] = "used"
  BY <1>1 DEF CallOK, ForkOK
<1>3. R(p) \in Proc /\ SlotOK(R(p))
  BY <1>2 DEF R, IInv
<1>4. With(p, R(p))
  BY <1>1 DEF With, R
<1>5. trapframe[p] \in Page /\ pagetable[p] \in Page
  BY <1>1 DEF SlotOK
<1> QED
  BY <1>1, <1>2, <1>3, <1>4, <1>5 DEF R

\* A page that kalloc() returns is loose.
LEMMA Alloc ==
  ASSUME IInv, NEW page, Kalloc(page)
  PROVE  page \in free /\ page \in Loose /\ page \in Page
<1>1. free \subseteq Page /\ Page \subseteq Nat /\ free # {}
  BY VmConstants DEF Kalloc, IInv, Typed
<1>2. page \in free
  BY <1>1, MinInSet DEF Kalloc
<1> QED
  BY <1>2, LooseHeld

\* A step that changes only where p is and what it computes with.
LEMMA Quiet ==
  ASSUME IInv, NEW p \in Proc, state[p] = "live", pc[p] \notin ForkLabels,
         NEW L \in Labels, NEW c \in CallRec, Go(p, L, c), UNCHANGED <<free, tab, procVars>>,
         panicked' = FALSE, L # "user", L \notin ForkLabels,
         \/ c.pt = call[p].pt /\ (c.pt # None => (L \in NewLabels <=> pc[p] \in NewLabels))
         \/ call[p].pt = None /\ c.pt = pagetable[p] /\ L \notin NewLabels,
         c.args = call[p].args, c.mem = call[p].mem,
         L \notin SbrkLabels => pc[p] \notin SbrkLabels,
         CallOK(p)'
  PROVE  IInv'
<1>1. Typed /\ Trees /\ SlotOK(p)
  BY DEF IInv
<1>2. /\ free' = free /\ tab' = tab /\ state' = state /\ pagetable' = pagetable
      /\ trapframe' = trapframe /\ sz' = sz
  BY DEF procVars
<1>3. /\ pc' \in [Proc -> Labels] /\ call' \in [Proc -> CallRec] /\ pc'[p] = L /\ call'[p] = c
      /\ \A q \in Proc : q # p => ProcSame(q)
  BY <1>1, GoIs
<1>4. Typed'
  BY <1>1, <1>2, <1>3 DEF Typed
<1>5. Images' = Images
  <2>1. \A u : u \in Images' <=> u # None /\ \E q \in Proc : u = pagetable[q] \/ u = call'[q].pt
    BY <1>2 DEF Images
  <2>2. \A q \in Proc : q # p => call'[q].pt = call[q].pt
    BY <1>3 DEF ProcSame
  <2>3. \A u : u \in Images' <=> u \in Images
    <3>1. \A u : u \in Images <=> u # None /\ \E q \in Proc : u = pagetable[q] \/ u = call[q].pt
      BY ImagesIs
    <3>2. \A u : u # None => ((\E q \in Proc : u = pagetable[q] \/ u = call'[q].pt)
                                <=> \E q \in Proc : u = pagetable[q] \/ u = call[q].pt)
      BY <1>3, <2>2
    <3> QED
      BY <2>1, <3>1, <3>2
  <2> QED
    BY <2>3
<1>6. Trees' /\ Owned' = Owned
  BY <1>1, <1>2, <1>5 DEF Trees, Once, Levels, Points, Owned
<1>7. \A qt : Same(qt)
  BY <1>2 DEF Same, Entry, Walk
<1>8. ASSUME NEW u \in Page PROVE Count(p, p, u)' = Count(p, p, u)
  <2>1. u # None
    BY VmConstants
  <2>2. (L \in NewLabels /\ u = c.pt) <=> (pc[p] \in NewLabels /\ u = call[p].pt)
    BY <2>1
  <2> QED
    BY <1>2, <1>3, <1>6, <2>2 DEF Count, N
<1>9. \A q \in Proc : SlotSame(q)
  BY <1>2 DEF SlotSame
<1>10. SlotOK(p)'
  BY <1>1, <1>3, <1>7, <1>9, SlotFrame
<1>11. With(p, p)
  BY DEF With
<1> QED
  BY <1>3, <1>4, <1>6, <1>7, <1>8, <1>9, <1>10, <1>11, Preserved

-----------------------------------------------------------------------------
(***************************************************************************)
(* Steps that start a system call, and the first ones of exec().           *)
(***************************************************************************)

\* A step that changes no table leaves every image alone.
LEMMA TabSame ==
  ASSUME tab' = tab, NEW pt
  PROVE  /\ Same(pt)
         /\ \A n, tf : ImageIs(pt, n, tf) => ImageIs(pt, n, tf)'
         /\ NoGuard(pt) => NoGuard(pt)'
         /\ Empty(pt) => Empty(pt)'
<1>1. Same(pt)
  BY DEF Same, Entry, Walk
<1>2. \A n, tf : ImageIs(pt, n, tf) => ImageIs(pt, n, tf)'
  BY <1>1, ImageSame
<1>3. NoGuard(pt) => NoGuard(pt)'
  BY <1>1, ImageSame
<1>4. Empty(pt) => Empty(pt)'
  BY <1>1, ImageSame
<1> QED
  BY <1>1, <1>2, <1>3, <1>4

\* A process is in fork(), sbrk(), exec() or in user code.
LEMMA LabelsIs ==
  /\ ForkLabels \subseteq Labels /\ SbrkLabels \subseteq Labels /\ ExecLabels \subseteq Labels
  /\ "user" \notin ForkLabels \cup SbrkLabels \cup ExecLabels
  /\ Labels = {"user"} \cup ForkLabels \cup SbrkLabels \cup ExecLabels
  /\ ForkLabels \cap SbrkLabels = {} /\ ForkLabels \cap ExecLabels = {}
  /\ SbrkLabels \cap ExecLabels = {}
  /\ MapLabels \subseteq Labels \ {"user"}
BY DEF Labels, ForkLabels, SbrkLabels, ExecLabels, LoadLabels, MapLabels, NewLabels

\* The local variables with which uvmalloc() starts.
LEMMA GrowingIs ==
  ASSUME NEW c \in CallRec, NEW pt \in Page \cup {None}, NEW oldsz \in Nat, NEW newsz \in Nat
  PROVE  \E g \in CallRec :
           /\ g = Growing(c, pt, oldsz, newsz)
           /\ g.np = c.np /\ g.pt = pt /\ g.size = c.size /\ g.args = c.args
           /\ g.segs = c.segs /\ g.mem = c.mem /\ g.base = PGROUNDUP(oldsz)
           /\ g.va = PGROUNDUP(oldsz) /\ g.end = newsz
<1>1. PICK r \in Nat : r = PGROUNDUP(oldsz)
  BY RoundUp
<1>2. Growing(c, pt, oldsz, newsz) = [c EXCEPT !.pt = pt, !.base = r, !.va = r, !.end = newsz]
  BY <1>1 DEF Growing
<1>3. PICK g : g = [c EXCEPT !.pt = pt, !.base = r, !.va = r, !.end = newsz]
  OBVIOUS
<1>4. g \in CallRec
  BY <1>3 DEF CallRec
<1>5. /\ g.np = c.np /\ g.pt = pt /\ g.size = c.size /\ g.args = c.args
      /\ g.segs = c.segs /\ g.mem = c.mem /\ g.base = r /\ g.va = r /\ g.end = newsz
  BY <1>3 DEF CallRec
<1> QED
  BY <1>1, <1>2, <1>3, <1>4, <1>5

\* What a process that runs user code has.
LEMMA InUser ==
  ASSUME IInv, NEW p \in Proc, state[p] = "live", pc[p] = "user"
  PROVE  /\ call[p] = NoCall /\ trapframe[p] \in Page /\ pagetable[p] \in Page
         /\ ImageIs(pagetable[p], PGROUNDUP(sz[p]), trapframe[p]) /\ pagetable[p] \in Images
         /\ sz[p] \in Nat /\ sz[p] <= MaxSz /\ SlotOK(p)
<1>1. SlotOK(p) /\ CallOK(p) /\ Typed
  BY DEF IInv
<1>2. pc[p] \notin SbrkLabels
  BY LabelsIs
<1>3. pagetable[p] \in Images
  BY <1>1, ImagesIs, VmConstants DEF SlotOK
<1> QED
  BY <1>1, <1>2, <1>3, CallIs DEF SlotOK, CallOK

\* growproc() with n > 0 starts to allocate.
LEMMA StepSbrkGrow ==
  ASSUME IInv, NEW p \in Proc, NEW n \in Grow, SbrkGrow(p, n)
  PROVE  IInv'
<1> DEFINE newsz == (sz[p] + n) % UINT
<1>1. /\ state[p] = "live" /\ pc[p] = "user" /\ n > 0 /\ newsz <= MaxSz
      /\ Go(p, "sbrk", Growing(NoCall, pagetable[p], sz[p], newsz))
      /\ UNCHANGED <<free, tab, procVars, panicked>>
  BY DEF SbrkGrow, Running
<1>2. /\ call[p] = NoCall /\ trapframe[p] \in Page /\ pagetable[p] \in Page
      /\ ImageIs(pagetable[p], PGROUNDUP(sz[p]), trapframe[p])
      /\ sz[p] \in Nat /\ sz[p] <= MaxSz /\ SlotOK(p)
  BY <1>1, InUser
<1>3. newsz = sz[p] + n /\ newsz \in Nat
  <2>1. PICK x \in Nat : x = sz[p] + n /\ x < UINT
    BY <1>1, <1>2, VmConstants
  <2>2. x = UINT * 0 + x /\ x \in 0..(UINT - 1)
    BY <2>1, VmConstants
  <2>3. x % UINT = x
    BY <2>2, VmConstants, Quotient
  <2> QED
    BY <2>1, <2>3
<1> HIDE DEF newsz
<1>4. PICK g \in Nat : g = PGROUNDUP(sz[p]) /\ g <= PGROUNDUP(newsz)
  <2>1. sz[p] <= newsz
    BY <1>1, <1>2, <1>3, VmConstants
  <2> QED
    BY <1>2, <1>3, <2>1, Rounding, RoundUp
<1>5. PICK c \in CallRec :
        /\ c = Growing(NoCall, pagetable[p], sz[p], newsz)
        /\ c.np = None /\ c.pt = pagetable[p] /\ c.args = {} /\ c.mem = None
        /\ c.base = g /\ c.va = g /\ c.end = newsz
  <2>1. PICK pt \in Page \cup {None}, y \in Nat, z \in Nat :
          pt = pagetable[p] /\ y = sz[p] /\ z = newsz
    BY <1>2, <1>3
  <2>2. PICK d \in CallRec :
          /\ d = Growing(NoCall, pt, y, z)
          /\ d.np = NoCall.np /\ d.pt = pt /\ d.size = NoCall.size /\ d.args = NoCall.args
          /\ d.segs = NoCall.segs /\ d.mem = NoCall.mem /\ d.base = PGROUNDUP(y)
          /\ d.va = PGROUNDUP(y) /\ d.end = z
    <3>1. PICK n0 \in CallRec : n0 = NoCall
      BY NoCallIs
    <3>2. PICK d \in CallRec :
          /\ d = Growing(n0, pt, y, z)
          /\ d.np = n0.np /\ d.pt = pt /\ d.size = n0.size /\ d.args = n0.args
          /\ d.segs = n0.segs /\ d.mem = n0.mem /\ d.base = PGROUNDUP(y)
          /\ d.va = PGROUNDUP(y) /\ d.end = z
      BY GrowingIs
    <3> QED
      BY <3>1, <3>2
  <2>3. /\ d.np = None /\ d.args = {} /\ d.mem = None
    BY <2>2, NoCallIs
  <2>4. d.base = g /\ d.va = g
    BY <1>4, <2>1, <2>2
  <2> QED
    BY <2>1, <2>2, <2>3, <2>4
<1>8. pc'[p] = "sbrk" /\ call'[p] = c /\ tab' = tab /\ sz' = sz /\ trapframe' = trapframe
      /\ pagetable' = pagetable
  BY <1>1, <1>5, LabelsIs, GoIs DEF procVars, IInv, SbrkLabels
<1>9. ImageIs(c.pt, c.va, trapframe[p])'
  <2>1. PICK pt, tf : pt = pagetable[p] /\ tf = trapframe[p]
    OBVIOUS
  <2>2. ImageIs(pt, g, tf)'
    BY <1>2, <1>4, <1>8, <2>1, TabSame
  <2> QED
    BY <1>5, <1>8, <2>1, <2>2
<1>10. CallOK(p)'
  <2>1. SbrkOK(p, c)'
    <3>1. sz[p] <= newsz
      BY <1>1, <1>2, <1>3, VmConstants
    <3> QED
      BY <1>1, <1>4, <1>5, <1>8, <1>9, <3>1 DEF SbrkOK, Mapping, MapLabels
  <2> QED
    BY <1>5, <1>8, <2>1 DEF CallOK, MapLabels, ForkLabels, ExecLabels, LoadLabels
<1>11. panicked' = FALSE
  BY <1>1 DEF IInv, Typed
<1> QED
  <2>1. "sbrk" \in Labels /\ "sbrk" \notin ForkLabels /\ "sbrk" \notin NewLabels
        /\ "sbrk" \in SbrkLabels /\ pc[p] \notin ForkLabels /\ pc[p] \notin SbrkLabels
    BY <1>1 DEF Labels, ForkLabels, NewLabels, LoadLabels, SbrkLabels
  <2>2. c.pt = pagetable[p] /\ c.args = call[p].args /\ c.mem = call[p].mem /\ call[p].pt = None
    BY <1>2, <1>5, NoCallIs
  <2>3. Go(p, "sbrk", c) /\ UNCHANGED <<free, tab, procVars>>
    BY <1>1, <1>5
  <2> QED
    BY <1>1, <1>5, <1>10, <1>11, <2>1, <2>2, <2>3, Quiet

\* sys_exec() starts.
LEMMA StepExec ==
  ASSUME IInv, NEW p \in Proc, Exec(p)
  PROVE  IInv'
<1>1. /\ state[p] = "live" /\ pc[p] = "user" /\ Go(p, "args", NoCall)
      /\ UNCHANGED <<free, tab, procVars, panicked>>
  BY DEF Exec, Running
<1>2. call[p] = NoCall
  BY <1>1, InUser
<1>3. pc'[p] = "args" /\ call'[p] = NoCall
  BY <1>1, NoCallIs, GoIs DEF IInv, Labels
<1>4. CallOK(p)'
  BY <1>3, NoCallIs DEF CallOK, ExecOK, MapLabels, ForkLabels, SbrkLabels, ExecLabels, LoadLabels
<1>5. panicked' = FALSE
  BY <1>1 DEF IInv, Typed
<1> QED
  <2>1. "args" \in Labels /\ "args" \notin ForkLabels
        /\ pc[p] \notin ForkLabels /\ pc[p] \notin SbrkLabels
    BY <1>1 DEF Labels, ForkLabels, SbrkLabels
  <2> QED
    BY <1>1, <1>2, <1>4, <1>5, <2>1, NoCallIs, Quiet

\* A call of exec() goes on to a label that asks nothing more of it.
LEMMA StepExecImage ==
  ASSUME IInv, NEW p \in Proc, ExecImage(p)
  PROVE  IInv'
<1>1. /\ pc[p] = "args" /\ Go(p, "exec_root", call[p])
      /\ UNCHANGED <<free, tab, procVars, panicked>>
  BY DEF ExecImage, At
<1>2. CallOK(p) /\ call[p] \in CallRec /\ pc[p] # "user" /\ state[p] = "live"
  <2>1. pc[p] # "user"
    BY <1>1
  <2> QED
    BY <2>1, CallIs, Mine DEF IInv
<1>3. ExecOK(p, call[p]) /\ call[p].mem = None
  BY <1>1, <1>2 DEF CallOK, ExecLabels, MapLabels
<1>4. pc'[p] = "exec_root" /\ call'[p] = call[p]
  BY <1>1, <1>2, GoIs DEF IInv, Labels
<1>5. CallOK(p)'
  BY <1>1, <1>3, <1>4 DEF CallOK, ExecOK, MapLabels, ForkLabels, SbrkLabels, ExecLabels, LoadLabels
<1>6. panicked' = FALSE
  BY <1>1 DEF IInv, Typed
<1>7. call[p].pt = None
  BY <1>1, <1>3 DEF ExecOK
<1> QED
  <2>1. "exec_root" \in Labels /\ "exec_root" \notin ForkLabels /\ "exec_root" # "user"
        /\ pc[p] \notin ForkLabels /\ pc[p] \notin SbrkLabels
    BY <1>1 DEF Labels, ForkLabels, SbrkLabels
  <2> QED
    BY <1>1, <1>2, <1>5, <1>6, <1>7, <2>1, Quiet

\* An argument or a header is bad.
LEMMA StepExecError ==
  ASSUME IInv, NEW p \in Proc, ExecError(p)
  PROVE  IInv'
<1>1. /\ pc[p] \in {"args", "load", "push"} /\ Go(p, "exec_bad", call[p])
      /\ UNCHANGED <<free, tab, procVars, panicked>>
  BY DEF ExecError, At
<1>2. CallOK(p) /\ call[p] \in CallRec /\ pc[p] # "user" /\ state[p] = "live"
  <2>1. pc[p] # "user"
    BY <1>1
  <2> QED
    BY <2>1, CallIs, Mine DEF IInv
<1>3. ExecOK(p, call[p]) /\ call[p].mem = None
  BY <1>1, <1>2 DEF CallOK, ExecLabels, LoadLabels, MapLabels
<1>4. PICK c, tf : c = call[p] /\ tf = trapframe[p]
  OBVIOUS
<1>5. pc'[p] = "exec_bad" /\ call'[p] = c /\ trapframe'[p] = tf /\ tab' = tab
  BY <1>1, <1>2, <1>4, GoIs DEF IInv, Labels, procVars
<1>6. c.pt = None \/ ImageIs(c.pt, PGROUNDUP(c.size), tf)
  BY <1>1, <1>3, <1>4 DEF ExecOK
<1>7. c.pt = None \/ ImageIs(c.pt, PGROUNDUP(c.size), tf)'
  BY <1>5, <1>6, TabSame
<1>8. CallOK(p)'
  BY <1>3, <1>4, <1>5, <1>7 DEF CallOK, ExecOK, MapLabels, ForkLabels, SbrkLabels, ExecLabels, LoadLabels
<1>9. panicked' = FALSE
  BY <1>1 DEF IInv, Typed
<1>10. call[p].pt # None => ("exec_bad" \in NewLabels <=> pc[p] \in NewLabels)
  BY <1>1, <1>3 DEF ExecOK, NewLabels, LoadLabels
<1> QED
  <2>1. "exec_bad" \in Labels /\ "exec_bad" \notin ForkLabels /\ "exec_bad" # "user"
        /\ pc[p] \notin ForkLabels /\ pc[p] \notin SbrkLabels
    BY <1>1 DEF Labels, ForkLabels, SbrkLabels
  <2> QED
    BY <1>1, <1>2, <1>8, <1>9, <1>10, <2>1, Quiet

\* A loop of uvmalloc() ends at the page that it rounds up to.
LEMMA MapEnd ==
  /\ \A k, n \in Nat : k <= PGROUNDUP(n) /\ ~(k * PGSIZE < n) => k = PGROUNDUP(n)
  /\ \A n \in Nat : PGROUNDUP(n) * PGSIZE < n + PGSIZE
<1>1. ASSUME NEW k \in Nat, NEW n \in Nat, k <= PGROUNDUP(n), ~(k * PGSIZE < n)
      PROVE  k = PGROUNDUP(n)
  <2>1. ~(k < PGROUNDUP(n)) /\ PGROUNDUP(n) \in Nat
    BY <1>1, Rounding, RoundUp
  <2> QED
    BY <1>1, <2>1
<1>2. ASSUME NEW n \in Nat PROVE PGROUNDUP(n) * PGSIZE < n + PGSIZE
  <2>1. PICK P \in Nat : P = PGSIZE /\ P > 0
    BY VmConstants
  <2>2. PICK k \in Nat : k = PGROUNDUP(n)
    BY RoundUp
  <2>3. CASE k = 0
    <3>1. k * P = 0
      BY <2>1, <2>3
    <3> QED
      BY <2>1, <2>2, <3>1
  <2>4. CASE k > 0
    <3>1. PICK j \in Nat : k = j + 1
      BY <2>4
    <3>2. j * P < n
      <4>1. j < PGROUNDUP(n)
        BY <2>2, <3>1
      <4>2. j * PGSIZE < n
        BY <4>1, RoundUp
      <4> QED
        BY <2>1, <4>2
    <3>3. k * P = j * P + P
      BY <2>1, <3>1
    <3>4. j * P \in Nat
      BY <2>1
    <3> QED
      BY <2>1, <2>2, <3>2, <3>3, <3>4
  <2> QED
    BY <2>3, <2>4
<1> QED
  BY <1>1, <1>2

\* What a process in exec() has.
LEMMA InExec ==
  ASSUME IInv, NEW p \in Proc, pc[p] \in ExecLabels
  PROVE  /\ ExecOK(p, call[p]) /\ state[p] = "live" /\ call[p] \in CallRec
         /\ call[p].mem # None <=> pc[p] \in MapLabels
         /\ trapframe[p] \in Page /\ pagetable[p] \in Page
         /\ pc[p] \notin ForkLabels /\ pc[p] \notin SbrkLabels /\ pc[p] # "user"
         /\ call[p].pt # None => call[p].pt \in Images /\ pc[p] \in NewLabels
<1>1. CallOK(p) /\ SlotOK(p) /\ Typed
  BY DEF IInv
<1>2. pc[p] # "user" /\ pc[p] \notin ForkLabels /\ pc[p] \notin SbrkLabels
  BY LabelsIs
<1>3. state[p] = "live" /\ trapframe[p] \in Page /\ pagetable[p] \in Page
  BY <1>1, <1>2 DEF SlotOK
<1>4. call[p].pt # None => call[p].pt \in Images
  BY ImagesIs
<1>5. call[p].pt # None => pc[p] \in NewLabels
  BY <1>2, CallImage DEF ForkLabels
<1> QED
  BY <1>1, <1>2, <1>3, <1>4, <1>5, CallIs DEF CallOK

\* A program header.
LEMMA StepLoadSegment ==
  ASSUME IInv, NEW p \in Proc, NEW end \in SegEnds, LoadSegment(p, end)
  PROVE  IInv'
<1>1. PICK c \in CallRec, tf \in Page : c = call[p] /\ tf = trapframe[p]
  <2>1. pc[p] \in ExecLabels
    BY DEF LoadSegment, At, ExecLabels, LoadLabels
  <2> QED
    BY <2>1, InExec
<1>2. /\ pc[p] = "load" /\ c.segs < MaxSegs
      /\ UNCHANGED <<free, tab, procVars, panicked>>
      /\ \/ end < c.size /\ Go(p, "load", [c EXCEPT !.segs = @ + 1])
         \/ Go(p, "exec_bad", c)
         \/ ~(end < c.size) /\ Go(p, "seg", Growing(c, c.pt, c.size, end))
  BY <1>1 DEF LoadSegment, At
<1>3. /\ ExecOK(p, c) /\ state[p] = "live" /\ c.mem = None /\ pc[p] \in ExecLabels
      /\ pc[p] \notin ForkLabels /\ pc[p] \notin SbrkLabels
  <2>1. pc[p] \in ExecLabels /\ pc[p] \notin MapLabels
    BY <1>2 DEF ExecLabels, LoadLabels, MapLabels
  <2> QED
    BY <1>1, <2>1, InExec
<1>4. ImageIs(c.pt, PGROUNDUP(c.size), tf) /\ NoGuard(c.pt) /\ c.size + 3 * PGSIZE <= MaxSz
  BY <1>1, <1>2, <1>3 DEF ExecOK
<1>5. tab' = tab /\ trapframe'[p] = tf /\ panicked' = FALSE
  BY <1>1, <1>2 DEF procVars, IInv, Typed
<1>6. ImageIs(c.pt, PGROUNDUP(c.size), tf)' /\ NoGuard(c.pt)'
  BY <1>4, <1>5, TabSame
<1>7. /\ c.size \in Nat /\ c.segs \in 0..MaxSegs /\ c.pt \in Page \cup {None} /\ MaxSegs \in Nat
      /\ end \in Nat /\ end + 3 * PGSIZE <= MaxSz /\ PGSIZE \in Nat /\ MaxSz \in Nat
  BY VmConstants DEF CallRec
<1>8. {"load", "exec_bad", "seg"} \subseteq Labels /\ pc[p] \in NewLabels
      /\ {"load", "exec_bad", "seg"} \subseteq NewLabels
  BY <1>2 DEF Labels, NewLabels, LoadLabels
<1>9. CASE end < c.size /\ Go(p, "load", [c EXCEPT !.segs = @ + 1])
  <2>1. PICK d : d = [c EXCEPT !.segs = @ + 1]
    OBVIOUS
  <2>2. /\ d \in CallRec /\ d.pt = c.pt /\ d.args = c.args /\ d.mem = c.mem /\ d.size = c.size
    <3>1. c.segs + 1 \in 0..MaxSegs
      BY <1>2, <1>7
    <3> QED
      BY <2>1, <3>1 DEF CallRec
  <2>3. pc'[p] = "load" /\ call'[p] = d
    BY <1>8, <1>9, <2>1, <2>2, GoIs DEF IInv
  <2>4. CallOK(p)'
    BY <1>3, <1>4, <1>5, <1>6, <2>2, <2>3
       DEF CallOK, ExecOK, MapLabels, ForkLabels, SbrkLabels, ExecLabels, LoadLabels
  <2> QED
    <3>1. "load" # "user" /\ "load" \notin ForkLabels
      BY DEF ForkLabels
    <3> QED
      BY <1>1, <1>2, <1>3, <1>5, <1>8, <1>9, <2>1, <2>2, <2>4, <3>1, Quiet
<1>10. CASE Go(p, "exec_bad", c)
  <2>3. pc'[p] = "exec_bad" /\ call'[p] = c
    BY <1>8, <1>10, GoIs DEF IInv
  <2>4. CallOK(p)'
    BY <1>3, <1>4, <1>5, <1>6, <2>3
       DEF CallOK, ExecOK, MapLabels, ForkLabels, SbrkLabels, ExecLabels, LoadLabels
  <2> QED
    <3>1. "exec_bad" # "user" /\ "exec_bad" \notin ForkLabels
      BY DEF ForkLabels
    <3> QED
      BY <1>1, <1>2, <1>3, <1>5, <1>8, <1>10, <2>4, <3>1, Quiet
<1>11. CASE ~(end < c.size) /\ Go(p, "seg", Growing(c, c.pt, c.size, end))
  <2>1. PICK d \in CallRec :
          /\ d = Growing(c, c.pt, c.size, end)
          /\ d.np = c.np /\ d.pt = c.pt /\ d.size = c.size /\ d.args = c.args
          /\ d.segs = c.segs /\ d.mem = c.mem /\ d.base = PGROUNDUP(c.size)
          /\ d.va = PGROUNDUP(c.size) /\ d.end = end
    <3>1. PICK pt \in Page \cup {None}, y \in Nat, z \in Nat : pt = c.pt /\ y = c.size /\ z = end
      BY <1>7
    <3>2. PICK d \in CallRec :
          /\ d = Growing(c, pt, y, z)
          /\ d.np = c.np /\ d.pt = pt /\ d.size = c.size /\ d.args = c.args
          /\ d.segs = c.segs /\ d.mem = c.mem /\ d.base = PGROUNDUP(y)
          /\ d.va = PGROUNDUP(y) /\ d.end = z
      BY GrowingIs
    <3> QED
      BY <3>1, <3>2
  <2>2. pc'[p] = "seg" /\ call'[p] = d
    BY <1>8, <1>11, <2>1, GoIs DEF IInv
  <2>3. c.size <= end /\ PGROUNDUP(c.size) <= PGROUNDUP(end) /\ PGROUNDUP(c.size) \in Nat
        /\ end <= MaxSz
    <3>1. PICK y \in Nat, z \in Nat : y = c.size /\ z = end /\ y <= z /\ z <= MaxSz
      BY <1>7, <1>11
    <3>2. PGROUNDUP(y) <= PGROUNDUP(z) /\ PGROUNDUP(y) \in Nat
      BY <3>1, Rounding, RoundUp
    <3> QED
      BY <3>1, <3>2
  <2>4. ImageIs(d.pt, d.va, tf)'
    <3>1. PICK pt, n : pt = c.pt /\ n = PGROUNDUP(c.size)
      OBVIOUS
    <3> QED
      BY <1>6, <2>1, <3>1
  <2>5. CallOK(p)'
    <3>1. Mapping(d, "seg")
      BY <2>1, <2>3 DEF Mapping, MapLabels
    <3>2. ExecOK(p, d)'
      BY <1>2, <1>4, <1>5, <1>6, <1>7, <2>1, <2>2, <2>3, <2>4, <3>1 DEF ExecOK
    <3> QED
      BY <1>3, <2>1, <2>2, <3>2 DEF CallOK, MapLabels, ForkLabels, SbrkLabels, ExecLabels, LoadLabels
  <2> QED
    <3>1. "seg" # "user" /\ "seg" \notin ForkLabels
      BY DEF ForkLabels
    <3> QED
      BY <1>1, <1>2, <1>3, <1>5, <1>8, <1>11, <2>1, <2>5, <3>1, Quiet
<1> QED
  BY <1>2, <1>9, <1>10, <1>11

\* In an image without a guard every page is the user's.
LEMMA AllUser ==
  ASSUME Trees, NEW pt \in Images, NEW n, NEW tf, ImageIs(pt, n, tf), NoGuard(pt),
         NEW va \in Nat, va < n
  PROVE  WalkAddr(pt, va) # None
<1>1. va \in Va
  BY ImageMaps
<1>2. Entry(pt, va).kind = "user"
  BY <1>1 DEF ImageIs, NoGuard
<1>3. Entry(pt, va).pa \in Page
  BY <1>1, <1>2, EntryAt DEF Owns
<1> QED
  BY <1>2, <1>3, VmConstants DEF WalkAddr

\* loadseg() finds the pages that uvmalloc() has mapped, and does not panic.
LEMMA StepSegmentDone ==
  ASSUME IInv, NEW p \in Proc, SegmentDone(p)
  PROVE  IInv'
<1>1. PICK c \in CallRec, tf \in Page : c = call[p] /\ tf = trapframe[p]
  <2>1. pc[p] \in ExecLabels
    BY DEF SegmentDone, At, ExecLabels, LoadLabels
  <2> QED
    BY <2>1, InExec
<1>2. /\ pc[p] = "seg" /\ ~(c.va * PGSIZE < c.end)
      /\ UNCHANGED <<free, tab, procVars>>
      /\ panicked' = ~(\A va \in Image(c.end) : WalkAddr(c.pt, va) # None)
      /\ Go(p, "load", [c EXCEPT !.size = c.end, !.segs = @ + 1])
  BY <1>1 DEF SegmentDone, At, MoreToMap
<1>3. /\ ExecOK(p, c) /\ state[p] = "live" /\ c.mem = None /\ pc[p] \in ExecLabels
      /\ pc[p] \notin ForkLabels /\ pc[p] \notin SbrkLabels
      /\ c.pt # None => c.pt \in Images
  <2>1. pc[p] \in ExecLabels /\ pc[p] \notin MapLabels
    BY <1>2 DEF ExecLabels, LoadLabels, MapLabels
  <2> QED
    BY <1>1, <2>1, InExec
<1>4. ImageIs(c.pt, c.va, tf) /\ NoGuard(c.pt) /\ c.end + 3 * PGSIZE <= MaxSz /\ c.segs < MaxSegs
      /\ c.va <= PGROUNDUP(c.end)
  BY <1>1, <1>2, <1>3 DEF ExecOK, Mapping
<1>5. tab' = tab /\ trapframe'[p] = tf
  BY <1>1, <1>2 DEF procVars
<1>6. ImageIs(c.pt, c.va, tf)' /\ NoGuard(c.pt)'
  BY <1>4, <1>5, TabSame
<1>7. /\ c.end \in Nat /\ c.segs \in 0..MaxSegs /\ c.pt \in Page \cup {None} /\ MaxSegs \in Nat
      /\ c.va \in Nat
  BY VmConstants DEF CallRec
<1>8. c.va = PGROUNDUP(c.end)
  BY <1>2, <1>4, <1>7, MapEnd
<1>9. panicked' = FALSE
  <2>1. Trees /\ c.pt \in Images
    BY <1>3, <1>4, VmConstants DEF IInv, ImageIs
  <2>2. \A va \in Image(c.end) : va \in Nat /\ va < c.va
    BY <1>7, <1>8 DEF Image
  <2>3. PICK pt, n : pt = c.pt /\ n = c.va
    OBVIOUS
  <2>4. \A va \in Image(c.end) : WalkAddr(pt, va) # None
    BY <1>4, <2>1, <2>2, <2>3, AllUser
  <2> QED
    BY <1>2, <2>3, <2>4
<1>10. PICK d : d = [c EXCEPT !.size = c.end, !.segs = @ + 1]
  OBVIOUS
<1>11. /\ d \in CallRec /\ d.pt = c.pt /\ d.args = c.args /\ d.mem = c.mem /\ d.size = c.end
  <3>1. c.segs + 1 \in 0..MaxSegs
    BY <1>4, <1>7
  <3> QED
    BY <1>7, <1>10, <3>1 DEF CallRec
<1>12. "load" \in Labels /\ "load" \in NewLabels /\ pc[p] \in NewLabels /\ "load" # "user"
       /\ "load" \notin ForkLabels
  BY <1>2 DEF Labels, NewLabels, LoadLabels, ForkLabels
<1>13. pc'[p] = "load" /\ call'[p] = d
  BY <1>2, <1>10, <1>11, <1>12, GoIs DEF IInv
<1>14. CallOK(p)'
  <2>1. ImageIs(d.pt, PGROUNDUP(d.size), tf)'
    <3>1. PICK pt, n : pt = c.pt /\ n = PGROUNDUP(c.end)
      OBVIOUS
    <3> QED
      BY <1>6, <1>8, <1>11, <3>1
  <2>2. ExecOK(p, d)'
    BY <1>4, <1>5, <1>6, <1>11, <1>13, <2>1 DEF ExecOK
  <2> QED
    BY <1>3, <1>11, <1>13, <2>2 DEF CallOK, MapLabels, ForkLabels, SbrkLabels, ExecLabels, LoadLabels
<1> QED
  BY <1>1, <1>2, <1>3, <1>9, <1>10, <1>11, <1>12, <1>14, Quiet

\* exec() starts to allocate the stack.
LEMMA StepStack ==
  ASSUME IInv, NEW p \in Proc, Stack(p)
  PROVE  IInv'
<1>1. PICK c \in CallRec, tf \in Page : c = call[p] /\ tf = trapframe[p]
  <2>1. pc[p] \in ExecLabels
    BY DEF Stack, At, ExecLabels, LoadLabels
  <2> QED
    BY <2>1, InExec
<1> DEFINE big == [c EXCEPT !.size = PGROUNDUP(@) * PGSIZE]
<1>2. /\ pc[p] = "load" /\ UNCHANGED <<free, tab, procVars, panicked>>
      /\ Go(p, "stack", Growing(big, big.pt, big.size, big.size + 2 * PGSIZE))
  BY <1>1 DEF Stack, At
<1>3. /\ ExecOK(p, c) /\ state[p] = "live" /\ c.mem = None /\ pc[p] \in ExecLabels
      /\ pc[p] \notin ForkLabels /\ pc[p] \notin SbrkLabels
  <2>1. pc[p] \in ExecLabels /\ pc[p] \notin MapLabels
    BY <1>2 DEF ExecLabels, LoadLabels, MapLabels
  <2> QED
    BY <1>1, <2>1, InExec
<1>4. ImageIs(c.pt, PGROUNDUP(c.size), tf) /\ NoGuard(c.pt) /\ c.size + 3 * PGSIZE <= MaxSz
  BY <1>1, <1>2, <1>3 DEF ExecOK
<1>5. tab' = tab /\ trapframe'[p] = tf /\ panicked' = FALSE
  BY <1>1, <1>2 DEF procVars, IInv, Typed
<1>6. ImageIs(c.pt, PGROUNDUP(c.size), tf)' /\ NoGuard(c.pt)'
  BY <1>4, <1>5, TabSame
<1>7. PICK k \in Nat, P \in Nat, s \in Nat :
        k = PGROUNDUP(c.size) /\ P = PGSIZE /\ P > 0 /\ s = c.size
  BY RoundUp, VmConstants DEF CallRec
<1>8. PICK b \in Nat, e \in Nat : b = k * P /\ e = b + 2 * P /\ e <= MaxSz /\ b <= e
  <2>1. k * P < s + P
    BY <1>7, MapEnd
  <2>2. k * P \in Nat
    BY <1>7
  <2> QED
    BY <1>4, <1>7, <2>1, <2>2, VmConstants
<1>9. PGROUNDUP(b) = k /\ PGROUNDUP(e) = k + 2
  <2>1. PGROUNDUP(k * PGSIZE) = k /\ PGROUNDUP(k * PGSIZE + 2 * PGSIZE) = k + 2
    BY Rounding
  <2> QED
    BY <1>7, <1>8, <2>1
<1>10. /\ big \in CallRec /\ big.pt = c.pt /\ big.size = b /\ big.args = c.args
       /\ big.mem = c.mem
  <2>1. big = [c EXCEPT !.size = b]
    BY <1>7, <1>8
  <2> QED
    BY <2>1 DEF CallRec
<1> HIDE DEF big
<1>11. PICK d \in CallRec :
          /\ d = Growing(big, big.pt, big.size, big.size + 2 * PGSIZE)
          /\ d.pt = c.pt /\ d.size = b /\ d.args = c.args
          /\ d.mem = c.mem /\ d.base = k /\ d.va = k /\ d.end = e
  <2>1. PICK pt \in Page \cup {None}, g \in CallRec : pt = c.pt /\ g = big
    BY <1>10 DEF CallRec
  <2>2. PICK d \in CallRec :
          /\ d = Growing(g, pt, b, e)
          /\ d.np = g.np /\ d.pt = pt /\ d.size = g.size /\ d.args = g.args
          /\ d.segs = g.segs /\ d.mem = g.mem /\ d.base = PGROUNDUP(b)
          /\ d.va = PGROUNDUP(b) /\ d.end = e
    BY GrowingIs
  <2>3. big.size + 2 * PGSIZE = e
    BY <1>7, <1>8, <1>10
  <2> QED
    BY <1>9, <1>10, <2>1, <2>2, <2>3
<1>12. "stack" \in Labels /\ "stack" \in NewLabels /\ pc[p] \in NewLabels /\ "stack" # "user"
       /\ "stack" \notin ForkLabels
  BY <1>2 DEF Labels, NewLabels, LoadLabels, ForkLabels
<1>13. pc'[p] = "stack" /\ call'[p] = d
  BY <1>2, <1>11, <1>12, GoIs DEF IInv
<1>14. CallOK(p)'
  <2>1. ImageIs(d.pt, d.va, tf)'
    <3>1. PICK pt, n : pt = c.pt /\ n = PGROUNDUP(c.size)
      OBVIOUS
    <3> QED
      BY <1>6, <1>7, <1>11, <3>1
  <2>2. d.base = PGROUNDUP(d.size) /\ PGROUNDUP(d.end) = d.base + 2 /\ Mapping(d, "stack")
    BY <1>8, <1>9, <1>11 DEF Mapping, MapLabels
  <2>3. ExecOK(p, d)'
    BY <1>5, <1>6, <1>8, <1>11, <1>13, <2>1, <2>2 DEF ExecOK
  <2> QED
    BY <1>3, <1>11, <1>13, <2>3 DEF CallOK, MapLabels, ForkLabels, SbrkLabels, ExecLabels, LoadLabels
<1> QED
  <2>1. Go(p, "stack", d)
    BY <1>2, <1>11
  <2> QED
    BY <1>1, <1>2, <1>3, <1>5, <1>11, <1>12, <1>14, <2>1, Quiet

-----------------------------------------------------------------------------
(***************************************************************************)
(* Steps of fork() and exec() up to the trampoline.                        *)
(***************************************************************************)

\* The images that a step of p with the slot r may change.
Own(p, r) == {pagetable[p], pagetable[r], call[p].pt} \ {None}

\* A step changes the set of images only by its own.
LEMMA ImagesChange ==
  ASSUME IInv, NEW p \in Proc, NEW r \in Proc, With(p, r),
         \A q \in Proc : q \notin {p, r} => SlotSame(q),
         \A q \in Proc : q # p => ProcSame(q)
  PROVE  /\ Own(p, r) \subseteq Images
         /\ Own(p, r)' = Own(p, r) => Images' = Images
         /\ \A x : x # None /\ Own(p, r)' = Own(p, r) \cup {x} => Images' = Images \cup {x}
         /\ \A x \in Own(p, r) : Own(p, r)' = Own(p, r) \ {x} => Images' = Images \ {x}
<1> DEFINE Rest == {u \in Images : \E q \in Proc \ {p, r} : u = pagetable[q] \/ u = call[q].pt}
<1>1. /\ r # p => call[r].pt = None
      /\ \A X \in {pagetable[p], pagetable[r], call[p].pt} :
           X # None => \A q \in Proc : q \notin {p, r} => pagetable[q] # X /\ call[q].pt # X
  <2>1. r # p => call[r] = NoCall
    BY Apart
  <2> QED
    BY <2>1, NoCallIs, Apart
<1>2. \A u : u \in Images <=> u # None /\ \E q \in Proc : u = pagetable[q] \/ u = call[q].pt
  BY ImagesIs
<1>3. \A u : u \in Images' <=> u # None /\ \E q \in Proc : u = pagetable'[q] \/ u = call'[q].pt
  BY DEF Images
<1>4. /\ r # p => call'[r].pt = None
      /\ \A q \in Proc \ {p, r} : pagetable'[q] = pagetable[q] /\ call'[q].pt = call[q].pt
  BY <1>1 DEF SlotSame, ProcSame
<1>5. Images = Own(p, r) \cup Rest
  BY <1>1, <1>2 DEF Own
<1>6. Images' = Own(p, r)' \cup Rest
  <2>1. \A u : u \in Rest <=> u # None /\ \E q \in Proc \ {p, r} : u = pagetable[q] \/ u = call[q].pt
    BY <1>2
  <2>2. \A u : u \in Own(p, r)' <=> u # None /\ (u = pagetable'[p] \/ u = pagetable'[r] \/ u = call'[p].pt)
    BY DEF Own
  <2> HIDE DEF Rest
  <2>3. \A u : u \in Images' <=> u \in Own(p, r)' \/ u \in Rest
    BY <1>3, <1>4, <2>1, <2>2
  <2> QED
    BY <2>3
<1>7. \A x \in Own(p, r) : x \notin Rest
  BY <1>1 DEF Own
<1> HIDE DEF Rest
<1> QED
  BY <1>5, <1>6, <1>7

\* A step of a system call that only changes its local variables and its image.
LEMMA InCallImages ==
  ASSUME IInv, NEW p \in Proc, pc[p] # "user", NEW L \in Labels, NEW c \in CallRec,
         Go(p, L, c), pagetable' = pagetable
  PROVE  /\ c.pt = call[p].pt => Images' = Images
         /\ call[p].pt = None /\ c.pt # None => Images' = Images \cup {c.pt}
         /\ c.pt = None /\ pc[p] \in NewLabels /\ call[p].pt # None =>
              Images' = Images \ {call[p].pt}
<1>1. PICK r \in Proc : r = R(p) /\ With(p, r)
  BY Mine
<1>2. call'[p] = c /\ \A q \in Proc : q # p => ProcSame(q)
  BY GoIs DEF IInv
<1>3. pagetable'[p] = pagetable[p] /\ pagetable'[r] = pagetable[r]
  OBVIOUS
<1>4. \A u : u \in Images <=> u # None /\ \E q \in Proc : u = pagetable[q] \/ u = call[q].pt
  BY ImagesIs
<1>5. \A u : u \in Images' <=> u # None /\ \E q \in Proc : u = pagetable[q] \/ u = call'[q].pt
  BY DEF Images
<1>6. \A q \in Proc : q # p => call'[q].pt = call[q].pt
  BY <1>2 DEF ProcSame
<1>7. ASSUME c.pt = call[p].pt PROVE Images' = Images
  <2>1. \A q \in Proc : call'[q].pt = call[q].pt
    BY <1>2, <1>6, <1>7
  <2>2. \A u : u \in Images' <=> u \in Images
    BY <1>4, <1>5, <2>1
  <2> QED
    BY <2>2
<1>8. ASSUME call[p].pt = None, c.pt # None PROVE Images' = Images \cup {c.pt}
  <2>1. \A u : u \in Images' <=> u \in Images \/ u = c.pt
    BY <1>2, <1>4, <1>5, <1>6, <1>8
  <2> QED
    BY <2>1
<1>9. ASSUME c.pt = None, pc[p] \in NewLabels, call[p].pt # None
      PROVE  Images' = Images \ {call[p].pt}
  <2>1. \A q \in Proc : call[p].pt # pagetable[q] /\ (q # p => call[p].pt # call[q].pt)
    <3>1. ASSUME NEW q \in Proc PROVE call[p].pt # pagetable[q]
      BY <1>9, RootsApart DEF IInv
    <3>2. ASSUME NEW q \in Proc, q # p, call[q].pt = call[p].pt PROVE FALSE
      <4>1. CASE pc[q] \in NewLabels
        BY <1>9, <3>2, <4>1, RootsApart DEF IInv
      <4>2. CASE pc[q] \notin NewLabels
        <5>1. \E s \in Proc : call[q].pt = pagetable[s]
          BY <1>9, <3>2, <4>2, CallImage
        <5> QED
          BY <3>1, <3>2, <5>1
      <4> QED
        BY <4>1, <4>2
    <3> QED
      BY <3>1, <3>2
  <2>2. \A u : u \in Images' <=> u \in Images /\ u # call[p].pt
    BY <1>2, <1>4, <1>5, <1>6, <1>9, <2>1
  <2> QED
    BY <2>2
<1> QED
  BY <1>7, <1>8, <1>9

\* A process may also stay where it is.
LEMMA GoSame ==
  ASSUME Typed, UNCHANGED <<pc, call>>, NEW p \in Proc
  PROVE  Go(p, pc[p], call[p])
BY DEF Typed, Go

\* No page changes the number of its holders when p goes on to L with c.
Kept(p, L, c) == \A u \in Page :
  N(u \in free') + N(u \in Owned') + N(u \in c.args) + N(u = c.mem)
      + N(L \in NewLabels /\ u = c.pt)
    = N(u \in free) + N(u \in Owned) + N(u \in call[p].args) + N(u = call[p].mem)
      + N(pc[p] \in NewLabels /\ u = call[p].pt)

\* A step of a system call that changes its own image.
LEMMA InCall ==
  ASSUME IInv, NEW p \in Proc, pc[p] # "user", NEW r \in Proc, r = R(p),
         NEW L \in Labels, L # "user", NEW c \in CallRec,
         Go(p, L, c), L \in ForkLabels <=> pc[p] \in ForkLabels,
         L \in SbrkLabels <=> pc[p] \in SbrkLabels, L \in ForkLabels => c.np = call[p].np,
         UNCHANGED procVars, free' \subseteq Page, panicked' = FALSE, Trees',
         \A qt \in Images : qt # call[p].pt => Same(qt),
         Kept(p, L, c),
         pc[p] \in ForkLabels /\ call[p].pt # None /\ pagetable[r] = call[p].pt =>
           \E n \in Nat : ImageIs(pagetable[r], n, trapframe[r])',
         CallOK(p)'
  PROVE  IInv'
<1>1. /\ With(p, r) /\ SlotOK(p) /\ SlotOK(r) /\ state[p] = "live"
      /\ pc[p] \in ForkLabels => r = call[p].np /\ r # p /\ state[r] = "used"
  BY Mine
<1>2. pc' \in [Proc -> Labels] /\ call' \in [Proc -> CallRec] /\ call'[p] = c /\ pc'[p] = L
      /\ \A q \in Proc : q # p => ProcSame(q)
  BY GoIs DEF IInv
<1>3. /\ state' = state /\ pagetable' = pagetable /\ trapframe' = trapframe /\ sz' = sz
  BY DEF procVars
<1>4. \A q \in Proc : SlotSame(q)
  BY <1>3 DEF SlotSame
<1>5. Typed'
  BY <1>2, <1>3 DEF Typed, IInv
<1>6. ASSUME NEW u \in Page PROVE Count(p, r, u)' = Count(p, r, u)
  <2>1. PICK a1, a2, a3, a4, a5, b1, b2, b3, b4, b5 :
          /\ a1 = N(u \in free') /\ a2 = N(u \in Owned') /\ a3 = N(u \in c.args)
          /\ a4 = N(u = c.mem) /\ a5 = N(L \in NewLabels /\ u = c.pt)
          /\ b1 = N(u \in free) /\ b2 = N(u \in Owned) /\ b3 = N(u \in call[p].args)
          /\ b4 = N(u = call[p].mem) /\ b5 = N(pc[p] \in NewLabels /\ u = call[p].pt)
    OBVIOUS
  <2>2. PICK d1, d2, d3, d4 :
          /\ d1 = N(u = trapframe[p]) /\ d2 = N(u = pagetable[p]) /\ d3 = N(u = trapframe[r])
          /\ d4 = N(u = pagetable[r])
    OBVIOUS
  <2>6. /\ {a1, a2, a3, a4, a5, b1, b2, b3, b4, b5} \subseteq {0, 1}
        /\ {d1, d2, d3, d4} \subseteq {0, 1}
    BY <2>1, <2>2 DEF N
  <2>3. a1 + a2 + a3 + a4 + a5 = b1 + b2 + b3 + b4 + b5
    BY <2>1 DEF Kept
  <2>4. Count(p, r, u) = b1 + b2 + d1 + b3 + b4 + d2 + b5 + (IF r = p THEN 0 ELSE d3 + d4)
    BY <2>1, <2>2 DEF Count
  <2>5. Count(p, r, u)' = a1 + a2 + d1 + a3 + a4 + d2 + a5 + (IF r = p THEN 0 ELSE d3 + d4)
    <3>1. /\ N(u \in free)' = a1 /\ N(u \in Owned)' = a2 /\ N(u \in call[p].args)' = a3
          /\ N(u = call[p].mem)' = a4 /\ N(pc[p] \in NewLabels /\ u = call[p].pt)' = a5
          /\ N(u = trapframe[p])' = d1 /\ N(u = pagetable[p])' = d2
          /\ N(u = trapframe[r])' = d3 /\ N(u = pagetable[r])' = d4
      BY <1>2, <1>3, <2>1, <2>2 DEF N
    <3> QED
      BY <3>1 DEF Count
  <2> QED
    BY <2>3, <2>4, <2>5, <2>6
<1>7. \A q \in Proc : pagetable[q] # None /\ pagetable[q] # call[p].pt => Same(pagetable[q])
  BY ImagesIs
<1>8. SlotOK(p)'
  <2>1. CASE pc[p] \in SbrkLabels
    BY <1>1, <1>2, <1>3, <2>1, VmConstants DEF SlotOK
  <2>2. CASE pc[p] \notin SbrkLabels
    <3>1. pagetable[p] # None => pagetable[p] # call[p].pt
      <4>1. CASE call[p].pt = None
        BY <4>1
      <4>2. CASE pc[p] \in NewLabels /\ call[p].pt # None
        BY <4>2, RootsApart DEF IInv
      <4>3. CASE /\ pc[p] \in {"copy", "copy_map", "fork_bad"}
                 /\ call[p].pt = pagetable[call[p].np]
        <5>1. call[p].np = r /\ r # p
          BY <1>1, <4>3 DEF ForkLabels
        <5> QED
          BY <1>1, <4>3, <5>1, RootsApart DEF IInv
      <4> QED
        BY <2>2, <4>1, <4>2, <4>3, CallImage
    <3> QED
      BY <1>1, <1>2, <1>4, <1>7, <2>2, <3>1, SlotFrame
  <2> QED
    BY <2>1, <2>2
<1>9. SlotOK(r)'
  <2>1. CASE r = p
    BY <1>8, <2>1
  <2>2. CASE r # p
    <3>1. pc[p] \in ForkLabels /\ state[r] = "used" /\ pc[r] = "user"
      <4>1. pc[p] \in ForkLabels
        BY <1>1, <2>2 DEF R
      <4>2. state[r] = "used"
        BY <1>1, <4>1
      <4> QED
        BY <1>1, <2>2, <4>1, <4>2 DEF SlotOK
    <3>2. pc'[r] = "user"
      BY <1>2, <2>2, <3>1 DEF ProcSame
    <3>3. CASE pagetable[r] = call[p].pt /\ pagetable[r] # None
      <4>1. \E n \in Nat : ImageIs(pagetable[r], n, trapframe[r])'
        BY <1>1, <3>1, <3>3
      <4>2. state'[r] = "used" /\ sz'[r] = 0
        BY <1>1, <1>3, <3>1 DEF SlotOK
      <4> QED
        BY <3>2, <4>1, <4>2 DEF SlotOK
    <3>4. CASE pagetable[r] # call[p].pt \/ pagetable[r] = None
      <4>1. pagetable[r] # None => Same(pagetable[r])
        BY <1>7, <3>4
      <4>2. "user" \notin SbrkLabels
        BY LabelsIs
      <4> QED
        BY <1>1, <1>4, <3>1, <3>2, <4>1, <4>2, SlotFrame
    <3> QED
      BY <3>3, <3>4
  <2> QED
    BY <2>1, <2>2
<1>10. pc'[p] \in ForkLabels => call'[p].np = r
  BY <1>1, <1>2
<1> QED
  BY <1>1, <1>2, <1>4, <1>5, <1>6, <1>8, <1>9, <1>10, Preserved

\* A free page is held by nobody.
LEMMA FreeApart ==
  ASSUME IInv, NEW page \in free, NEW p \in Proc
  PROVE  /\ page \in Page /\ page # None /\ page \notin Owned /\ page \notin Images
         /\ page \notin call[p].args /\ page # call[p].mem /\ page # call[p].pt
         /\ page # pagetable[p] /\ page # trapframe[p]
<1>1. page \in Loose /\ page \in Page
  BY LooseHeld
<1>2. page \notin Owned /\ page \notin Images
  BY <1>1 DEF Loose
<1>3. page # None
  BY <1>1, VmConstants
<1>4. page # call[p].pt /\ page # pagetable[p]
  BY <1>2, <1>3, ImagesIs
<1>5. Holds("free", None, page) /\ p \in 0..NPROC /\ None \in 0..NPROC
  BY ProcIs DEF Holds
<1>6. {"free", "argv", "mem", "trapframe"} \subseteq Kinds /\ OneHolder
  BY DEF Kinds, IInv
<1>7. \A k \in {"argv", "mem", "trapframe"} : ~Holds(k, p, page)
  BY <1>1, <1>5, <1>6, OneIs
<1>8. page \notin call[p].args /\ page # call[p].mem /\ page # trapframe[p]
  BY <1>7 DEF Holds
<1> QED
  BY <1>1, <1>2, <1>3, <1>4, <1>8

\* A child has one parent that makes it.
LEMMA ForkKept ==
  ASSUME IInv, NEW p \in Proc, pc[p] \in ForkLabels, NEW L \in Labels, NEW c \in CallRec,
         Go(p, L, c), c.np = call[p].np, state' = state
  PROVE  /\ c.np \in Proc /\ state'[c.np] = "used"
         /\ \A q \in Proc : pc'[q] \in ForkLabels /\ call'[q].np = c.np => q = p
<1>1. ForkOK(p, call[p])
  BY DEF IInv, CallOK
<1>2. \A q \in Proc : q # p => ProcSame(q)
  BY GoIs DEF IInv
<1>3. ASSUME NEW q \in Proc, pc'[q] \in ForkLabels, call'[q].np = c.np PROVE q = p
  <2> SUFFICES ASSUME q # p PROVE FALSE
    OBVIOUS
  <2>1. pc[q] \in ForkLabels /\ call[q].np = call[p].np
    BY <1>2, <1>3 DEF ProcSame
  <2> QED
    BY <1>1, <2>1 DEF ForkOK
<1> QED
  BY <1>1, <1>3 DEF ForkOK

\* A step of a system call that changes no memory.
LEMMA InCallSame ==
  ASSUME IInv, NEW p \in Proc, pc[p] # "user", NEW L \in Labels, L # "user", NEW c \in CallRec,
         Go(p, L, c), L \in ForkLabels <=> pc[p] \in ForkLabels,
         L \in SbrkLabels <=> pc[p] \in SbrkLabels, L \in ForkLabels => c.np = call[p].np,
         UNCHANGED <<procVars, free, tab>>, panicked' = FALSE,
         c.pt = call[p].pt, c.args = call[p].args, c.mem = call[p].mem,
         c.pt # None => (L \in NewLabels <=> pc[p] \in NewLabels),
         CallOK(p)'
  PROVE  IInv'
<1>1. PICK r \in Proc : r = R(p) /\ SlotOK(r) /\ (pc[p] \in ForkLabels => state[r] = "used")
  BY Mine
<1>2. Images' = Images
  BY InCallImages DEF procVars
<1>3. Trees' /\ Owned' = Owned
  BY <1>2 DEF IInv, Trees, Once, Levels, Points, Owned
<1>4. Kept(p, L, c)
  <2> SUFFICES ASSUME NEW u \in Page
      PROVE  N(u \in free') + N(u \in Owned') + N(u \in c.args) + N(u = c.mem)
                 + N(L \in NewLabels /\ u = c.pt)
               = N(u \in free) + N(u \in Owned) + N(u \in call[p].args) + N(u = call[p].mem)
                 + N(pc[p] \in NewLabels /\ u = call[p].pt)
    BY DEF Kept
  <2>1. (L \in NewLabels /\ u = c.pt) <=> (pc[p] \in NewLabels /\ u = call[p].pt)
    BY VmConstants
  <2> QED
    BY <1>3, <2>1 DEF N
<1>5. ASSUME pc[p] \in ForkLabels, call[p].pt # None, pagetable[r] = call[p].pt
      PROVE  \E n \in Nat : ImageIs(pagetable[r], n, trapframe[r])'
  <2>3. PICK n \in Nat : ImageIs(pagetable[r], n, trapframe[r])
    BY <1>1, <1>5 DEF SlotOK
  <2>1. PICK pt, tf : pt = pagetable[r] /\ tf = trapframe[r] /\ ImageIs(pt, n, tf)
    BY <2>3
  <2>2. ImageIs(pt, n, tf)' /\ pagetable'[r] = pt /\ trapframe'[r] = tf
    BY <2>1, TabSame DEF procVars
  <2> QED
    BY <2>2
<1>6. \A qt \in Images : Same(qt)
  BY TabSame
<1>7. free' \subseteq Page /\ UNCHANGED procVars
  BY DEF IInv, Typed
<1>8. pc[p] \in ForkLabels /\ call[p].pt # None /\ pagetable[r] = call[p].pt =>
        \E n \in Nat : ImageIs(pagetable[r], n, trapframe[r])'
  BY <1>5
<1>9. \A qt \in Images : qt # call[p].pt => Same(qt)
  BY <1>6
<1>10. r \in Proc /\ r = R(p)
  BY <1>1
<1> QED
  BY <1>3, <1>4, <1>7, <1>8, <1>9, <1>10, InCall

\* sys_exec() gets a page for an argument.
LEMMA StepFetchArg ==
  ASSUME IInv, NEW p \in Proc, FetchArg(p)
  PROVE  IInv'
<1>1. PICK c \in CallRec : c = call[p]
  BY CallIs DEF IInv
<1>2. /\ pc[p] = "args" /\ UNCHANGED <<tab, procVars, panicked>>
      /\ \/ \E page \in Page :
              /\ Kalloc(page) /\ free' = free \ {page}
              /\ Go(p, "args", [c EXCEPT !.args = @ \cup {page}])
         \/ Go(p, "exec_bad", c) /\ UNCHANGED free
  BY <1>1 DEF FetchArg, At
<1>3. ExecOK(p, c) /\ c.mem = None /\ c.pt = None
  <2>1. pc[p] \in ExecLabels /\ pc[p] \notin MapLabels
    BY <1>2 DEF ExecLabels, LoadLabels, MapLabels
  <2>2. ExecOK(p, c) /\ c.mem = None
    BY <1>1, <2>1, InExec
  <2> QED
    BY <1>2, <2>2 DEF ExecOK
<1>4. panicked' = FALSE
  BY <1>2 DEF IInv, Typed
<1>5. /\ {"args", "exec_bad"} \subseteq Labels /\ pc[p] # "user" /\ pc[p] \notin ForkLabels
      /\ "args" \notin ForkLabels /\ "exec_bad" \notin ForkLabels /\ "args" \notin NewLabels
      /\ "args" \notin SbrkLabels /\ "exec_bad" \notin SbrkLabels /\ pc[p] \notin SbrkLabels
      /\ "args" # "user" /\ "exec_bad" # "user"
  BY <1>2 DEF Labels, ForkLabels, NewLabels, LoadLabels, SbrkLabels
<1>6. CASE Go(p, "exec_bad", c) /\ UNCHANGED free
  <2>1. pc'[p] = "exec_bad" /\ call'[p] = c
    BY <1>5, <1>6, GoIs DEF IInv
  <2>2. CallOK(p)'
    BY <1>3, <2>1 DEF CallOK, ExecOK, MapLabels, ForkLabels, SbrkLabels, ExecLabels, LoadLabels
  <2> QED
    BY <1>1, <1>2, <1>3, <1>4, <1>5, <1>6, <2>2, InCallSame
<1>7. CASE \E page \in Page :
              /\ Kalloc(page) /\ free' = free \ {page}
              /\ Go(p, "args", [c EXCEPT !.args = @ \cup {page}])
  <2>1. PICK page \in Page :
              /\ Kalloc(page) /\ free' = free \ {page}
              /\ Go(p, "args", [c EXCEPT !.args = @ \cup {page}])
    BY <1>7
  <2>2. PICK d : d = [c EXCEPT !.args = @ \cup {page}]
    OBVIOUS
  <2>3. /\ d \in CallRec /\ d.pt = None /\ d.args = c.args \cup {page} /\ d.mem = None
        /\ d.size = c.size
    BY <1>3, <2>2 DEF CallRec
  <2>4. Go(p, "args", d)
    BY <2>1, <2>2
  <2>5. pc'[p] = "args" /\ call'[p] = d
    BY <1>5, <2>3, <2>4, GoIs DEF IInv
  <2>6. CallOK(p)'
    <3>1. c.size = 0
      BY <1>2, <1>3 DEF ExecOK
    <3> QED
      BY <2>3, <2>5, <3>1
         DEF CallOK, ExecOK, MapLabels, ForkLabels, SbrkLabels, ExecLabels, LoadLabels
  <2>7. page \in free /\ page \notin c.args
    <3>1. page \in free
      BY <2>1, Alloc
    <3> QED
      BY <1>1, <3>1, FreeApart
  <2>8. Images' = Images
    BY <1>1, <1>2, <1>3, <1>5, <2>3, <2>4, InCallImages DEF procVars
  <2>9. Trees' /\ Owned' = Owned
    BY <1>2, <2>8 DEF IInv, Trees, Once, Levels, Points, Owned
  <2>10. Kept(p, "args", d)
    BY <1>1, <1>2, <1>3, <1>5, <2>1, <2>3, <2>7, <2>9 DEF N, Kept
  <2>11. free' \subseteq Page /\ \A qt \in Images : Same(qt)
    BY <1>2, <2>1, TabSame DEF IInv, Typed
  <2>12. PICK r \in Proc : r = R(p)
    BY <1>5, Mine
  <2> QED
    BY <1>2, <1>4, <1>5, <2>3, <2>4, <2>6, <2>9, <2>10, <2>11, <2>12, InCall
<1> QED
  BY <1>2, <1>6, <1>7

\* uvmcreate().
LEMMA StepCreate ==
  ASSUME IInv, NEW p \in Proc, Create(p)
  PROVE  IInv'
<1>1. PICK c \in CallRec, L \in Labels, r \in Proc : c = call[p] /\ L = pc[p] /\ r = R(p)
  <2>1. pc[p] # "user"
    BY DEF Create, At
  <2> QED
    BY <2>1, CallIs, Mine DEF IInv
<1> DEFINE next == IF L = "fork_root" THEN "fork_tramp" ELSE "exec_tramp"
<1>2. /\ L \in {"fork_root", "exec_root"} /\ UNCHANGED <<tab, procVars, panicked>>
      /\ \/ \E page \in Page :
              /\ Kalloc(page) /\ free' = free \ {page}
              /\ Go(p, next, [c EXCEPT !.pt = page])
         \/ Go(p, Bad(L), c) /\ UNCHANGED free
  BY <1>1 DEF Create, At
<1>3. panicked' = FALSE /\ pc[p] # "user"
  BY <1>1, <1>2 DEF IInv, Typed
<1>4. /\ L = "fork_root" => ForkOK(p, c) /\ c.args = {}
      /\ L = "exec_root" => ExecOK(p, c)
      /\ c.mem = None
  BY <1>1, <1>2 DEF IInv, CallOK, ForkLabels, ExecLabels, LoadLabels, MapLabels
<1>5. c.pt = None
  BY <1>1, <1>2, <1>4 DEF ForkOK, ExecOK
<1>6. /\ next \in Labels /\ next \in NewLabels /\ L \notin NewLabels /\ next # "user"
      /\ next \in ForkLabels <=> L \in ForkLabels
      /\ next \in SbrkLabels <=> L \in SbrkLabels
      /\ Bad(L) \in Labels /\ Bad(L) # "user"
      /\ Bad(L) \in ForkLabels <=> L \in ForkLabels
      /\ Bad(L) \in SbrkLabels <=> L \in SbrkLabels
      /\ Bad(L) = IF L = "fork_root" THEN "fork_bad" ELSE "exec_bad"
  BY <1>2 DEF Labels, ForkLabels, NewLabels, LoadLabels, SbrkLabels, Bad
<1>7. CASE Go(p, Bad(L), c) /\ UNCHANGED free
  <2>1. PICK b \in Labels : b = Bad(L)
    BY <1>6
  <2>2. pc'[p] = b /\ call'[p] = c /\ Go(p, b, c)
    BY <1>7, <2>1, GoIs DEF IInv
  <2>3. CASE L = "exec_root"
    <3>1. CallOK(p)'
      BY <1>4, <1>5, <1>6, <2>1, <2>2, <2>3
         DEF CallOK, ExecOK, MapLabels, ForkLabels, SbrkLabels, ExecLabels, LoadLabels
    <3> QED
      BY <1>1, <1>2, <1>3, <1>5, <1>6, <1>7, <2>1, <2>2, <3>1, InCallSame
  <2>4. CASE L = "fork_root"
    <3>1. pc[p] \in ForkLabels
      BY <1>1, <2>4 DEF ForkLabels
    <3>2. /\ c.np \in Proc /\ state'[c.np] = "used"
          /\ \A q \in Proc : pc'[q] \in ForkLabels /\ call'[q].np = c.np => q = p
      BY <1>1, <1>2, <2>2, <3>1, ForkKept DEF procVars
    <3>3. pagetable'[c.np] = None
      BY <1>1, <1>2, <1>4, <2>4 DEF ForkOK, procVars
    <3>4. ForkOK(p, c)'
      BY <1>5, <1>6, <2>1, <2>2, <2>4, <3>2, <3>3 DEF ForkOK
    <3>5. CallOK(p)'
      BY <1>4, <1>6, <2>1, <2>2, <2>4, <3>4
         DEF CallOK, MapLabels, ForkLabels, SbrkLabels, ExecLabels, LoadLabels
    <3> QED
      BY <1>1, <1>2, <1>3, <1>5, <1>6, <1>7, <2>1, <2>2, <3>5, InCallSame
  <2> QED
    BY <1>2, <2>3, <2>4
<1>8. CASE \E page \in Page :
              /\ Kalloc(page) /\ free' = free \ {page}
              /\ Go(p, next, [c EXCEPT !.pt = page])
  <2>1. PICK page \in Page :
              /\ Kalloc(page) /\ free' = free \ {page}
              /\ Go(p, next, [c EXCEPT !.pt = page])
    BY <1>8
  <2>2. PICK d, b : d = [c EXCEPT !.pt = page] /\ b = next
    OBVIOUS
  <2>3. /\ d \in CallRec /\ d.pt = page /\ d.args = c.args /\ d.mem = None
        /\ d.size = c.size /\ d.np = c.np /\ d.base = c.base /\ d.va = c.va
    BY <1>4, <2>2 DEF CallRec
  <2>4. /\ b \in Labels /\ b \in NewLabels /\ b # "user"
        /\ b \in ForkLabels <=> L \in ForkLabels
        /\ b \in SbrkLabels <=> L \in SbrkLabels
        /\ b = IF L = "fork_root" THEN "fork_tramp" ELSE "exec_tramp"
    BY <1>6, <2>2
  <2> HIDE DEF next
  <2>5. Go(p, b, d)
    BY <2>1, <2>2
  <2>6. pc'[p] = b /\ call'[p] = d
    BY <2>3, <2>4, <2>5, GoIs DEF IInv
  <2>7. page \in free /\ page \notin Owned /\ page \in Loose /\ page # None /\ Trees
    <3>1. page \in free /\ page \in Loose
      BY <2>1, Alloc
    <3> QED
      BY <3>1, VmConstants DEF Loose, IInv
  <2>8. Images' = Images \cup {page}
    BY <1>1, <1>2, <1>3, <1>5, <2>3, <2>4, <2>5, <2>7, InCallImages DEF procVars
  <2>9. /\ Trees' /\ Owned' = Owned
        /\ \A qt \in Images, vb \in Va : Entry(qt, vb)' = Entry(qt, vb)
        /\ \A vb \in Va : Entry(page, vb)' = Null
    BY <1>2, <2>7, <2>8, RootAdded
  <2>10. Kept(p, b, d)
    BY <1>1, <1>4, <1>5, <1>6, <2>1, <2>3, <2>4, <2>7, <2>9 DEF N, Kept
  <2>11. free' \subseteq Page /\ \A qt \in Images : Same(qt)
    BY <2>1, <2>9 DEF IInv, Typed, Same
  <2>12. Empty(d.pt)'
    <3>1. Empty(page)'
      BY <2>9 DEF Empty
    <3> QED
      BY <2>3, <3>1
  <2>13. CASE L = "exec_root"
    <3>1. c.size = 0
      BY <1>1, <1>4, <2>13 DEF ExecOK
    <3>2. CallOK(p)'
      BY <2>3, <2>4, <2>6, <2>12, <2>13, <3>1
         DEF CallOK, ExecOK, MapLabels, ForkLabels, SbrkLabels, ExecLabels, LoadLabels
    <3> QED
      BY <1>1, <1>2, <1>3, <1>5, <2>3, <2>4, <2>5, <2>9, <2>10, <2>11, <3>2, InCall
  <2>14. CASE L = "fork_root"
    <3>1. pc[p] \in ForkLabels
      BY <1>1, <2>14 DEF ForkLabels
    <3>2. /\ d.np \in Proc /\ state'[d.np] = "used"
          /\ \A q \in Proc : pc'[q] \in ForkLabels /\ call'[q].np = d.np => q = p
      BY <1>1, <1>2, <2>3, <2>4, <2>5, <3>1, ForkKept DEF procVars
    <3>3. /\ pagetable'[d.np] = None /\ d.base = 0 /\ d.va = 0 /\ trapframe'[d.np] \in Page
      BY <1>1, <1>2, <1>4, <2>3, <2>14 DEF ForkOK, procVars
    <3>4. ForkOK(p, d)'
      BY <2>4, <2>6, <2>12, <2>14, <3>2, <3>3 DEF ForkOK
    <3>5. CallOK(p)'
      BY <1>4, <2>3, <2>4, <2>6, <2>14, <3>4
         DEF CallOK, MapLabels, ForkLabels, SbrkLabels, ExecLabels, LoadLabels
    <3> QED
      BY <1>1, <1>2, <1>3, <1>5, <2>3, <2>4, <2>5, <2>9, <2>10, <2>11, <3>5, InCall
  <2> QED
    BY <1>2, <2>13, <2>14
<1> QED
  BY <1>2, <1>7, <1>8

\* A page is taken for a table that walk() misses in the image of a call.
LEMMA WalkStep ==
  ASSUME IInv, NEW p \in Proc, pc[p] # "user", call[p].pt # None, NEW va \in Va,
         Walk(call[p].pt, va).level > 0, NEW page, Kalloc(page), free' = free \ {page},
         tab' = AddTable(call[p].pt, va, page), UNCHANGED <<pc, call, procVars, panicked>>
  PROVE  IInv'
<1>1. PICK c \in CallRec, L \in Labels, r \in Proc, pt \in Images :
        c = call[p] /\ L = pc[p] /\ r = R(p) /\ pt = call[p].pt
  BY CallIs, ImagesIs, Mine DEF IInv
<1>2. Typed /\ Trees /\ CallOK(p) /\ SlotOK(p) /\ panicked' = FALSE
  BY DEF IInv, Typed
<1>3. Go(p, L, c) /\ \A q \in Proc : ProcSame(q) /\ SlotSame(q)
  BY <1>1, <1>2, GoSame DEF ProcSame, SlotSame, procVars
<1>4. page \in free /\ page \in Loose /\ page \notin Owned
  BY Alloc DEF Loose
<1>5. Images' = Images
  BY <1>1, <1>3, InCallImages DEF procVars
<1>6. /\ Trees' /\ \A u \in Page : u \in Owned' <=> u \in Owned \/ u = page
      /\ \A qt \in Images, vb \in Va : Entry(qt, vb)' = Entry(qt, vb)
  BY <1>1, <1>2, <1>4, <1>5, TableAdded
<1>7. \A qt \in Images : Same(qt)
  BY <1>6 DEF Same
<1>8. Kept(p, L, c)
  BY <1>1, <1>4, <1>6 DEF Kept, N
<1>9. /\ pagetable[p] # None => Same(pagetable[p])
      /\ call[p].pt # None => Same(call[p].pt)
  BY <1>7, ImagesIs
<1>10. CallOK(p)'
  <2>1. ASSUME pc[p] \in ForkLabels
        PROVE  \A q \in Proc : pc'[q] \in ForkLabels /\ call'[q].np = call[p].np => q = p
    BY <1>1, <1>3, <2>1, ForkKept DEF procVars
  <2> QED
    BY <1>2, <1>3, <1>9, <2>1, CallFrame DEF procVars
<1>11. ASSUME pc[p] \in ForkLabels, pagetable[r] = call[p].pt
       PROVE  \E n \in Nat : ImageIs(pagetable[r], n, trapframe[r])'
  <2>1. SlotOK(r) /\ state[r] = "used"
    BY <1>1, <1>11, Mine
  <2>2. PICK n \in Nat : ImageIs(pagetable[r], n, trapframe[r])
    BY <1>11, <2>1 DEF SlotOK
  <2>3. PICK tf : tf = trapframe[r] /\ tf = trapframe'[r]
    BY DEF procVars
  <2>4. ImageIs(pt, n, tf)
    BY <1>1, <1>11, <2>2, <2>3
  <2>5. ImageIs(pt, n, tf)'
    BY <1>7, <2>4, ImageSame
  <2>6. pagetable'[r] = pt
    BY <1>1, <1>11 DEF procVars
  <2> QED
    BY <2>3, <2>5, <2>6
<1>12. free' \subseteq Page
  BY <1>2 DEF Typed
<1>13. pc[p] \in ForkLabels /\ call[p].pt # None /\ pagetable[r] = call[p].pt =>
         \E n \in Nat : ImageIs(pagetable[r], n, trapframe[r])'
  BY <1>11
<1>14. L # "user" /\ (L \in ForkLabels <=> pc[p] \in ForkLabels)
       /\ (L \in SbrkLabels <=> pc[p] \in SbrkLabels) /\ c.np = call[p].np
       /\ \A qt \in Images : qt # call[p].pt => Same(qt)
  BY <1>1, <1>7
<1>15. UNCHANGED procVars
  OBVIOUS
<1>16. r = R(p)
  BY <1>1
<1> QED
  BY <1>2, <1>3, <1>6, <1>8, <1>10, <1>12, <1>13, <1>14, <1>15, <1>16, InCall

\* The root of a new image is held by its call only.
LEMMA NewApart ==
  ASSUME IInv, NEW p \in Proc, pc[p] \in NewLabels, call[p].pt # None
  PROVE  call[p].pt \in Page /\ call[p].pt \notin free /\ call[p].pt \notin Owned
<1>1. PICK u \in Page : u = call[p].pt
  BY CallIs DEF IInv
<1>2. Holds("new", p, u) /\ p \in 0..NPROC /\ None \in 0..NPROC /\ {"new", "free", "owned"} \subseteq Kinds
  BY <1>1, ProcIs DEF Holds, Kinds
<1>3. \A k \in {"free", "owned"} : ~Holds(k, None, u)
  BY <1>2, OneIs DEF IInv
<1> QED
  BY <1>1, <1>3 DEF Holds

\* A table for the trampoline, or uvmfree() of the empty image.
LEMMA StepMapTrampolineWalk ==
  ASSUME IInv, NEW p \in Proc, MapTrampolineWalk(p)
  PROVE  IInv'
<1>1. PICK c \in CallRec, L \in Labels, r \in Proc : c = call[p] /\ L = pc[p] /\ r = R(p)
  <2>1. pc[p] # "user"
    BY DEF MapTrampolineWalk, At
  <2> QED
    BY <2>1, CallIs, Mine DEF IInv
<1>2. /\ L \in {"fork_tramp", "exec_tramp"} /\ Walk(c.pt, TRAMPOLINE).level > 0
      /\ UNCHANGED procVars
      /\ \/ \E page \in Page :
              /\ Kalloc(page) /\ free' = free \ {page}
              /\ tab' = AddTable(c.pt, TRAMPOLINE, page)
              /\ UNCHANGED <<pc, call, panicked>>
         \/ FreeImage(c.pt, {}, {}) /\ Go(p, Bad(L), [c EXCEPT !.pt = None])
  BY <1>1 DEF MapTrampolineWalk, At
<1>3. pc[p] # "user" /\ Trees /\ pc[p] \in NewLabels
  BY <1>1, <1>2 DEF IInv, NewLabels
<1>4. /\ L = "fork_tramp" => ForkOK(p, c) /\ c.args = {}
      /\ L = "exec_tramp" => ExecOK(p, c)
      /\ c.mem = None
  BY <1>1, <1>2 DEF IInv, CallOK, ForkLabels, ExecLabels, LoadLabels, MapLabels
<1>5. Empty(c.pt) /\ c.pt # None
  BY <1>1, <1>2, <1>4, VmConstants DEF ForkOK, ExecOK, Empty
<1>6. CASE \E page \in Page :
              /\ Kalloc(page) /\ free' = free \ {page}
              /\ tab' = AddTable(c.pt, TRAMPOLINE, page)
              /\ UNCHANGED <<pc, call, panicked>>
  <2>1. TRAMPOLINE \in Va
    BY PXAt
  <2>2. PICK page \in Page :
              /\ Kalloc(page) /\ free' = free \ {page}
              /\ tab' = AddTable(call[p].pt, TRAMPOLINE, page)
              /\ UNCHANGED <<pc, call, panicked>>
    BY <1>1, <1>6
  <2>3. Walk(call[p].pt, TRAMPOLINE).level > 0 /\ call[p].pt # None
    BY <1>1, <1>2, <1>5
  <2>4. PICK tr \in Va : tr = TRAMPOLINE
    BY <2>1
  <2>5. UNCHANGED <<pc, call, procVars, panicked>>
    BY <1>2, <2>2
  <2>6. Walk(call[p].pt, tr).level > 0 /\ tab' = AddTable(call[p].pt, tr, page)
    BY <2>2, <2>3, <2>4
  <2> QED
    BY <1>3, <2>2, <2>3, <2>5, <2>6, WalkStep
<1>7. CASE FreeImage(c.pt, {}, {}) /\ Go(p, Bad(L), [c EXCEPT !.pt = None])
  <2>1. PICK d, b : d = [c EXCEPT !.pt = None] /\ b = Bad(L)
    OBVIOUS
  <2>2. /\ d \in CallRec /\ d.pt = None /\ d.args = c.args /\ d.mem = None /\ d.np = c.np
    BY <1>4, <2>1 DEF CallRec
  <2>3. /\ b \in Labels /\ b # "user"
        /\ b \in ForkLabels <=> L \in ForkLabels
        /\ b \in SbrkLabels <=> L \in SbrkLabels
        /\ b = IF L = "fork_tramp" THEN "fork_bad" ELSE "exec_bad"
    BY <1>2, <2>1 DEF Labels, ForkLabels, NewLabels, LoadLabels, SbrkLabels, Bad
  <2>4. Go(p, b, d)
    BY <1>7, <2>1
  <2>5. pc'[p] = b /\ call'[p] = d
    BY <2>2, <2>3, <2>4, GoIs DEF IInv
  <2>6. PICK pt \in Images : pt = c.pt /\ pt \in Page /\ pt \notin free /\ pt \notin Owned
    BY <1>1, <1>3, <1>5, ImagesIs, NewApart
  <2>7. Images' = Images \ {pt}
    <3>1. d.pt = None /\ call[p].pt # None /\ call[p].pt = pt /\ pagetable' = pagetable
      BY <1>1, <1>2, <1>5, <2>2, <2>6 DEF procVars
    <3> QED
      BY <1>3, <2>2, <2>3, <2>4, <3>1, InCallImages
  <2>8. /\ panicked' = FALSE /\ Trees'
        /\ \A qt \in Images, vb \in Va : qt # pt => Entry(qt, vb)' = Entry(qt, vb)
        /\ \E M \in SUBSET Owned :
             /\ free' = free \cup {} \cup M \cup {pt}
             /\ \A u \in Page : u \in Owned' <=> u \in Owned /\ u \notin M
    <3>1. Empty(pt) /\ FreeImage(pt, {}, {})
      BY <1>5, <1>7, <2>6
    <3>2. 0 \in Nat
      OBVIOUS
    <3> QED
      BY <1>3, <2>7, <3>1, <3>2, PagetableFreed
  <2>9. PICK M \in SUBSET Owned :
             /\ free' = free \cup M \cup {pt}
             /\ \A u \in Page : u \in Owned' <=> u \in Owned /\ u \notin M
    BY <2>8
  <2>10. M \subseteq Page /\ M \cap free = {} /\ pt \notin M
    <3>1. \A u \in free : u \notin Owned
      BY FreeApart
    <3> QED
      BY <2>6, <3>1 DEF Owned
  <2>11. Kept(p, b, d)
    <3> SUFFICES ASSUME NEW u \in Page
                 PROVE  N(u \in free') + N(u \in Owned') + N(u \in d.args) + N(u = d.mem)
                            + N(b \in NewLabels /\ u = d.pt)
                          = N(u \in free) + N(u \in Owned) + N(u \in call[p].args) + N(u = call[p].mem)
                            + N(pc[p] \in NewLabels /\ u = call[p].pt)
      BY DEF Kept
    <3>1. u # None
      BY VmConstants
    <3>2. ~(b \in NewLabels /\ u = d.pt) /\ (pc[p] \in NewLabels /\ u = call[p].pt <=> u = pt)
      BY <1>1, <1>3, <2>2, <2>6, <3>1
    <3>3. /\ u \in free' <=> u \in free \/ u \in M \/ u = pt
          /\ u \in Owned' <=> u \in Owned /\ u \notin M
      BY <2>9
    <3>4. N(u \in d.args) = N(u \in call[p].args) /\ N(u = d.mem) = N(u = call[p].mem)
      BY <1>1, <1>4, <2>2
    <3>5. N(u \in free') + N(u \in Owned') + N(b \in NewLabels /\ u = d.pt)
            = N(u \in free) + N(u \in Owned) + N(pc[p] \in NewLabels /\ u = call[p].pt)
      BY <2>6, <2>10, <3>2, <3>3 DEF N
    <3>6. N(u \in d.args) \in Int /\ N(u = d.mem) \in Int /\ N(u \in free') \in Int
          /\ N(u \in Owned') \in Int /\ N(b \in NewLabels /\ u = d.pt) \in Int
          /\ N(u \in free) \in Int /\ N(u \in Owned) \in Int
          /\ N(pc[p] \in NewLabels /\ u = call[p].pt) \in Int
      BY DEF N
    <3>7. PICK a1, a2, a3, a4, a5, b1, b2, b5 \in Int :
          /\ a1 = N(u \in free') /\ a2 = N(u \in Owned') /\ a3 = N(u \in d.args)
          /\ a4 = N(u = d.mem) /\ a5 = N(b \in NewLabels /\ u = d.pt)
          /\ b1 = N(u \in free) /\ b2 = N(u \in Owned)
          /\ b5 = N(pc[p] \in NewLabels /\ u = call[p].pt)
      BY <3>6
    <3>8. a1 + a2 + a5 = b1 + b2 + b5
      BY <3>5, <3>7
    <3>9. a1 + a2 + a3 + a4 + a5 = b1 + b2 + a3 + a4 + b5
      BY <3>8
    <3> QED
      BY <3>4, <3>7, <3>9
  <2>12. free' \subseteq Page /\ \A qt \in Images : qt # call[p].pt => Same(qt)
    BY <1>1, <2>6, <2>8, <2>9, <2>10 DEF IInv, Typed, Same
  <2>13. CASE L = "exec_tramp"
    <3>1. CallOK(p)'
      BY <2>2, <2>3, <2>5, <2>13
         DEF CallOK, ExecOK, MapLabels, ForkLabels, SbrkLabels, ExecLabels, LoadLabels
    <3>2. pc[p] \notin ForkLabels
      BY <1>1, <2>13 DEF ForkLabels
    <3> QED
      BY <1>1, <1>2, <1>3, <2>2, <2>3, <2>4, <2>8, <2>11, <2>12, <3>1, <3>2, InCall
  <2>14. CASE L = "fork_tramp"
    <3>1. pc[p] \in ForkLabels
      BY <1>1, <2>14 DEF ForkLabels
    <3>2. /\ d.np \in Proc /\ state'[d.np] = "used"
          /\ \A q \in Proc : pc'[q] \in ForkLabels /\ call'[q].np = d.np => q = p
      BY <1>1, <1>2, <2>2, <2>3, <2>4, <3>1, ForkKept DEF procVars
    <3>3. pagetable'[d.np] = None /\ r = d.np /\ pagetable[r] = None
      BY <1>1, <1>2, <1>4, <2>2, <2>14, <3>1, Mine DEF ForkOK, procVars
    <3>4. ForkOK(p, d)'
      BY <2>2, <2>3, <2>5, <2>14, <3>2, <3>3 DEF ForkOK
    <3>5. CallOK(p)'
      BY <1>4, <2>2, <2>3, <2>5, <2>14, <3>4
         DEF CallOK, MapLabels, ForkLabels, SbrkLabels, ExecLabels, LoadLabels
    <3> QED
      BY <1>1, <1>2, <1>3, <2>2, <2>3, <2>4, <2>8, <2>11, <2>12, <3>3, <3>5, InCall
  <2> QED
    BY <1>2, <2>13, <2>14
<1> QED
  BY <1>2, <1>6, <1>7

\* The trampoline and the trapframe, in the image of an exec().
LEMMA StepMapTrampolineExec ==
  ASSUME IInv, NEW p \in Proc, MapTrampoline(p), pc[p] = "exec_tramp"
  PROVE  IInv'
<1>1. PICK c \in CallRec, tf \in Page : c = call[p] /\ tf = trapframe[p] /\ ExecOK(p, c) /\ c.mem = None
  <2>1. pc[p] \in ExecLabels /\ pc[p] \notin MapLabels
    BY DEF ExecLabels, MapLabels
  <2> QED
    BY <2>1, InExec
<1>2. /\ Walk(c.pt, TRAMPOLINE).level = 0
      /\ tab' = [tab EXCEPT
           ![Walk(c.pt, TRAMPOLINE).page][PX(0, TRAMPOLINE)] = [pa |-> None, kind |-> "kernel"],
           ![Walk(c.pt, TRAMPOLINE).page][PX(0, TRAPFRAME)] = [pa |-> tf, kind |-> "kernel"]]
      /\ Go(p, "load", c)
      /\ UNCHANGED <<free, procVars, panicked>>
  BY <1>1 DEF MapTrampoline, At, procVars
<1>3. pc[p] # "user" /\ Trees /\ pc[p] \in NewLabels /\ panicked' = FALSE /\ free \subseteq Page
      /\ pc[p] \notin ForkLabels /\ pc[p] \notin SbrkLabels
  BY <1>2 DEF IInv, Typed, NewLabels, ForkLabels, SbrkLabels
<1>4. Empty(c.pt) /\ c.size = 0
  BY <1>1 DEF ExecOK
<1>5. PICK pt \in Images : pt = c.pt
  BY <1>1, <1>4, ImagesIs, VmConstants DEF Empty
<1>6. "load" \in Labels /\ "load" # "user" /\ "load" \in NewLabels /\ "load" \notin ForkLabels
      /\ "load" \notin SbrkLabels
  BY DEF Labels, NewLabels, LoadLabels, ForkLabels, SbrkLabels
<1>7. Images' = Images
  BY <1>1, <1>2, <1>3, <1>6, InCallImages DEF procVars
<1>8. /\ Trees' /\ ImageIs(pt, 0, tf)' /\ NoGuard(pt)'
      /\ \A qt \in Images, vb \in Va : qt # pt => Entry(qt, vb)' = Entry(qt, vb)
      /\ \A u \in Page : u \in Owned' <=> u \in Owned
  BY <1>2, <1>3, <1>4, <1>5, <1>7, TopMapped
<1>9. Kept(p, "load", c)
  BY <1>1, <1>2, <1>3, <1>6, <1>8 DEF Kept, N
<1>10. pc'[p] = "load" /\ call'[p] = c /\ trapframe'[p] = tf
  BY <1>1, <1>2, <1>6, GoIs DEF IInv, procVars
<1>11. CallOK(p)'
  <2>1. PGROUNDUP(c.size) = 0 /\ c.size + 3 * PGSIZE <= MaxSz
    BY <1>4, Rounding, VmConstants
  <2>2. ImageIs(c.pt, PGROUNDUP(c.size), tf)' /\ NoGuard(c.pt)'
    <3>1. PICK n : n = PGROUNDUP(c.size) /\ n = 0
      BY <2>1
    <3>2. ImageIs(pt, n, tf)'
      BY <1>8, <3>1
    <3> QED
      BY <1>5, <1>8, <3>1, <3>2
  <2>3. ExecOK(p, c)'
    BY <1>10, <2>1, <2>2 DEF ExecOK
  <2> QED
    BY <1>1, <1>10, <2>3 DEF CallOK, MapLabels, ForkLabels, SbrkLabels, ExecLabels, LoadLabels
<1>12. \A qt \in Images : qt # call[p].pt => Same(qt)
  BY <1>1, <1>5, <1>8 DEF Same
<1>13. PICK r \in Proc : r = R(p)
  BY <1>3, Mine
<1> QED
  BY <1>2, <1>3, <1>6, <1>8, <1>9, <1>11, <1>12, <1>13, InCall

\* The trampoline and the trapframe, in the image of a child.
LEMMA StepMapTrampolineFork ==
  ASSUME IInv, NEW p \in Proc, MapTrampoline(p), pc[p] = "fork_tramp"
  PROVE  IInv'
<1>1. PICK c \in CallRec : c = call[p] /\ ForkOK(p, c) /\ c.mem = None /\ c.args = {}
        /\ SlotOK(p) /\ state[p] = "live"
  BY CallIs, Mine DEF IInv, CallOK, ForkLabels, ExecLabels, LoadLabels, MapLabels
<1>2. PICK r \in Proc : r = c.np /\ r = R(p) /\ r # p /\ With(p, r) /\ SlotOK(r) /\ state[r] = "used"
  BY <1>1, Mine DEF ForkLabels
<1>3. PICK tf \in Page : tf = trapframe[r]
  BY <1>1, <1>2 DEF ForkOK
<1>4. /\ Empty(c.pt) /\ pagetable[r] = None /\ c.base = 0 /\ c.va = 0
  BY <1>1, <1>2 DEF ForkOK
<1>5. PICK d : d = [c EXCEPT !.end = sz[p]]
  OBVIOUS
<1>6. /\ Walk(c.pt, TRAMPOLINE).level = 0
      /\ tab' = [tab EXCEPT
           ![Walk(c.pt, TRAMPOLINE).page][PX(0, TRAMPOLINE)] = [pa |-> None, kind |-> "kernel"],
           ![Walk(c.pt, TRAMPOLINE).page][PX(0, TRAPFRAME)] = [pa |-> tf, kind |-> "kernel"]]
      /\ pagetable' = [pagetable EXCEPT ![r] = c.pt]
      /\ Go(p, "copy", d)
      /\ UNCHANGED <<free, state, trapframe, sz, panicked>>
  BY <1>1, <1>2, <1>3, <1>5 DEF MapTrampoline, At
<1>7. Typed /\ Trees /\ panicked' = FALSE /\ pc[p] \in NewLabels
      /\ sz[p] \in Nat /\ sz[p] <= MaxSz
  <2>1. Typed /\ Trees
    BY DEF IInv
  <2>2. panicked' = FALSE
    BY <1>6, <2>1 DEF Typed
  <2> QED
    BY <2>1, <2>2, CallIs DEF NewLabels
<1>8. PICK pt \in Images : pt = c.pt /\ pt \in Page /\ pt # None
  BY <1>1, <1>4, ImagesIs, VmConstants DEF Empty
<1>9. /\ d \in CallRec /\ d.pt = pt /\ d.args = {} /\ d.mem = None /\ d.np = r
      /\ d.base = 0 /\ d.va = 0 /\ d.end = sz[p]
  BY <1>1, <1>2, <1>4, <1>5, <1>7, <1>8 DEF CallRec
<1>10. "copy" \in Labels /\ "copy" \notin NewLabels /\ "copy" \in ForkLabels /\ "copy" \notin SbrkLabels
       /\ pc[p] \in ForkLabels
  BY DEF Labels, NewLabels, LoadLabels, ForkLabels, SbrkLabels
<1>11. /\ pc' \in [Proc -> Labels] /\ call' \in [Proc -> CallRec]
       /\ pc'[p] = "copy" /\ call'[p] = d /\ \A q \in Proc : q # p => ProcSame(q)
  BY <1>6, <1>7, <1>9, <1>10, GoIs
<1>12. /\ pagetable' \in [Proc -> Page \cup {None}] /\ pagetable'[r] = pt
       /\ \A q \in Proc : q # r => SlotSame(q)
  BY <1>6, <1>7, <1>8 DEF Typed, SlotSame
<1>13. Typed'
  BY <1>6, <1>7, <1>11, <1>12 DEF Typed
<1>14. Images' = Images
  <2>1. Own(p, r)' = Own(p, r)
    BY <1>1, <1>2, <1>4, <1>8, <1>9, <1>11, <1>12 DEF Own, SlotSame
  <2> QED
    BY <1>2, <1>11, <1>12, <2>1, ImagesChange
<1>15. /\ Trees' /\ ImageIs(pt, 0, tf)' /\ NoGuard(pt)'
       /\ \A qt \in Images, vb \in Va : qt # pt => Entry(qt, vb)' = Entry(qt, vb)
       /\ \A u \in Page : u \in Owned' <=> u \in Owned
  BY <1>4, <1>6, <1>7, <1>8, <1>14, TopMapped
<1>16. \A qt \in Images : qt # pt => Same(qt)
  BY <1>15 DEF Same
<1>17. ASSUME NEW u \in Page PROVE Count(p, r, u)' = Count(p, r, u)
  <2>1. /\ trapframe'[p] = trapframe[p] /\ trapframe'[r] = trapframe[r]
        /\ pagetable'[p] = pagetable[p] /\ pagetable'[r] = pt /\ pagetable[r] = None
    BY <1>2, <1>4, <1>6, <1>12 DEF SlotSame
  <2>2. u # None
    BY VmConstants
  <2>3. call'[p].args = {} /\ call'[p].mem = None /\ call[p].args = {} /\ call[p].mem = None
        /\ pc'[p] \notin NewLabels /\ pc[p] \in NewLabels /\ call[p].pt = pt
    BY <1>1, <1>7, <1>8, <1>9, <1>10, <1>11
  <2> QED
    BY <1>2, <1>6, <1>15, <2>1, <2>2, <2>3 DEF Count, N
<1>18. pagetable[p] # pt /\ pagetable[p] \in Images
  <2>1. pagetable[p] # pt
    BY <1>1, <1>7, <1>8, RootsApart DEF IInv
  <2>2. pagetable[p] # None
    BY <1>1, VmConstants DEF SlotOK
  <2> QED
    BY <2>1, <2>2, ImagesIs
<1>19. SlotOK(p)'
  <2>1. Same(pagetable[p]) /\ SlotSame(p)
    BY <1>2, <1>12, <1>16, <1>18
  <2>2. pc[p] \notin SbrkLabels
    BY DEF SbrkLabels
  <2> QED
    BY <1>1, <2>1, <2>2, SlotFrame
<1>20. SlotOK(r)'
  <2>1. pc'[r] = "user"
    BY <1>2, <1>11 DEF ProcSame, SlotOK
  <2>2. state'[r] = "used" /\ sz'[r] = 0 /\ trapframe'[r] = tf /\ pagetable'[r] = pt
    BY <1>2, <1>3, <1>6, <1>12 DEF SlotOK
  <2>3. ImageIs(pagetable[r], 0, trapframe[r])'
    BY <1>15, <2>2
  <2> QED
    BY <2>1, <2>2, <2>3 DEF SlotOK
<1>21. CallOK(p)'
  <2>1. /\ d.np \in Proc /\ state'[d.np] = "used"
        /\ \A q \in Proc : pc'[q] \in ForkLabels /\ call'[q].np = d.np => q = p
    <3>1. d.np = call[p].np /\ state' = state /\ Go(p, "copy", d)
      BY <1>1, <1>2, <1>6, <1>9
    <3> QED
      BY <1>9, <1>10, <3>1, ForkKept
  <2>2. pagetable'[d.np] = pt /\ trapframe'[d.np] = tf /\ sz'[p] = sz[p]
    BY <1>3, <1>6, <1>9, <1>12
  <2>3. Mapping(d, "copy")
    <3>1. PICK z \in Nat : z = sz[p] /\ z <= MaxSz
      BY <1>7
    <3>2. PGROUNDUP(z) \in Nat
      BY RoundUp
    <3> QED
      BY <1>9, <3>1, <3>2 DEF Mapping, MapLabels
  <2>4. ImageIs(d.pt, d.va, tf)'
    BY <1>9, <1>15
  <2>5. \A va \in Va : ~(va < d.va)
    BY <1>9 DEF Va
  <2>6. ForkOK(p, d)'
    BY <1>9, <1>11, <2>1, <2>2, <2>3, <2>4, <2>5 DEF ForkOK
  <2> QED
    BY <1>9, <1>11, <2>6 DEF CallOK, MapLabels, ForkLabels, SbrkLabels, ExecLabels, LoadLabels
<1>22. pt = call[p].pt /\ call'[p].np = r
  BY <1>1, <1>8, <1>9, <1>11
<1>23. \A q \in Proc : q \notin {p, r} => SlotSame(q)
  BY <1>12
<1> QED
  BY <1>2, <1>11, <1>13, <1>15, <1>16, <1>17, <1>19, <1>20, <1>21, <1>22, <1>23, Preserved

-----------------------------------------------------------------------------
(***************************************************************************)
(* Steps of the loops of uvmcopy() and uvmalloc(), and their failures.     *)
(***************************************************************************)

\* The loops of uvmcopy() and uvmalloc().
Loops == {"copy", "sbrk", "seg", "stack"}

\* What the label functions of Vm say of the loops.
LEMMA MapLabelIs ==
  /\ DOMAIN MapLabel = Loops /\ Range(MapLabel) = MapLabels /\ Loops \cap MapLabels = {}
  /\ MapLabel["copy"] = "copy_map" /\ MapLabel["sbrk"] = "sbrk_map"
  /\ MapLabel["seg"] = "seg_map" /\ MapLabel["stack"] = "stack_map"
  /\ \A l \in Loops : MapLabel[l] \in MapLabels /\ LoopLabel(MapLabel[l]) = l
  /\ \A m \in MapLabels : LoopLabel(m) \in Loops /\ MapLabel[LoopLabel(m)] = m
<1>1. DOMAIN MapLabel = Loops /\ Loops \cap MapLabels = {}
  BY DEF MapLabel, Loops, MapLabels
<1>2. MapLabel["copy"] = "copy_map" /\ MapLabel["sbrk"] = "sbrk_map"
      /\ MapLabel["seg"] = "seg_map" /\ MapLabel["stack"] = "stack_map"
  BY DEF MapLabel
<1>3. \A l \in Loops : MapLabel[l] \in MapLabels
  BY <1>2 DEF Loops, MapLabels
<1>4. \A m \in MapLabels : \E l \in Loops : MapLabel[l] = m
  BY <1>2 DEF Loops, MapLabels
<1>5. \A l, k \in Loops : MapLabel[l] = MapLabel[k] => l = k
  BY <1>2 DEF Loops
<1>6. Range(MapLabel) = MapLabels
  BY <1>1, <1>3, <1>4 DEF Range
<1>7. \A m \in MapLabels : LoopLabel(m) \in Loops /\ MapLabel[LoopLabel(m)] = m
  BY <1>1, <1>4 DEF LoopLabel
<1>8. \A l \in Loops : LoopLabel(MapLabel[l]) = l
  BY <1>3, <1>5, <1>7
<1> QED
  BY <1>1, <1>2, <1>3, <1>6, <1>7, <1>8

\* A call that is in the loop l.
LEMMA InMap ==
  ASSUME IInv, NEW p \in Proc, NEW l \in Loops, pc[p] \in {l, MapLabel[l]}
  PROVE  \E c \in CallRec, r \in Proc, tf \in Page, pt \in Images :
           /\ c = call[p] /\ r = R(p) /\ tf = trapframe[r] /\ pt = c.pt
           /\ c.base <= c.va /\ c.va <= PGROUNDUP(c.end) /\ c.end <= MaxSz
           /\ pc[p] \in MapLabels => c.va * PGSIZE < c.end
           /\ ImageIs(pt, c.va, tf)
           /\ c.mem # None <=> pc[p] \in MapLabels
           /\ l = "copy" <=> pc[p] \in ForkLabels
           /\ l = "sbrk" <=> pc[p] \in SbrkLabels
           /\ l \in {"seg", "stack"} <=> pc[p] \in ExecLabels
           /\ l \in {"seg", "stack"} <=> pc[p] \in NewLabels
           /\ l = "copy" => ForkOK(p, c) /\ r = c.np /\ pt = pagetable[r] /\ r # p /\ state[r] = "used"
           /\ l = "sbrk" => SbrkOK(p, c) /\ pt = pagetable[p] /\ r = p
           /\ l \in {"seg", "stack"} => ExecOK(p, c) /\ r = p
           /\ pc[p] # "user" /\ state[p] = "live"
<1>1. PICK c, L : c = call[p] /\ L = pc[p]
  OBVIOUS
<1>2. /\ L # "user" /\ l = "copy" <=> L \in ForkLabels
      /\ l = "sbrk" <=> L \in SbrkLabels
      /\ l \in {"seg", "stack"} <=> L \in ExecLabels
      /\ l \in {"seg", "stack"} <=> L \in NewLabels
      /\ l = "copy" => L \in {"copy", "copy_map"}
      /\ l \in {"seg", "stack"} => L \in {"seg", "seg_map", "stack", "stack_map"}
  BY <1>1, MapLabelIs DEF Loops, ForkLabels, SbrkLabels, ExecLabels, LoadLabels, NewLabels
<1>3. /\ l = "copy" => L \in ForkLabels
      /\ l = "copy" <=> L \in ForkLabels
      /\ L # "user"
  BY <1>1, MapLabelIs DEF Loops, ForkLabels
<1>4. PICK r \in Proc : r = R(p) /\ CallOK(p) /\ state[p] = "live" /\ c \in CallRec
        /\ trapframe[p] \in Page
        /\ (L \in ForkLabels => r # p /\ ForkOK(p, c) /\ r = c.np /\ state[r] = "used")
        /\ (L \notin ForkLabels => r = p)
  BY <1>1, <1>3, Mine, CallIs DEF IInv
<1>5. CASE l = "copy"
  <2>1. ForkOK(p, c) /\ r = c.np /\ r # p
    BY <1>3, <1>4, <1>5
  <2>2. /\ c.pt = pagetable[r] /\ Mapping(c, L) /\ ImageIs(c.pt, c.va, trapframe[r])
    BY <1>1, <1>2, <1>5, <2>1 DEF ForkOK
  <2>3. c.pt \in Images /\ trapframe[r] \in Page
    BY <1>1, <2>2, ImagesIs, VmConstants DEF ImageIs
  <2> QED
    BY <1>1, <1>2, <1>3, <1>4, <1>5, <2>1, <2>2, <2>3 DEF Mapping, CallOK
<1>6. CASE l = "sbrk"
  <2>1. SbrkOK(p, c) /\ r = p
    BY <1>1, <1>2, <1>3, <1>4, <1>6 DEF CallOK
  <2>2. /\ c.pt = pagetable[p] /\ Mapping(c, L) /\ ImageIs(c.pt, c.va, trapframe[p])
    BY <1>1, <2>1 DEF SbrkOK
  <2>3. c.pt \in Images
    BY <1>1, <2>2, ImagesIs, VmConstants DEF ImageIs
  <2> QED
    BY <1>1, <1>2, <1>3, <1>4, <1>6, <2>1, <2>2, <2>3 DEF Mapping, CallOK
<1>7. CASE l \in {"seg", "stack"}
  <2>1. ExecOK(p, c) /\ r = p
    BY <1>1, <1>2, <1>3, <1>4, <1>7 DEF CallOK
  <2>2. /\ Mapping(c, L) /\ ImageIs(c.pt, c.va, trapframe[p])
    BY <1>1, <1>2, <1>7, <2>1 DEF ExecOK
  <2>3. c.pt \in Images
    BY <1>1, <2>2, ImagesIs, VmConstants DEF ImageIs
  <2> QED
    BY <1>1, <1>2, <1>3, <1>4, <1>7, <2>1, <2>2, <2>3 DEF Mapping, CallOK
<1> QED
  BY <1>5, <1>6, <1>7 DEF Loops

\* The call of p stays in the loop l.
LEMMA MapGoes ==
  ASSUME IInv, NEW p \in Proc, NEW l \in Loops, pc[p] \in {l, MapLabel[l]},
         NEW L \in {l, MapLabel[l]}, NEW c \in CallRec, Go(p, L, c), UNCHANGED procVars,
         NEW r \in Proc, r = R(p),
         c.np = call[p].np, c.pt = call[p].pt, c.size = call[p].size, c.args = call[p].args,
         c.segs = call[p].segs, c.base = call[p].base, c.end = call[p].end,
         c.mem # None <=> L \in MapLabels, c.base <= c.va, c.va <= PGROUNDUP(c.end),
         L \in MapLabels => c.va * PGSIZE < c.end,
         NEW pt, pt = c.pt, NEW n, n = c.va, NEW tf, tf = trapframe[r],
         ImageIs(pt, n, tf)', l \in {"seg", "stack"} => NoGuard(pt)',
         NEW pp, pp = pagetable[p],
         l = "copy" => \A va \in Va : va < n => Entry(pt, va)'.kind = Entry(pp, va)'.kind
  PROVE  CallOK(p)'
<1>1. PICK o \in CallRec :
        /\ o = call[p]
        /\ pc[p] \in MapLabels => o.va * PGSIZE < o.end
        /\ l = "copy" <=> pc[p] \in ForkLabels
        /\ l = "copy" => ForkOK(p, o) /\ r = o.np
        /\ l = "sbrk" => SbrkOK(p, o) /\ r = p
        /\ l \in {"seg", "stack"} => ExecOK(p, o) /\ r = p
        /\ o.end <= MaxSz
  BY InMap
<1>2. L \in Labels /\ L # "user" /\ pc' [p] = L /\ call'[p] = c
  <2>1. L \in Labels /\ L # "user"
    BY MapLabelIs DEF Loops, Labels
  <2> QED
    BY <2>1, GoIs DEF IInv
<1>3. /\ state' = state /\ pagetable' = pagetable /\ trapframe' = trapframe /\ sz' = sz
  BY DEF procVars
<1>4. Mapping(c, L)
  BY <1>1 DEF Mapping
<1>5. CASE l = "copy"
  <2>1. L \in {"copy", "copy_map"} /\ pc[p] \in {"copy", "copy_map"}
    BY <1>5, MapLabelIs
  <2>2. /\ c.np \in Proc /\ state'[c.np] = "used"
        /\ \A q \in Proc : pc'[q] \in ForkLabels /\ call'[q].np = c.np => q = p
    BY <1>1, <1>2, <1>3, <1>5, ForkKept
  <2>3. /\ o.pt = pagetable[o.np] /\ o.base = 0 /\ o.end = sz[p] /\ r = c.np
    BY <1>1, <1>5, <2>1 DEF ForkOK
  <2>4. pagetable'[c.np] = pt /\ trapframe'[c.np] = tf /\ pagetable'[p] = pp
    BY <1>1, <1>3, <2>3
  <2>5. ForkOK(p, c)'
    BY <1>1, <1>2, <1>3, <1>4, <1>5, <2>1, <2>2, <2>3, <2>4 DEF ForkOK
  <2>6. c.args = {}
    BY <1>1, <2>1 DEF IInv, CallOK, ExecLabels, LoadLabels
  <2> QED
    BY <1>2, <2>1, <2>5, <2>6 DEF CallOK, ForkLabels, SbrkLabels, ExecLabels, LoadLabels
<1>6. CASE l = "sbrk"
  <2>1. L \in {"sbrk", "sbrk_map"} /\ pc[p] \in {"sbrk", "sbrk_map"}
    BY <1>6, MapLabelIs
  <2>2. o.pt = pagetable[p] /\ o.base = PGROUNDUP(sz[p]) /\ sz[p] <= o.end
    BY <1>1, <1>6 DEF SbrkOK
  <2>3. trapframe'[p] = tf
    BY <1>1, <1>3, <1>6
  <2>4. SbrkOK(p, c)'
    BY <1>1, <1>2, <1>3, <1>4, <2>1, <2>2, <2>3 DEF SbrkOK
  <2>5. c.args = {}
    BY <1>1, <2>1 DEF IInv, CallOK, ExecLabels, LoadLabels
  <2> QED
    BY <1>2, <2>1, <2>4, <2>5 DEF CallOK, ForkLabels, SbrkLabels, ExecLabels, LoadLabels
<1>7. CASE l \in {"seg", "stack"}
  <2>1. /\ L \in {"seg", "seg_map", "stack", "stack_map"}
        /\ L \in {"seg", "seg_map"} => pc[p] \in {"seg", "seg_map"}
        /\ L \in {"stack", "stack_map"} => pc[p] \in {"stack", "stack_map"}
    BY <1>7, MapLabelIs
  <2>2. /\ o.base = PGROUNDUP(o.size) /\ o.size <= o.end
        /\ L \in {"seg", "seg_map"} => /\ o.size + 3 * PGSIZE <= MaxSz
                                       /\ o.end + 3 * PGSIZE <= MaxSz /\ o.segs < MaxSegs
        /\ L \in {"stack", "stack_map"} => PGROUNDUP(o.end) = o.base + 2
    BY <1>1, <1>7, <2>1 DEF ExecOK
  <2>3. trapframe'[p] = tf
    BY <1>1, <1>3, <1>7
  <2>4. ExecOK(p, c)'
    BY <1>1, <1>2, <1>4, <1>7, <2>1, <2>2, <2>3 DEF ExecOK
  <2> QED
    BY <1>2, <2>1, <2>4 DEF CallOK, ForkLabels, SbrkLabels, ExecLabels, LoadLabels
<1> QED
  BY <1>5, <1>6, <1>7 DEF Loops

\* A page for the loop, not mapped yet.
LEMMA PageTaken ==
  ASSUME IInv, NEW p \in Proc, NEW l \in Loops, pc[p] = l, MoreToMap(p), NEW page,
         Kalloc(page), free' = free \ {page},
         Go(p, MapLabel[l], [call[p] EXCEPT !.mem = page]),
         UNCHANGED <<tab, procVars, panicked>>
  PROVE  IInv'
<1>1. PICK c \in CallRec, r \in Proc, tf \in Page, pt \in Images :
           /\ c = call[p] /\ r = R(p) /\ tf = trapframe[r] /\ pt = c.pt
           /\ c.base <= c.va /\ c.va <= PGROUNDUP(c.end)
           /\ ImageIs(pt, c.va, tf) /\ c.mem = None
           /\ l = "copy" <=> pc[p] \in ForkLabels
           /\ l = "sbrk" <=> pc[p] \in SbrkLabels
           /\ l \in {"seg", "stack"} <=> pc[p] \in NewLabels
           /\ l = "copy" => ForkOK(p, c) /\ pt = pagetable[r]
           /\ l \in {"seg", "stack"} => ExecOK(p, c)
           /\ pc[p] # "user"
  BY InMap, MapLabelIs
<1>2. PICK d, L : d = [c EXCEPT !.mem = page] /\ L = MapLabel[l]
  OBVIOUS
<1>3. page \in free /\ page \in Page /\ page \notin Owned /\ page # None
  <2>1. page \in free
    BY Alloc
  <2> QED
    BY <2>1, FreeApart
<1>4. /\ d \in CallRec /\ d.np = c.np /\ d.pt = c.pt /\ d.size = c.size /\ d.args = c.args
      /\ d.segs = c.segs /\ d.base = c.base /\ d.end = c.end /\ d.va = c.va /\ d.mem = page
  BY <1>2, <1>3 DEF CallRec
<1>5. /\ L \in MapLabels /\ L \in Labels /\ L # "user"
      /\ L \in ForkLabels <=> pc[p] \in ForkLabels
      /\ L \in SbrkLabels <=> pc[p] \in SbrkLabels
      /\ L \in NewLabels <=> pc[p] \in NewLabels
  BY <1>2, MapLabelIs DEF Loops, Labels, ForkLabels, SbrkLabels, NewLabels, LoadLabels
<1>6. Go(p, L, d) /\ UNCHANGED procVars /\ tab' = tab
  BY <1>1, <1>2
<1>7. Typed /\ Trees /\ panicked' = FALSE /\ free' \subseteq Page
  BY DEF IInv, Typed
<1>8. Images' = Images
  BY <1>1, <1>4, <1>5, <1>6, InCallImages DEF procVars
<1>9. Trees' /\ Owned' = Owned
  BY <1>6, <1>7, <1>8 DEF Trees, Once, Levels, Points, Owned
<1>10. Kept(p, L, d)
  <2> SUFFICES ASSUME NEW u \in Page
               PROVE  N(u \in free') + N(u \in Owned') + N(u \in d.args) + N(u = d.mem)
                          + N(L \in NewLabels /\ u = d.pt)
                        = N(u \in free) + N(u \in Owned) + N(u \in call[p].args) + N(u = call[p].mem)
                          + N(pc[p] \in NewLabels /\ u = call[p].pt)
    BY DEF Kept
  <2>1. u # None
    BY VmConstants
  <2>2. (L \in NewLabels /\ u = d.pt) <=> (pc[p] \in NewLabels /\ u = call[p].pt)
    BY <1>1, <1>4, <1>5
  <2> QED
    BY <1>1, <1>3, <1>4, <1>9, <2>1, <2>2 DEF N
<1>11. PICK n, pp : n = c.va /\ pp = pagetable[p]
  OBVIOUS
<1>12. ImageIs(pt, n, tf)'
  BY <1>1, <1>6, <1>11, TabSame
<1>13. l \in {"seg", "stack"} => NoGuard(pt)'
  <2>1. l \in {"seg", "stack"} => NoGuard(pt)
    BY <1>1 DEF ExecOK
  <2> QED
    BY <1>6, <2>1, TabSame
<1>14. l = "copy" => \A va \in Va : va < n => Entry(pt, va)'.kind = Entry(pp, va)'.kind
  <2>1. l = "copy" => \A va \in Va : va < n => Entry(pt, va).kind = Entry(pp, va).kind
    BY <1>1, <1>11 DEF ForkOK
  <2>2. \A va \in Va : Entry(pt, va)' = Entry(pt, va) /\ Entry(pp, va)' = Entry(pp, va)
    BY <1>6, TabSame DEF Same
  <2> QED
    BY <2>1, <2>2
<1>15. CallOK(p)'
  <2>1. d.va * PGSIZE < d.end
    BY <1>1, <1>4 DEF MoreToMap
  <2>2. L \in {l, MapLabel[l]} /\ pc[p] \in {l, MapLabel[l]} /\ pt = d.pt /\ n = d.va
    BY <1>1, <1>2, <1>4, <1>11
  <2>3. /\ d.np = call[p].np /\ d.pt = call[p].pt /\ d.size = call[p].size
        /\ d.args = call[p].args /\ d.segs = call[p].segs /\ d.base = call[p].base
        /\ d.end = call[p].end /\ d.base <= d.va /\ d.va <= PGROUNDUP(d.end)
        /\ d.mem # None <=> L \in MapLabels
    BY <1>1, <1>3, <1>4, <1>5
  <2> QED
    BY <1>1, <1>4, <1>6, <1>11, <1>12, <1>13, <1>14, <2>1, <2>2, <2>3, MapGoes
<1>16. \A qt \in Images : qt # call[p].pt => Same(qt)
  BY <1>6, TabSame
<1>17. pc[p] \in ForkLabels /\ call[p].pt # None /\ pagetable[r] = call[p].pt =>
         \E k \in Nat : ImageIs(pagetable[r], k, trapframe[r])'
  <2> SUFFICES ASSUME pc[p] \in ForkLabels PROVE ImageIs(pagetable[r], n, trapframe[r])' /\ n \in Nat
    OBVIOUS
  <2>1. pagetable'[r] = pt /\ trapframe'[r] = tf
    BY <1>1, <1>6 DEF procVars
  <2> QED
    BY <1>1, <1>11, <1>12, <2>1 DEF CallRec
<1>18. r = R(p) /\ d.np = call[p].np
  BY <1>1, <1>4
<1> QED
  BY <1>1, <1>4, <1>5, <1>6, <1>7, <1>9, <1>10, <1>15, <1>16, <1>17, <1>18, InCall

\* mappages() of a page: it does not panic.
LEMMA StepMapMem ==
  ASSUME IInv, NEW p \in Proc, MapMem(p)
  PROVE  IInv'
<1>1. pc[p] \in MapLabels
  BY MapLabelIs DEF MapMem, At
<1>2. PICK l \in Loops : pc[p] = MapLabel[l] /\ LoopLabel(pc[p]) = l
  BY <1>1, MapLabelIs
<1>3. PICK c \in CallRec, r \in Proc, tf \in Page, pt \in Images :
           /\ c = call[p] /\ r = R(p) /\ tf = trapframe[r] /\ pt = c.pt
           /\ c.base <= c.va /\ c.va <= PGROUNDUP(c.end) /\ c.end <= MaxSz
           /\ c.va * PGSIZE < c.end
           /\ ImageIs(pt, c.va, tf) /\ c.mem # None
           /\ l = "copy" <=> pc[p] \in ForkLabels
           /\ l = "sbrk" <=> pc[p] \in SbrkLabels
           /\ l \in {"seg", "stack"} <=> pc[p] \in NewLabels
           /\ l = "copy" => ForkOK(p, c) /\ pt = pagetable[r] /\ r # p
           /\ l \in {"seg", "stack"} => ExecOK(p, c)
           /\ pc[p] # "user" /\ state[p] = "live"
  BY <1>1, <1>2, InMap
<1>4. PICK n \in Nat, mem \in Page, pp \in Page : n = c.va /\ mem = c.mem /\ pp = pagetable[p]
  BY <1>3, CallIs, Mine, VmConstants DEF CallRec
<1> DEFINE copied == Entry(pagetable[p], c.va).kind
<1>5. PICK kind : kind = IF pc[p] = "copy_map" THEN copied ELSE "user"
  OBVIOUS
<1>6. PICK d : d = [c EXCEPT !.mem = None, !.va = @ + 1]
  OBVIOUS
<1>7. /\ Walk(pt, n).level = 0
      /\ panicked' = (Entry(pt, n) # Null \/ kind = "none")
      /\ tab' = SetEntry(pt, n, [pa |-> mem, kind |-> kind])
      /\ Go(p, l, d)
      /\ UNCHANGED <<free, procVars>>
  BY <1>2, <1>3, <1>4, <1>5, <1>6 DEF MapMem
<1> HIDE DEF copied
<1>8. /\ d \in CallRec /\ d.np = c.np /\ d.pt = c.pt /\ d.size = c.size /\ d.args = c.args
      /\ d.segs = c.segs /\ d.base = c.base /\ d.end = c.end /\ d.va = n + 1 /\ d.mem = None
  <2>1. d = [c EXCEPT !.mem = None, !.va = n + 1]
    BY <1>4, <1>6
  <2>2. n + 1 \in Nat
    OBVIOUS
  <2> QED
    BY <2>1, <2>2 DEF CallRec
<1>9. Typed /\ Trees /\ mem \in Loose /\ c.end \in Nat /\ PGROUNDUP(c.end) \in Nat
  BY <1>3, <1>4, LooseHeld, RoundUp DEF IInv, CallRec
<1>10. n < PGROUNDUP(c.end) /\ n < TRAPFRAME /\ n + 1 <= PGROUNDUP(c.end)
  <2>1. n < PGROUNDUP(c.end)
    BY <1>3, <1>4, <1>9, Rounding
  <2>2. PGROUNDUP(c.end) <= TRAPFRAME
    BY <1>3, <1>9, Rounding
  <2> QED
    BY <1>9, <2>1, <2>2, PXAt
<1>11. n \in Va
  BY <1>10, PXAt DEF Va
<1>12. l = "copy" => /\ ImageIs(pp, PGROUNDUP(c.end), trapframe[p]) /\ pp \in Images /\ pp # pt
                     /\ \A va \in Va : va < n => Entry(pt, va).kind = Entry(pp, va).kind
                     /\ kind = Entry(pp, n).kind
  <2> SUFFICES ASSUME l = "copy"
               PROVE  /\ ImageIs(pp, PGROUNDUP(c.end), trapframe[p]) /\ pp \in Images /\ pp # pt
                      /\ \A va \in Va : va < n => Entry(pt, va).kind = Entry(pp, va).kind
                      /\ kind = Entry(pp, n).kind
    OBVIOUS
  <2>1. pc[p] = "copy_map" /\ pc[p] \notin SbrkLabels
    BY <1>2, <1>3, MapLabelIs
  <2>2. c.end = sz[p] /\ \A va \in Va : va < n => Entry(pt, va).kind = Entry(pp, va).kind
    BY <1>3, <1>4, <2>1 DEF ForkOK
  <2>3. ImageIs(pp, PGROUNDUP(sz[p]), trapframe[p])
    BY <1>3, <1>4, <2>1 DEF IInv, SlotOK
  <2>4. ImageIs(pp, PGROUNDUP(c.end), trapframe[p])
    BY <2>2, <2>3
  <2>5. pp # pt /\ pp \in Images
    BY <1>3, <1>4, RootsApart, ImagesIs, VmConstants DEF IInv
  <2> QED
    BY <1>4, <1>5, <2>1, <2>2, <2>4, <2>5 DEF copied
<1>13. kind \in {"user", "guard"} /\ (kind = "user" \/ NoGuard(pt))
  <2>1. CASE l = "copy"
    <3>1. kind = Entry(pp, n).kind /\ kind \in {"user", "guard"}
      BY <1>10, <1>11, <1>12, <2>1 DEF ImageIs
    <3>2. ASSUME kind = "guard", NEW va \in Va, Entry(pt, va).kind = "guard" PROVE FALSE
      <4>1. CASE va < n
        <5>1. Entry(pp, va).kind = "guard"
          BY <1>12, <2>1, <3>2, <4>1
        <5>2. va = n
          BY <1>11, <1>12, <2>1, <3>1, <3>2, <5>1 DEF ImageIs
        <5> QED
          BY <1>4, <4>1, <5>2
      <4>2. CASE n <= va
        <5>1. /\ \A vb \in Va : Entry(pt, vb) = Null <=> n <= vb /\ vb < TRAPFRAME
              /\ Entry(pt, TRAMPOLINE).kind = "kernel"
              /\ Entry(pt, TRAPFRAME).kind = "kernel"
          BY <1>3, <1>4 DEF ImageIs
        <5>2. va = TRAMPOLINE \/ va = TRAPFRAME \/ va < TRAPFRAME
          BY PXAt DEF Va
        <5>3. Null.kind # "guard"
          BY DEF Null
        <5> QED
          BY <3>2, <4>2, <5>1, <5>2, <5>3
      <4> QED
        BY <1>4, <4>1, <4>2 DEF Va
    <3> QED
      BY <3>1, <3>2 DEF NoGuard
  <2>2. CASE l # "copy"
    <3>1. pc[p] # "copy_map"
      BY <1>2, <2>2, MapLabelIs DEF Loops
    <3> QED
      BY <1>5, <3>1
  <2> QED
    BY <2>1, <2>2
<1>14. /\ l \in Labels /\ l # "user" /\ l \notin MapLabels
       /\ l \in ForkLabels <=> pc[p] \in ForkLabels
       /\ l \in SbrkLabels <=> pc[p] \in SbrkLabels
       /\ l \in NewLabels <=> pc[p] \in NewLabels
  BY <1>3, MapLabelIs DEF Loops, Labels, ForkLabels, SbrkLabels, NewLabels, LoadLabels
<1>15. Images' = Images
  BY <1>3, <1>7, <1>8, <1>14, InCallImages DEF procVars
<1>16. /\ Trees' /\ ImageIs(pt, n + 1, tf)' /\ Entry(pt, n) = Null
       /\ \A qt \in Images, vb \in Va : qt # pt \/ vb # n => Entry(qt, vb)' = Entry(qt, vb)
       /\ Entry(pt, n)' = [pa |-> mem, kind |-> kind]
       /\ \A u \in Page : u \in Owned' <=> u \in Owned \/ u = mem
  <2>1. ImageIs(pt, n, tf)
    BY <1>3, <1>4
  <2>2. /\ Walk(pt, n).level = 0 /\ tab' = SetEntry(pt, n, [pa |-> mem, kind |-> kind])
        /\ Trees /\ mem \in Loose /\ n < TRAPFRAME /\ kind \in {"user", "guard"}
        /\ kind = "user" \/ NoGuard(pt)
    BY <1>7, <1>9, <1>10, <1>13
  <2> QED
    <3>1. PICK e : e = [pa |-> mem, kind |-> kind]
      OBVIOUS
    <3>2. tab' = SetEntry(pt, n, e)
      BY <2>2, <3>1
    <3>3. /\ Trees' /\ ImageIs(pt, n + 1, tf)' /\ Entry(pt, n) = Null
          /\ \A qt \in Images, vb \in Va :
               Entry(qt, vb)' = IF qt = pt /\ vb = n THEN e ELSE Entry(qt, vb)
          /\ \A u \in Page : u \in Owned' <=> u \in Owned \/ u = mem
      BY <1>15, <2>1, <2>2, <3>1, <3>2, PageMapped
    <3> QED
      BY <1>11, <3>1, <3>3
<1>17. panicked' = FALSE /\ free' \subseteq Page
  BY <1>7, <1>9, <1>13, <1>16 DEF Typed
<1>18. Kept(p, l, d)
  <2> SUFFICES ASSUME NEW u \in Page
               PROVE  N(u \in free') + N(u \in Owned') + N(u \in d.args) + N(u = d.mem)
                          + N(l \in NewLabels /\ u = d.pt)
                        = N(u \in free) + N(u \in Owned) + N(u \in call[p].args) + N(u = call[p].mem)
                          + N(pc[p] \in NewLabels /\ u = call[p].pt)
    BY DEF Kept
  <2>1. u # None /\ mem \notin Owned
    BY <1>9, VmConstants DEF Loose
  <2>2. (l \in NewLabels /\ u = d.pt) <=> (pc[p] \in NewLabels /\ u = call[p].pt)
    BY <1>3, <1>8, <1>14
  <2>3. call[p].mem = mem /\ d.mem = None /\ d.args = call[p].args
    BY <1>3, <1>4, <1>8
  <2> QED
    BY <1>7, <1>16, <2>1, <2>2, <2>3 DEF N
<1>19. \A qt \in Images : qt # call[p].pt => Same(qt)
  BY <1>3, <1>16 DEF Same
<1>20. PICK m \in Nat : m = n + 1
  OBVIOUS
<1>21. ImageIs(pt, m, tf)'
  BY <1>16, <1>20
<1>22. l \in {"seg", "stack"} => NoGuard(pt)'
  <2> SUFFICES ASSUME l \in {"seg", "stack"} PROVE NoGuard(pt)'
    OBVIOUS
  <2>1. pc[p] \in {"seg_map", "stack_map"}
    BY <1>2, MapLabelIs
  <2>2. NoGuard(pt) /\ kind = "user"
    BY <1>3, <1>5, <2>1 DEF ExecOK
  <2>3. \A vb \in Va : Entry(pt, vb)'.kind # "guard"
    BY <1>16, <2>2 DEF NoGuard
  <2> QED
    BY <2>3 DEF NoGuard
<1>23. l = "copy" => \A va \in Va : va < m => Entry(pt, va)'.kind = Entry(pp, va)'.kind
  <2> SUFFICES ASSUME l = "copy", NEW va \in Va, va < m
               PROVE  Entry(pt, va)'.kind = Entry(pp, va)'.kind
    OBVIOUS
  <2>1. Entry(pp, va)' = Entry(pp, va)
    BY <1>12, <1>16
  <2>2. CASE va = n
    BY <1>12, <1>16, <2>1, <2>2
  <2>3. CASE va # n
    <3>1. va < n
      BY <1>20, <2>3 DEF Va
    <3> QED
      BY <1>12, <1>16, <2>1, <2>3, <3>1
  <2> QED
    BY <2>2, <2>3
<1>24. CallOK(p)'
  <2>1. l \in {l, MapLabel[l]} /\ pc[p] \in {l, MapLabel[l]} /\ pt = d.pt /\ m = d.va
    BY <1>2, <1>3, <1>8, <1>20
  <2>2. /\ d.np = call[p].np /\ d.pt = call[p].pt /\ d.size = call[p].size
        /\ d.args = call[p].args /\ d.segs = call[p].segs /\ d.base = call[p].base
        /\ d.end = call[p].end
        /\ d.mem # None <=> l \in MapLabels
    BY <1>3, <1>8, <1>14
  <2>3. d.base <= d.va /\ d.va <= PGROUNDUP(d.end) /\ (l \in MapLabels => d.va * PGSIZE < d.end)
    <3>1. PICK b \in Nat : b = c.base
      BY DEF CallRec
    <3>2. b <= n /\ d.base = b
      BY <1>3, <1>4, <1>8, <3>1
    <3> QED
      BY <1>8, <1>10, <1>14, <3>2
  <2>4. UNCHANGED procVars /\ r = R(p) /\ tf = trapframe[r] /\ pp = pagetable[p]
    BY <1>3, <1>4, <1>7
  <2> QED
    BY <1>7, <1>8, <1>21, <1>22, <1>23, <2>1, <2>2, <2>3, <2>4, MapGoes
<1>25. pc[p] \in ForkLabels /\ call[p].pt # None /\ pagetable[r] = call[p].pt =>
         \E k \in Nat : ImageIs(pagetable[r], k, trapframe[r])'
  <2> SUFFICES ASSUME pc[p] \in ForkLabels PROVE ImageIs(pagetable[r], m, trapframe[r])'
    OBVIOUS
  <2>1. pagetable'[r] = pt /\ trapframe'[r] = tf
    BY <1>3, <1>7 DEF procVars
  <2> QED
    BY <1>21, <2>1
<1>26. r = R(p) /\ d.np = call[p].np /\ UNCHANGED procVars
  BY <1>3, <1>7, <1>8
<1> QED
  BY <1>3, <1>7, <1>8, <1>14, <1>16, <1>17, <1>18, <1>19, <1>24, <1>25, <1>26, InCall

\* The local variables with which a call unmaps what it has mapped.
CallHas(p, pt, b, v, mem, tf) ==
  /\ pt = call[p].pt /\ b = call[p].base /\ v = call[p].va /\ mem = call[p].mem
  /\ tf = trapframe[R(p)] /\ Unmap(pt, b..(v - 1), {mem} \ {None})

\* The page mem was held, and one of free and Owned holds it now.
MemFreed(mem) == \A u \in Page : N(u \in free') + N(u \in Owned')
                                   = N(u \in free) + N(u \in Owned) + N(u = mem)

\* The memory that an unmapping step frees was mapped or not mapped yet.
LEMMA UndoMemory ==
  ASSUME IInv, NEW p \in Proc, NEW l \in Loops, pc[p] \in {l, MapLabel[l]},
         NEW pt, NEW b, NEW v, NEW mem, NEW tf, CallHas(p, pt, b, v, mem, tf), Images' = Images
  PROVE  /\ panicked' = FALSE /\ Trees' /\ ImageIs(pt, b, tf)' /\ free' \subseteq Page
         /\ \A qt \in Images : qt # pt => Same(qt)
         /\ MemFreed(mem)
<1>1. PICK c \in CallRec :
           /\ b = c.base /\ v = c.va /\ mem = c.mem /\ c.base <= c.va /\ ImageIs(pt, v, tf)
           /\ pt \in Images
  <2>1. PICK c \in CallRec, r \in Proc, tg \in Page, pu \in Images :
           /\ c = call[p] /\ r = R(p) /\ tg = trapframe[r] /\ pu = c.pt
           /\ c.base <= c.va /\ ImageIs(pu, c.va, tg)
    BY InMap
  <2>2. pu = pt /\ tg = tf /\ c.va = v /\ b = c.base /\ mem = c.mem
    BY <2>1 DEF CallHas
  <2> QED
    BY <2>1, <2>2
<1>2. b \in Nat /\ v \in Nat /\ b <= v /\ mem \in Page \cup {None} /\ Trees /\ Typed
  BY <1>1 DEF CallRec, IInv
<1>3. PICK also : also = {mem} \ {None}
  OBVIOUS
<1>4. /\ panicked' = FALSE /\ Trees' /\ ImageIs(pt, b, tf)'
      /\ \A qt \in Images, vb \in Va : qt # pt => Entry(qt, vb)' = Entry(qt, vb)
      /\ Moved(also)
  <2>1. Unmap(pt, b..(v - 1), also)
    BY <1>3 DEF CallHas
  <2>2. PICK bn \in Nat, vn \in Nat : bn = b /\ vn = v
    BY <1>2
  <2>3. /\ Trees /\ bn <= vn /\ ImageIs(pt, vn, tf) /\ Images' = Images /\ pt \in Images
        /\ Unmap(pt, bn..(vn - 1), also)
    BY <1>1, <1>2, <2>1, <2>2
  <2>5. panicked' = FALSE /\ Trees'
    BY <2>3, UnmapDone
  <2>6. ImageIs(pt, bn, tf)'
    BY <2>3, UnmapDone
  <2>7. \A qt \in Images, vb \in Va : qt # pt => Entry(qt, vb)' = Entry(qt, vb)
    BY <2>3, UnmapDone
  <2>4. Moved(also)
    BY <2>3, UnmapDone
  <2> QED
    BY <2>2, <2>4, <2>5, <2>6, <2>7
<1>5. PICK M \in SUBSET Owned :
           /\ free' = free \cup also \cup M
           /\ \A u \in Page : u \in Owned' <=> u \in Owned /\ u \notin M
  BY <1>4 DEF Moved
<1>6. /\ \A u \in free : u \notin Owned /\ u # mem
      /\ mem \notin Owned
  <2>1. \A u \in free : u \notin Owned /\ u # mem
    BY FreeApart DEF CallHas
  <2>2. mem # None => mem \notin Owned
    BY LooseHeld DEF Loose, CallHas
  <2>3. None \notin Owned
    BY VmConstants DEF Owned
  <2> QED
    BY <2>1, <2>2, <2>3
<1>7. ASSUME NEW u \in Page
      PROVE  N(u \in free') + N(u \in Owned') = N(u \in free) + N(u \in Owned) + N(u = mem)
  <2>1. u # None
    BY VmConstants
  <2>2. u \in free' <=> u \in free \/ u = mem \/ u \in M
    BY <1>3, <1>5, <2>1
  <2> QED
    BY <1>5, <1>6, <2>2 DEF N
<1>8. free' \subseteq Page
  BY <1>2, <1>3, <1>5 DEF Typed, Owned
<1>9. \A qt \in Images : qt # pt => Same(qt)
  BY <1>4 DEF Same
<1> QED
  BY <1>4, <1>7, <1>8, <1>9 DEF MemFreed

\* kalloc() fails in the loop of a fork() or an exec().
LEMMA UndoOk ==
  ASSUME IInv, NEW p \in Proc, NEW l \in Loops, l # "sbrk", pc[p] \in {l, MapLabel[l]},
         Undo(p, l), UNCHANGED procVars
  PROVE  IInv'
<1>1. PICK c \in CallRec, r \in Proc, tf \in Page, pt \in Images :
           /\ c = call[p] /\ r = R(p) /\ tf = trapframe[r] /\ pt = c.pt
           /\ l = "copy" <=> pc[p] \in ForkLabels
           /\ l = "sbrk" <=> pc[p] \in SbrkLabels
           /\ l \in {"seg", "stack"} <=> pc[p] \in NewLabels
           /\ l = "copy" => ForkOK(p, c) /\ pt = pagetable[r] /\ r = c.np
           /\ l \in {"seg", "stack"} => ExecOK(p, c) /\ r = p
           /\ pc[p] # "user"
  BY InMap
<1>2. PICK d, L : d = [c EXCEPT !.mem = None] /\ L = AfterFailure[l]
  OBVIOUS
<1>3. /\ Unmap(pt, c.base..(c.va - 1), {c.mem} \ {None}) /\ Go(p, L, d)
  BY <1>1, <1>2 DEF Undo
<1>4. /\ d \in CallRec /\ d.np = c.np /\ d.pt = c.pt /\ d.size = c.size /\ d.args = c.args
      /\ d.mem = None
  BY <1>2 DEF CallRec
<1>5. L = IF l = "copy" THEN "fork_bad" ELSE "exec_bad"
  BY <1>2 DEF Loops, AfterFailure
<1>6. /\ L \in Labels /\ L # "user" /\ L \notin MapLabels
      /\ L \in ForkLabels <=> pc[p] \in ForkLabels
      /\ L \in SbrkLabels <=> pc[p] \in SbrkLabels
      /\ L \in NewLabels <=> pc[p] \in NewLabels
  BY <1>1, <1>5 DEF Loops, Labels, ForkLabels, SbrkLabels, NewLabels, LoadLabels, MapLabels
<1>7. Images' = Images
  BY <1>1, <1>3, <1>4, <1>6, InCallImages DEF procVars
<1>8. PICK b, v, mem : b = c.base /\ v = c.va /\ mem = c.mem
  OBVIOUS
<1>9. /\ panicked' = FALSE /\ Trees' /\ ImageIs(pt, b, tf)' /\ free' \subseteq Page
      /\ \A qt \in Images : qt # pt => Same(qt)
      /\ MemFreed(mem)
  <2>2. CallHas(p, pt, b, v, mem, tf)
    BY <1>1, <1>3, <1>8 DEF CallHas
  <2> QED
    BY <1>7, <2>2, UndoMemory
<1>10. Kept(p, L, d)
  <2> SUFFICES ASSUME NEW u \in Page
               PROVE  N(u \in free') + N(u \in Owned') + N(u \in d.args) + N(u = d.mem)
                          + N(L \in NewLabels /\ u = d.pt)
                        = N(u \in free) + N(u \in Owned) + N(u \in call[p].args) + N(u = call[p].mem)
                          + N(pc[p] \in NewLabels /\ u = call[p].pt)
    BY DEF Kept
  <2>1. u # d.mem
    BY <1>4, VmConstants
  <2>2. (L \in NewLabels /\ u = d.pt) <=> (pc[p] \in NewLabels /\ u = call[p].pt)
    BY <1>1, <1>4, <1>6
  <2>3. d.args = call[p].args /\ call[p].mem = mem
    BY <1>1, <1>4, <1>8
  <2>9. /\ N(u \in free') \in Int /\ N(u \in Owned') \in Int /\ N(u \in d.args) \in Int
        /\ N(u = d.mem) \in Int /\ N(L \in NewLabels /\ u = d.pt) \in Int
        /\ N(u \in free) \in Int /\ N(u \in Owned) \in Int /\ N(u \in call[p].args) \in Int
        /\ N(u = call[p].mem) \in Int /\ N(pc[p] \in NewLabels /\ u = call[p].pt) \in Int
    BY DEF N
  <2>4. PICK a1, a2, a3, a4, a5, b1, b2, b3, b4, b5 \in Int :
          /\ a1 = N(u \in free') /\ a2 = N(u \in Owned') /\ a3 = N(u \in d.args)
          /\ a4 = N(u = d.mem) /\ a5 = N(L \in NewLabels /\ u = d.pt)
          /\ b1 = N(u \in free) /\ b2 = N(u \in Owned) /\ b3 = N(u \in call[p].args)
          /\ b4 = N(u = call[p].mem) /\ b5 = N(pc[p] \in NewLabels /\ u = call[p].pt)
    BY <2>9
  <2>6. a4 = 0 /\ a3 = b3 /\ a5 = b5
    BY <2>1, <2>2, <2>3, <2>4 DEF N
  <2>7. a1 + a2 = b1 + b2 + b4
    BY <1>9, <2>3, <2>4 DEF MemFreed
  <2>8. a1 + a2 + a3 + a4 + a5 = b1 + b2 + b3 + b4 + b5
    BY <2>6, <2>7
  <2> QED
    BY <2>4, <2>8
<1>11. pc'[p] = L /\ call'[p] = d
  BY <1>3, <1>4, <1>6, GoIs DEF IInv
<1>12. CallOK(p)'
  <2>1. CASE l = "copy"
    <3>1. pc[p] \in {"copy", "copy_map"} /\ L = "fork_bad"
      BY <1>5, <2>1, MapLabelIs
    <3>2. b = 0
      BY <1>1, <1>8, <2>1, <3>1 DEF ForkOK
    <3>3. /\ d.np \in Proc /\ state'[d.np] = "used"
          /\ \A q \in Proc : pc'[q] \in ForkLabels /\ call'[q].np = d.np => q = p
      BY <1>1, <1>3, <1>4, <1>6, <2>1, ForkKept DEF procVars
    <3>4. d.pt = pt /\ pagetable'[d.np] = pt /\ trapframe'[d.np] = tf
      BY <1>1, <1>4, <2>1 DEF procVars
    <3>5. ImageIs(pt, 0, tf)'
      BY <1>9, <3>2
    <3>6. ForkOK(p, d)'
      BY <1>11, <3>1, <3>3, <3>4, <3>5 DEF ForkOK
    <3>7. d.args = {}
      BY <1>1, <1>4, <3>1 DEF IInv, CallOK, ExecLabels, LoadLabels
    <3> QED
      BY <1>4, <1>11, <3>1, <3>6, <3>7
         DEF CallOK, MapLabels, ForkLabels, SbrkLabels, ExecLabels, LoadLabels
  <2>2. CASE l \in {"seg", "stack"}
    <3>1. pc[p] \in {"seg", "seg_map", "stack", "stack_map"} /\ L = "exec_bad"
      BY <1>5, <2>2, MapLabelIs
    <3>2. b = PGROUNDUP(c.size)
      BY <1>1, <1>8, <2>2, <3>1 DEF ExecOK
    <3>3. PICK k : k = PGROUNDUP(d.size) /\ k = b
      BY <1>4, <3>2
    <3>4. ImageIs(pt, k, tf)' /\ d.pt = pt /\ trapframe'[p] = tf
      BY <1>1, <1>4, <1>9, <2>2, <3>3 DEF procVars
    <3>5. ExecOK(p, d)'
      BY <1>11, <3>1, <3>3, <3>4 DEF ExecOK
    <3> QED
      BY <1>4, <1>11, <3>1, <3>5
         DEF CallOK, MapLabels, ForkLabels, SbrkLabels, ExecLabels, LoadLabels
  <2> QED
    BY <2>1, <2>2 DEF Loops
<1>13. pc[p] \in ForkLabels /\ call[p].pt # None /\ pagetable[r] = call[p].pt =>
         \E k \in Nat : ImageIs(pagetable[r], k, trapframe[r])'
  <2> SUFFICES ASSUME pc[p] \in ForkLabels PROVE ImageIs(pagetable[r], b, trapframe[r])' /\ b \in Nat
    OBVIOUS
  <2>1. pagetable'[r] = pt /\ trapframe'[r] = tf
    BY <1>1 DEF procVars
  <2> QED
    BY <1>8, <1>9, <2>1 DEF CallRec
<1>14. r = R(p) /\ d.np = call[p].np /\ UNCHANGED procVars
       /\ \A qt \in Images : qt # call[p].pt => Same(qt)
  BY <1>1, <1>4, <1>9
<1> QED
  BY <1>1, <1>3, <1>4, <1>6, <1>9, <1>10, <1>12, <1>13, <1>14, InCall

\* A system call returns.
LEMMA CallEnds ==
  ASSUME Typed, NEW p \in Proc, Return(p)
  PROVE  /\ pc' \in [Proc -> Labels] /\ call' \in [Proc -> CallRec]
         /\ pc'[p] = "user" /\ call'[p] = NoCall /\ CallOK(p)'
         /\ \A q \in Proc : q # p => ProcSame(q)
         /\ pc'[p] \notin ForkLabels /\ pc'[p] \notin SbrkLabels /\ pc'[p] \notin NewLabels
<1>1. "user" \in Labels
  BY DEF Labels
<1>2. /\ pc' \in [Proc -> Labels] /\ call' \in [Proc -> CallRec] /\ pc'[p] = "user"
      /\ call'[p] = NoCall /\ \A q \in Proc : q # p => ProcSame(q)
  BY <1>1, NoCallIs, GoIs DEF Return
<1>3. CallOK(p)'
  BY <1>2, NoCallIs DEF CallOK, MapLabels, ForkLabels, SbrkLabels, ExecLabels, LoadLabels
<1> QED
  BY <1>2, <1>3 DEF ForkLabels, SbrkLabels, NewLabels, LoadLabels

\* uvmdealloc() at the end of an sbrk() that found no memory.
LEMMA UndoSbrk ==
  ASSUME IInv, NEW p \in Proc, pc[p] \in SbrkLabels, Undo(p, "sbrk"), UNCHANGED procVars
  PROVE  IInv'
<1> DEFINE l == "sbrk"
<1>1. PICK c \in CallRec, r \in Proc, tf \in Page, pt \in Images :
           /\ c = call[p] /\ r = R(p) /\ tf = trapframe[r] /\ pt = c.pt
           /\ pc[p] \in SbrkLabels /\ pc[p] \notin ForkLabels /\ pc[p] \notin ExecLabels
           /\ pc[p] \notin NewLabels
           /\ SbrkOK(p, c) /\ pt = pagetable[p] /\ r = p /\ state[p] = "live"
  <2>1. l \in Loops /\ pc[p] \in {l, MapLabel[l]}
    BY MapLabelIs DEF Loops, SbrkLabels
  <2>2. l = "sbrk" /\ l # "copy" /\ l \notin {"seg", "stack"}
    OBVIOUS
  <2> HIDE DEF l
  <2> QED
    BY <2>1, <2>2, InMap
<1>2. PICK b, v, mem : b = c.base /\ v = c.va /\ mem = c.mem
  OBVIOUS
<1>3. Unmap(pt, b..(v - 1), {mem} \ {None}) /\ Return(p)
  BY <1>1, <1>2 DEF Undo, Return, AfterFailure
<1>4. /\ state' = state /\ pagetable' = pagetable /\ trapframe' = trapframe /\ sz' = sz
  BY DEF procVars
<1>5. /\ pc' \in [Proc -> Labels] /\ call' \in [Proc -> CallRec]
      /\ pc'[p] = "user" /\ call'[p] = NoCall /\ CallOK(p)'
      /\ \A q \in Proc : q # p => ProcSame(q)
      /\ pc'[p] \notin ForkLabels /\ pc'[p] \notin SbrkLabels /\ pc'[p] \notin NewLabels
  BY <1>3, CallEnds DEF IInv
<1>6. Images' = Images
  <2>1. \A q \in Proc : q \notin {p, p} => SlotSame(q)
    BY <1>4 DEF SlotSame
  <2>2. Own(p, p)' = Own(p, p)
    BY <1>1, <1>4, <1>5, NoCallIs DEF Own
  <2>3. With(p, p)
    BY <1>1 DEF With
  <2> QED
    BY <1>5, <2>1, <2>2, <2>3, ImagesChange
<1>7. /\ panicked' = FALSE /\ Trees' /\ ImageIs(pt, b, tf)' /\ free' \subseteq Page
      /\ \A qt \in Images : qt # pt => Same(qt)
      /\ MemFreed(mem)
  <2>1. CallHas(p, pt, b, v, mem, tf)
    BY <1>1, <1>2, <1>3 DEF CallHas
  <2>2. l \in Loops /\ pc[p] \in {l, MapLabel[l]}
    BY MapLabelIs DEF Loops, SbrkLabels
  <2> HIDE DEF l
  <2> QED
    BY <1>6, <2>1, <2>2, UndoMemory
<1>8. Typed'
  BY <1>4, <1>5, <1>7 DEF IInv, Typed
<1>9. SlotOK(p)'
  <2>1. b = PGROUNDUP(sz[p])
    BY <1>1, <1>2 DEF SbrkOK
  <2>2. PICK k : k = PGROUNDUP(sz[p])
    OBVIOUS
  <2>3. ImageIs(pt, k, tf)' /\ sz'[p] = sz[p] /\ pagetable'[p] = pt /\ trapframe'[p] = tf
        /\ state'[p] = "live" /\ pt \in Page /\ tf \in Page
    BY <1>1, <1>4, <1>7, <2>1, <2>2, ImagesIs
  <2> QED
    BY <1>5, <2>2, <2>3 DEF SlotOK
<1>10. ASSUME NEW u \in Page PROVE Count(p, p, u)' = Count(p, p, u)
  <2>1. u # None
    BY VmConstants
  <2>2. call[p].args = {}
    BY <1>1 DEF IInv, CallOK
  <2>3. /\ N(u \in free') \in Int /\ N(u \in Owned') \in Int /\ N(u \in free) \in Int
        /\ N(u \in Owned) \in Int /\ N(u = trapframe[p]) \in Int /\ N(u = pagetable[p]) \in Int
        /\ N(u = mem) \in Int
    BY DEF N
  <2>4. PICK f1, f2, o1, o2, t, g, m \in Int :
          /\ f2 = N(u \in free') /\ o2 = N(u \in Owned') /\ f1 = N(u \in free)
          /\ o1 = N(u \in Owned) /\ t = N(u = trapframe[p]) /\ g = N(u = pagetable[p])
          /\ m = N(u = mem)
    BY <2>3
  <2>5. f2 + o2 = f1 + o1 + m
    BY <1>7, <2>4 DEF MemFreed
  <2>6. Count(p, p, u) = f1 + o1 + t + 0 + m + g + 0 + 0
    BY <1>1, <1>2, <2>2, <2>4 DEF Count, N
  <2>7. Count(p, p, u)' = f2 + o2 + t + 0 + 0 + g + 0 + 0
    BY <1>4, <1>5, <2>1, <2>4, NoCallIs DEF Count, N
  <2> QED
    BY <2>5, <2>6, <2>7
<1>11. With(p, p) /\ pt \in {None, pagetable[p], pagetable[p], call[p].pt}
       /\ \A q \in Proc : q \notin {p, p} => SlotSame(q)
  BY <1>1, <1>4 DEF With, SlotSame
<1> QED
  BY <1>5, <1>7, <1>8, <1>9, <1>10, <1>11, Preserved

\* kalloc() fails in a loop.
LEMMA UndoStep ==
  ASSUME IInv, NEW p \in Proc, NEW l \in Loops, pc[p] \in {l, MapLabel[l]},
         Undo(p, l), UNCHANGED procVars
  PROVE  IInv'
<1>1. CASE l = "sbrk"
  <2>1. pc[p] \in SbrkLabels
    BY <1>1, MapLabelIs DEF SbrkLabels
  <2> QED
    BY <1>1, <2>1, UndoSbrk
<1>2. CASE l # "sbrk"
  BY <1>2, UndoOk
<1> QED
  BY <1>1, <1>2

\* A page for one of the loops.
LEMMA StepAllocMem ==
  ASSUME IInv, NEW p \in Proc, AllocMem(p)
  PROVE  IInv'
<1>1. PICK l \in Loops : l = pc[p]
  BY MapLabelIs DEF AllocMem, At
<1>2. MoreToMap(p) /\ UNCHANGED procVars
  BY DEF AllocMem
<1>3. CASE Undo(p, pc[p])
  BY <1>1, <1>2, <1>3, UndoStep
<1>4. ASSUME NEW page \in Page, Kalloc(page), free' = free \ {page},
             Go(p, MapLabel[pc[p]], [call[p] EXCEPT !.mem = page]), UNCHANGED <<tab, panicked>>
      PROVE  IInv'
  <2>1. UNCHANGED <<tab, procVars, panicked>> /\ Go(p, MapLabel[l], [call[p] EXCEPT !.mem = page])
    BY <1>1, <1>2, <1>4
  <2> QED
    BY <1>1, <1>2, <1>4, <2>1, PageTaken
<1> QED
  BY <1>3, <1>4 DEF AllocMem

\* A table for one of the loops.
LEMMA StepMapMemWalk ==
  ASSUME IInv, NEW p \in Proc, MapMemWalk(p)
  PROVE  IInv'
<1>1. pc[p] \in MapLabels /\ UNCHANGED procVars
  BY MapLabelIs DEF MapMemWalk, At
<1>2. PICK l \in Loops : l = LoopLabel(pc[p]) /\ MapLabel[l] = pc[p]
  BY <1>1, MapLabelIs
<1>3. pc[p] \in {l, MapLabel[l]}
  BY <1>2
<1>4. PICK c \in CallRec, pt \in Images :
           /\ c = call[p] /\ pt = c.pt
           /\ c.va <= PGROUNDUP(c.end) /\ c.end <= MaxSz
           /\ pc[p] \in MapLabels => c.va * PGSIZE < c.end
           /\ pc[p] # "user"
  BY <1>3, InMap
<1>5. CASE Undo(p, LoopLabel(pc[p]))
  BY <1>1, <1>2, <1>3, <1>5, UndoStep
<1>6. ASSUME NEW page \in Page, Kalloc(page), free' = free \ {page},
             tab' = AddTable(call[p].pt, call[p].va, page), UNCHANGED <<pc, call, panicked>>
      PROVE  IInv'
  <2>1. PICK va \in Nat, end \in Nat : va = c.va /\ end = c.end
    BY DEF CallRec
  <2>2. va < PGROUNDUP(end) /\ PGROUNDUP(end) <= TRAPFRAME /\ PGROUNDUP(end) \in Nat
    BY <1>1, <1>4, <2>1, Rounding, RoundUp
  <2>3. va \in Va
    BY <2>1, <2>2, PXAt DEF Va
  <2>4. Walk(call[p].pt, va).level > 0
    BY <1>4, <2>1 DEF MapMemWalk
  <2>5. call[p].pt # None
    BY <1>4, ImagesIs
  <2>6. tab' = AddTable(call[p].pt, va, page) /\ UNCHANGED <<pc, call, procVars, panicked>>
    BY <1>1, <1>4, <1>6, <2>1
  <2> QED
    BY <1>4, <1>6, <2>3, <2>4, <2>5, <2>6, WalkStep
<1> QED
  BY <1>5, <1>6 DEF MapMemWalk

\* uvmclear() of the guard page.
LEMMA StepStackDone ==
  ASSUME IInv, NEW p \in Proc, StackDone(p)
  PROVE  IInv'
<1>1. PICK c \in CallRec, tf \in Page, pt \in Images :
        /\ c = call[p] /\ tf = trapframe[p] /\ pt = c.pt
        /\ c.base <= c.va /\ c.va <= PGROUNDUP(c.end) /\ c.end <= MaxSz
        /\ ImageIs(pt, c.va, tf) /\ ExecOK(p, c) /\ pc[p] \in ExecLabels
        /\ c.mem # None <=> pc[p] \in MapLabels
        /\ pc[p] # "user" /\ R(p) = p /\ pc[p] \in NewLabels
  <2>1. "stack" \in Loops /\ pc[p] \in {"stack", MapLabel["stack"]}
    BY DEF Loops, StackDone, At
  <2>2. PICK l \in Loops : l = "stack"
    BY <2>1
  <2> QED
    BY <2>1, <2>2, InMap
<1>2. /\ pc[p] = "stack" /\ ~(c.va * PGSIZE < c.end)
      /\ tab' = SetEntry(c.pt, c.base, [Entry(c.pt, c.base) EXCEPT !.kind = "guard"])
      /\ Go(p, "push", [c EXCEPT !.size = c.end]) /\ UNCHANGED <<free, procVars, panicked>>
  BY <1>1 DEF StackDone, At, MoreToMap
<1>3. NoGuard(pt) /\ PGROUNDUP(c.end) = c.base + 2 /\ c.mem = None
  BY <1>1, <1>2 DEF ExecOK, MapLabels
<1>4. PICK b \in Nat, v \in Nat, e \in Nat : b = c.base /\ v = c.va /\ e = c.end
  BY DEF CallRec
<1>5. v = PGROUNDUP(e) /\ b < v
  <2>1. v <= PGROUNDUP(e) /\ ~(v * PGSIZE < e)
    BY <1>1, <1>2, <1>4
  <2>2. v = PGROUNDUP(e)
    BY <2>1, MapEnd
  <2> QED
    BY <1>3, <1>4, <2>2
<1>6. PICK d : d = [c EXCEPT !.size = c.end]
  OBVIOUS
<1>7. /\ d \in CallRec /\ d.np = c.np /\ d.pt = c.pt /\ d.size = e /\ d.args = c.args /\ d.mem = c.mem
  BY <1>4, <1>6 DEF CallRec
<1>8. /\ "push" \in Labels /\ "push" # "user" /\ "push" \in NewLabels
      /\ "push" \notin ForkLabels /\ pc[p] \notin ForkLabels
      /\ "push" \notin SbrkLabels /\ pc[p] \notin SbrkLabels
  BY <1>2 DEF Labels, NewLabels, LoadLabels, ForkLabels, SbrkLabels
<1>9. Go(p, "push", d) /\ pc'[p] = "push" /\ call'[p] = d
  <2>1. Go(p, "push", d)
    BY <1>2, <1>6
  <2> QED
    BY <1>7, <1>8, <2>1, GoIs DEF IInv
<1>10. Images' = Images
  BY <1>1, <1>2, <1>7, <1>8, <1>9, InCallImages DEF procVars
<1>11. /\ Trees' /\ ImageIs(pt, v, tf)'
       /\ \A qt \in Images, vb \in Va : qt # pt => Entry(qt, vb)' = Entry(qt, vb)
       /\ \A u \in Page : u \in Owned' <=> u \in Owned
  <2>1. tab' = SetEntry(pt, b, [Entry(pt, b) EXCEPT !.kind = "guard"])
    BY <1>1, <1>2, <1>4
  <2>2. Trees /\ ImageIs(pt, v, tf)
    BY <1>1, <1>4 DEF IInv
  <2> QED
    BY <1>3, <1>5, <1>10, <2>1, <2>2, GuardSet
<1>12. CallOK(p)'
  <2>1. PICK k : k = PGROUNDUP(d.size) /\ k = v
    BY <1>5, <1>7
  <2>2. d.pt = pt /\ trapframe'[p] = tf /\ ImageIs(pt, k, tf)'
    BY <1>1, <1>2, <1>7, <1>11, <2>1 DEF procVars
  <2>3. d.size <= MaxSz
    BY <1>1, <1>4, <1>7
  <2>4. ExecOK(p, d)'
    BY <1>9, <2>1, <2>2, <2>3 DEF ExecOK
  <2> QED
    BY <1>3, <1>7, <1>9, <2>4
       DEF CallOK, MapLabels, ForkLabels, SbrkLabels, ExecLabels, LoadLabels
<1>13. Kept(p, "push", d)
  <2> SUFFICES ASSUME NEW u \in Page
               PROVE  N(u \in free') + N(u \in Owned') + N(u \in d.args) + N(u = d.mem)
                          + N("push" \in NewLabels /\ u = d.pt)
                        = N(u \in free) + N(u \in Owned) + N(u \in call[p].args) + N(u = call[p].mem)
                          + N(pc[p] \in NewLabels /\ u = call[p].pt)
    BY DEF Kept
  <2>1. free' = free /\ (u \in Owned' <=> u \in Owned) /\ d.args = call[p].args
        /\ d.mem = call[p].mem /\ d.pt = call[p].pt
    BY <1>1, <1>2, <1>7, <1>11
  <2> QED
    BY <1>1, <1>8, <2>1 DEF N
<1>14. /\ \A qt \in Images : qt # call[p].pt => Same(qt)
       /\ free' \subseteq Page /\ panicked' = FALSE /\ UNCHANGED procVars
  BY <1>1, <1>2, <1>11 DEF Same, IInv, Typed
<1> QED
  BY <1>1, <1>7, <1>8, <1>9, <1>11, <1>12, <1>13, <1>14, InCall

-----------------------------------------------------------------------------
(***************************************************************************)
(* Steps of fork(), wait(), exit() and sbrk(), and the end of exec().      *)
(***************************************************************************)

\* With the same tables and images, the trees and their pages are the same.
LEMMA TreesSame ==
  ASSUME Trees, tab' = tab, Images' = Images
  PROVE  Trees' /\ Owned' = Owned /\ \A qt : Same(qt)
<1>1. Trees' /\ Owned' = Owned
  BY DEF Trees, Once, Levels, Points, Owned
<1> QED
  BY <1>1, TabSame

\* A slot without memory is at no system call.
LEMMA SlotIdle ==
  ASSUME IInv, NEW r \in Proc, state[r] # "live"
  PROVE  pc[r] = "user" /\ call[r] = NoCall /\ SlotOK(r)
BY DEF IInv, SlotOK, CallOK

\* allocproc() takes a slot.
LEMMA StepFork ==
  ASSUME IInv, NEW p \in Proc, Fork(p)
  PROVE  IInv'
<1> DEFINE unused == {q \in Proc : state[q] = "unused"}
<1>1. PICK r : r = Min(unused)
  OBVIOUS
<1>2. r \in Proc /\ state[r] = "unused"
  <2>1. unused \subseteq Nat /\ unused # {}
    BY DEF Fork, Proc
  <2>2. Min(unused) \in unused
    BY <2>1, MinInSet
  <2> QED
    BY <1>1, <2>2
<1>3. PICK d : d = [NoCall EXCEPT !.np = r]
  OBVIOUS
<1>4. /\ state[p] = "live" /\ pc[p] = "user" /\ state' = [state EXCEPT ![r] = "used"]
      /\ Go(p, "trapframe", d)
      /\ UNCHANGED <<free, tab, pagetable, trapframe, sz, panicked>>
  BY <1>1, <1>3 DEF Fork, Running
<1>5. /\ d \in CallRec /\ d.np = r /\ d.pt = None /\ d.args = {} /\ d.mem = None
      /\ d.base = 0 /\ d.va = 0
  <2>1. PICK n0 \in CallRec :
          /\ n0 = NoCall /\ n0.pt = None /\ n0.args = {} /\ n0.mem = None
          /\ n0.base = 0 /\ n0.va = 0
    BY NoCallIs
  <2>2. d = [n0 EXCEPT !.np = r] /\ r \in 0..NPROC
    BY <1>2, <1>3, <2>1, ProcIs
  <2> QED
    BY <2>1, <2>2 DEF CallRec
<1>6. "trapframe" \in Labels /\ "trapframe" \in ForkLabels /\ "trapframe" # "user"
      /\ "trapframe" \notin NewLabels /\ "trapframe" \notin SbrkLabels
  BY DEF Labels, ForkLabels, NewLabels, LoadLabels, SbrkLabels
<1>7. /\ pc' \in [Proc -> Labels] /\ call' \in [Proc -> CallRec]
      /\ pc'[p] = "trapframe" /\ call'[p] = d /\ \A q \in Proc : q # p => ProcSame(q)
  BY <1>4, <1>5, <1>6, GoIs DEF IInv
<1>8. call[p] = NoCall /\ SlotOK(p)
  BY <1>4, InUser
<1>9. pc[r] = "user" /\ SlotOK(r) /\ r # p
  BY <1>2, <1>4, SlotIdle
<1>10. Typed'
  BY <1>4, <1>7 DEF IInv, Typed
<1>11. /\ \A q \in Proc : q # r => state'[q] = state[q]
       /\ state'[r] = "used"
  BY <1>2, <1>4 DEF IInv, Typed
<1>12. \A q \in Proc : q # r => SlotSame(q)
  BY <1>4, <1>11 DEF SlotSame
<1>13. With(p, r) /\ pc[p] \notin ForkLabels /\ pc[p] \notin NewLabels /\ pc[p] \notin SbrkLabels
  BY <1>2, <1>4 DEF With, ForkLabels, NewLabels, LoadLabels, SbrkLabels
<1>14. Images' = Images
  <2>1. Own(p, r)' = Own(p, r)
    BY <1>4, <1>5, <1>7, <1>8, NoCallIs DEF Own
  <2> QED
    BY <1>2, <1>7, <1>12, <1>13, <2>1, ImagesChange
<1>15. Trees' /\ Owned' = Owned /\ \A qt : Same(qt)
  BY <1>4, <1>14, TreesSame DEF IInv
<1>16. SlotOK(p)'
  BY <1>4, <1>8, <1>9, <1>12, <1>13, <1>15, SlotFrame
<1>17. SlotOK(r)'
  <2>1. pagetable'[r] = None /\ trapframe'[r] = None /\ sz'[r] = 0 /\ pc'[r] = "user"
    BY <1>2, <1>4, <1>7, <1>9 DEF SlotOK, ProcSame
  <2> QED
    BY <1>11, <2>1 DEF SlotOK
<1>18. CallOK(p)'
  <2>1. ASSUME NEW q \in Proc, pc'[q] \in ForkLabels, call'[q].np = r PROVE q = p
    <3> SUFFICES ASSUME q # p PROVE FALSE
      OBVIOUS
    <3>1. pc[q] \in ForkLabels /\ call[q].np = r
      BY <1>7, <2>1 DEF ProcSame
    <3>2. state[r] = "used"
      BY <3>1 DEF IInv, CallOK, ForkOK
    <3> QED
      BY <1>2, <3>2
  <2>2. pagetable'[r] = None /\ trapframe'[r] = None
    BY <1>2, <1>4, <1>9 DEF SlotOK
  <2>3. ForkOK(p, d)'
    BY <1>2, <1>5, <1>7, <1>11, <2>1, <2>2 DEF ForkOK
  <2> QED
    BY <1>5, <1>7, <2>3 DEF CallOK, MapLabels, ForkLabels, SbrkLabels, ExecLabels, LoadLabels
<1>19. ASSUME NEW u \in Page PROVE Count(p, r, u)' = Count(p, r, u)
  <2>1. u # None
    BY VmConstants
  <2> QED
    BY <1>4, <1>5, <1>6, <1>7, <1>8, <1>9, <1>13, <1>15, <2>1, NoCallIs DEF Count, N
<1> QED
  BY <1>2, <1>5, <1>7, <1>10, <1>12, <1>13, <1>15, <1>16, <1>17, <1>18, <1>19, Preserved

\* The trapframe of a child.
LEMMA StepAllocTrapframe ==
  ASSUME IInv, NEW p \in Proc, AllocTrapframe(p)
  PROVE  IInv'
<1>1. pc[p] = "trapframe" /\ UNCHANGED <<tab, state, pagetable, sz, panicked>>
      /\ pc[p] # "user" /\ pc[p] \in ForkLabels /\ pc[p] \notin NewLabels /\ pc[p] \notin SbrkLabels
  BY DEF AllocTrapframe, At, ForkLabels, NewLabels, LoadLabels, SbrkLabels
<1>2. PICK c \in CallRec, r \in Proc :
        /\ c = call[p] /\ r = R(p) /\ With(p, r) /\ SlotOK(p) /\ SlotOK(r) /\ CallOK(p)
        /\ state[p] = "live" /\ r # p /\ ForkOK(p, c) /\ state[r] = "used" /\ r = c.np
  BY <1>1, CallIs, Mine DEF IInv
<1>3. /\ pagetable[r] = None /\ trapframe[r] = None /\ c.pt = None /\ c.base = 0 /\ c.va = 0
      /\ c.mem = None /\ c.args = {}
  BY <1>1, <1>2 DEF ForkOK, CallOK, MapLabels, ExecLabels, LoadLabels
<1>4. CASE /\ Go(p, "fork_bad", call[p]) /\ UNCHANGED <<free, trapframe>>
  <2>1. /\ "fork_bad" \in Labels /\ "fork_bad" # "user" /\ "fork_bad" \in ForkLabels
        /\ "fork_bad" \notin SbrkLabels
    BY DEF Labels, ForkLabels, SbrkLabels
  <2>2. pc'[p] = "fork_bad" /\ call'[p] = c /\ Go(p, "fork_bad", c)
    BY <1>2, <1>4, <2>1, GoIs DEF IInv
  <2>3. ForkOK(p, c)'
    <3>1. /\ c.np \in Proc /\ state'[c.np] = "used"
          /\ \A q \in Proc : pc'[q] \in ForkLabels /\ call'[q].np = c.np => q = p
      BY <1>1, <1>2, <2>1, <2>2, ForkKept
    <3>2. pagetable'[c.np] = None
      BY <1>1, <1>2, <1>3
    <3> QED
      BY <1>3, <2>2, <3>1, <3>2 DEF ForkOK
  <2>4. CallOK(p)'
    BY <1>3, <2>2, <2>3 DEF CallOK, MapLabels, ForkLabels, SbrkLabels, ExecLabels, LoadLabels
  <2>5. UNCHANGED <<procVars, free, tab>> /\ panicked' = FALSE
    BY <1>1, <1>4 DEF procVars, IInv, Typed
  <2> QED
    BY <1>1, <1>2, <1>3, <2>1, <2>2, <2>4, <2>5, InCallSame
<1>5. ASSUME NEW page \in Page, Kalloc(page), free' = free \ {page},
             trapframe' = [trapframe EXCEPT ![call[p].np] = page], Go(p, "fork_root", call[p])
      PROVE  IInv'
  <2>1. /\ "fork_root" \in Labels /\ "fork_root" # "user" /\ "fork_root" \in ForkLabels
        /\ "fork_root" \notin SbrkLabels /\ "fork_root" \notin NewLabels
    BY DEF Labels, ForkLabels, SbrkLabels, NewLabels, LoadLabels
  <2>2. /\ pc' \in [Proc -> Labels] /\ call' \in [Proc -> CallRec]
        /\ pc'[p] = "fork_root" /\ call'[p] = c /\ \A q \in Proc : q # p => ProcSame(q)
    BY <1>2, <1>5, <2>1, GoIs DEF IInv
  <2>3. /\ trapframe'[r] = page /\ \A q \in Proc : q # r => trapframe'[q] = trapframe[q]
        /\ trapframe' \in [Proc -> Page \cup {None}]
    BY <1>2, <1>5 DEF IInv, Typed
  <2>4. \A q \in Proc : q # r => SlotSame(q)
    BY <1>1, <2>3 DEF SlotSame
  <2>5. Typed'
    BY <1>1, <1>5, <2>2, <2>3 DEF IInv, Typed
  <2>6. Images' = Images
    <3>1. Own(p, r)' = Own(p, r)
      BY <1>1, <1>2, <2>2 DEF Own
    <3> QED
      BY <1>2, <2>2, <2>4, <3>1, ImagesChange
  <2>7. Trees' /\ Owned' = Owned /\ \A qt : Same(qt)
    BY <1>1, <2>6, TreesSame DEF IInv
  <2>8. SlotOK(p)'
    BY <1>1, <1>2, <2>1, <2>2, <2>4, <2>7, SlotFrame
  <2>9. SlotOK(r)'
    <3>1. pagetable'[r] = None /\ sz'[r] = 0 /\ pc'[r] = "user" /\ state'[r] = "used"
      BY <1>1, <1>2, <1>3, <2>2, SlotIdle DEF SlotOK, ProcSame
    <3> QED
      BY <3>1 DEF SlotOK
  <2>10. CallOK(p)'
    <3>1. \A q \in Proc : pc'[q] \in ForkLabels /\ call'[q].np = r => q = p
      BY <1>1, <1>2, <2>2 DEF ForkOK, ProcSame
    <3>2. ForkOK(p, c)'
      BY <1>1, <1>2, <1>3, <2>2, <2>3, <3>1 DEF ForkOK
    <3> QED
      BY <1>3, <2>2, <3>2 DEF CallOK, MapLabels, ForkLabels, SbrkLabels, ExecLabels, LoadLabels
  <2>11. ASSUME NEW u \in Page PROVE Count(p, r, u)' = Count(p, r, u)
    <3>1. u # None
      BY VmConstants
    <3>2. page \in free
      BY <1>5, Alloc
    <3>3. N(u \in free) = N(u \in free') + N(u = page)
      BY <1>5, <3>2 DEF N
    <3>4. /\ N(u \in free) \in Int /\ N(u \in free') \in Int /\ N(u = page) \in Int
          /\ N(u \in Owned) \in Int /\ N(u = trapframe[p]) \in Int /\ N(u = pagetable[p]) \in Int
      BY DEF N
    <3>5. PICK f1, f2, o, t, g, m \in Int :
          /\ f2 = N(u \in free') /\ f1 = N(u \in free) /\ o = N(u \in Owned)
          /\ t = N(u = trapframe[p]) /\ g = N(u = pagetable[p]) /\ m = N(u = page)
      BY <3>4
    <3>6. Count(p, r, u) = f1 + o + t + 0 + 0 + g + 0 + (0 + 0)
      BY <1>1, <1>2, <1>3, <3>1, <3>5 DEF Count, N
    <3>7. Count(p, r, u)' = f2 + o + t + 0 + 0 + g + 0 + (m + 0)
      BY <1>1, <1>2, <1>3, <2>1, <2>2, <2>3, <2>7, <3>1, <3>5 DEF Count, N
    <3> QED
      BY <3>3, <3>5, <3>6, <3>7
  <2> QED
    BY <1>2, <2>2, <2>4, <2>5, <2>7, <2>8, <2>9, <2>10, <2>11, Preserved
<1> QED
  BY <1>4, <1>5 DEF AllocTrapframe

\* The pages of a slot are its own.
LEMMA SlotApart ==
  ASSUME IInv, NEW r \in Proc
  PROVE  /\ pagetable[r] \notin free /\ pagetable[r] \notin Owned
         /\ trapframe[r] \notin free /\ trapframe[r] \notin Owned
         /\ pagetable[r] # None => pagetable[r] # trapframe[r]
<1>1. None \notin free /\ None \notin Owned /\ r \in 0..NPROC /\ r # None /\ None \in 0..NPROC
  BY VmConstants, ProcIs DEF IInv, Typed, Owned
<1>2. pagetable[r] \in Page \cup {None} /\ trapframe[r] \in Page \cup {None}
  BY CallIs DEF IInv
<1>3. /\ Holds("root", r, pagetable[r]) /\ Holds("trapframe", r, trapframe[r])
      /\ \A u \in free : Holds("free", None, u)
      /\ \A u \in Owned : Holds("owned", None, u)
  BY DEF Holds
<1>4. {"free", "owned", "root", "trapframe"} \subseteq Kinds /\ OneHolder
  BY DEF Kinds, IInv
<1>5. pagetable[r] # None => /\ pagetable[r] \notin free /\ pagetable[r] \notin Owned
                             /\ pagetable[r] # trapframe[r]
  BY <1>1, <1>2, <1>3, <1>4, OneIs
<1>6. trapframe[r] # None => trapframe[r] \notin free /\ trapframe[r] \notin Owned
  BY <1>1, <1>2, <1>3, <1>4, OneIs
<1> QED
  BY <1>1, <1>5, <1>6

\* The pages of the slot were held, and are free now.
SlotFreed(pt, tf) ==
  \A u \in Page : N(u \in free') + N(u \in Owned')
                    = N(u \in free) + N(u \in Owned) + N(u = pt) + N(u = tf)

\* freeproc() of a slot whose image is in order.
LEMMA FreeProcDone ==
  ASSUME IInv, NEW p \in Proc, NEW r \in Proc, With(p, r), FreeProc(r),
         pagetable[r] = None \/ ImageIs(pagetable[r], PGROUNDUP(sz[r]), trapframe[r]),
         pagetable[r] # None => Images' = Images \ {pagetable[r]},
         pagetable[r] = None => Images' = Images,
         NEW pt, pt = pagetable[r], NEW tf, tf = trapframe[r]
  PROVE  /\ panicked' = FALSE /\ Trees' /\ free' \subseteq Page
         /\ \A qt \in Images : qt # pt => Same(qt)
         /\ SlotFreed(pt, tf)
         /\ state'[r] = "unused" /\ pagetable'[r] = None /\ trapframe'[r] = None /\ sz'[r] = 0
         /\ \A q \in Proc : q # r => SlotSame(q)
         /\ state' \in [Proc -> {"unused", "used", "live", "zombie"}]
         /\ pagetable' \in [Proc -> Page \cup {None}]
         /\ trapframe' \in [Proc -> Page \cup {None}]
         /\ sz' \in [Proc -> 0..MaxSz]
<1>1. Typed /\ Trees /\ MaxSz \in Nat /\ None \notin Page
  BY VmConstants DEF IInv
<1>2. /\ state' = [state EXCEPT ![r] = "unused"] /\ pagetable' = [pagetable EXCEPT ![r] = None]
      /\ trapframe' = [trapframe EXCEPT ![r] = None] /\ sz' = [sz EXCEPT ![r] = 0]
  BY DEF FreeProc
<1>3. /\ state' \in [Proc -> {"unused", "used", "live", "zombie"}]
      /\ pagetable' \in [Proc -> Page \cup {None}]
      /\ trapframe' \in [Proc -> Page \cup {None}]
      /\ sz' \in [Proc -> 0..MaxSz]
      /\ state'[r] = "unused" /\ pagetable'[r] = None /\ trapframe'[r] = None /\ sz'[r] = 0
      /\ \A q \in Proc : q # r => SlotSame(q)
  BY <1>1, <1>2 DEF Typed, SlotSame
<1>4. /\ pt \notin free /\ pt \notin Owned /\ tf \notin free /\ tf \notin Owned
      /\ pt # None => pt # tf
      /\ pt \in Page \cup {None} /\ tf \in Page \cup {None}
  BY <1>1, SlotApart, CallIs
<1>5. PICK size \in Nat : size = sz[r]
  BY <1>1, CallIs
<1>6. CASE pt = None
  <2>1. free' = free \cup ({tf} \ {None}) /\ tab' = tab /\ panicked' = panicked
    BY <1>6 DEF FreeProc, Kfree
  <2>2. Trees' /\ Owned' = Owned /\ \A qt : Same(qt)
    BY <1>1, <1>6, <2>1, TreesSame
  <2>3. free' \subseteq Page /\ panicked' = FALSE
    BY <1>1, <1>4, <2>1 DEF Typed
  <2>4. SlotFreed(pt, tf)
    <3> SUFFICES ASSUME NEW u \in Page
                 PROVE  N(u \in free') + N(u \in Owned')
                          = N(u \in free) + N(u \in Owned) + N(u = pt) + N(u = tf)
      BY DEF SlotFreed
    <3>1. u # None /\ (u \in free' <=> u \in free \/ u = tf)
      BY <1>1, <2>1
    <3> QED
      BY <1>4, <1>6, <2>2, <3>1 DEF N
  <2> QED
    BY <1>3, <2>2, <2>3, <2>4
<1>7. CASE pt # None
  <2>1. ProcFreePagetable(pt, size, {tf})
    BY <1>5, <1>7 DEF FreeProc
  <2>2. pt \in Images
    BY <1>7, ImagesIs
  <2>3. PICK k : k = PGROUNDUP(size)
    OBVIOUS
  <2>4. ImageIs(pt, k, tf)
    BY <1>5, <1>7, <2>3
  <2>5. PICK also : also = {tf}
    OBVIOUS
  <2>6. /\ \/ ImageIs(pt, PGROUNDUP(size), tf) /\ ProcFreePagetable(pt, size, also)
           \/ Empty(pt) /\ FreeImage(pt, {}, also)
        /\ Images' = Images \ {pt}
    BY <1>7, <2>1, <2>3, <2>4, <2>5
  <2>7. /\ panicked' = FALSE /\ Trees'
        /\ \A qt \in Images, vb \in Va : qt # pt => Entry(qt, vb)' = Entry(qt, vb)
        /\ \E M \in SUBSET Owned :
             /\ free' = free \cup also \cup M \cup {pt}
             /\ \A u \in Page : u \in Owned' <=> u \in Owned /\ u \notin M
    BY <1>1, <2>2, <2>6, PagetableFreed
  <2>8. PICK M \in SUBSET Owned :
             /\ free' = free \cup also \cup M \cup {pt}
             /\ \A u \in Page : u \in Owned' <=> u \in Owned /\ u \notin M
    BY <2>7
  <2>9. tf \in Page
    BY <2>4 DEF ImageIs
  <2>10. free' \subseteq Page
    BY <1>1, <1>4, <1>7, <2>5, <2>8, <2>9 DEF Typed, Owned
  <2>11. \A u \in free : u \notin Owned
    BY FreeApart
  <2>12. SlotFreed(pt, tf)
    <3> SUFFICES ASSUME NEW u \in Page
                 PROVE  N(u \in free') + N(u \in Owned')
                          = N(u \in free) + N(u \in Owned) + N(u = pt) + N(u = tf)
      BY DEF SlotFreed
    <3>1. u \in free' <=> u \in free \/ u = tf \/ u \in M \/ u = pt
      BY <2>5, <2>8
    <3>2. u \in Owned' <=> u \in Owned /\ u \notin M
      BY <2>8
    <3>3. u \in M => u \in Owned
      BY <2>8
    <3> QED
      BY <1>4, <1>7, <2>11, <3>1, <3>2, <3>3 DEF N
  <2>13. \A qt \in Images : qt # pt => Same(qt)
    BY <2>7 DEF Same
  <2> QED
    BY <1>3, <2>7, <2>10, <2>12, <2>13
<1> QED
  BY <1>6, <1>7

\* A call of p frees the slot r and returns.
LEMMA FreeProcStep ==
  ASSUME IInv, NEW p \in Proc, NEW r \in Proc, With(p, r), r # p, state[r] # "live",
         FreeProc(r), Return(p),
         pagetable[r] = None \/ ImageIs(pagetable[r], PGROUNDUP(sz[r]), trapframe[r]),
         call[p].args = {}, call[p].mem = None, call[p].pt \in {None, pagetable[r]},
         pc[p] \notin NewLabels, pc[p] \notin SbrkLabels
  PROVE  IInv'
<1>1. Typed /\ SlotOK(p) /\ state[p] = "live"
  BY DEF IInv, With
<1>2. /\ pc' \in [Proc -> Labels] /\ call' \in [Proc -> CallRec]
      /\ pc'[p] = "user" /\ call'[p] = NoCall /\ CallOK(p)'
      /\ \A q \in Proc : q # p => ProcSame(q)
      /\ pc'[p] \notin ForkLabels /\ pc'[p] \notin SbrkLabels /\ pc'[p] \notin NewLabels
  BY <1>1, CallEnds
<1>3. PICK pt, tf : pt = pagetable[r] /\ tf = trapframe[r]
  OBVIOUS
<1>4. pagetable[p] # None /\ pagetable[p] # pt
  <2>1. pagetable[p] \in Page
    BY <1>1 DEF SlotOK
  <2> QED
    BY <1>1, <1>3, <2>1, RootsApart, VmConstants DEF IInv
<1>5. pagetable' = [pagetable EXCEPT ![r] = None]
      /\ state' = [state EXCEPT ![r] = "unused"] /\ trapframe' = [trapframe EXCEPT ![r] = None]
      /\ sz' = [sz EXCEPT ![r] = 0]
  BY DEF FreeProc
<1>6. \A q \in Proc : q \notin {p, r} => SlotSame(q)
  BY <1>1, <1>5 DEF Typed, SlotSame
<1>7. Own(p, r) = {pagetable[p], pt} \ {None} /\ Own(p, r)' = {pagetable[p]}
  <2>1. pagetable'[p] = pagetable[p] /\ pagetable'[r] = None /\ call'[p].pt = None
    BY <1>1, <1>2, <1>5, NoCallIs DEF Typed
  <2> QED
    BY <1>3, <1>4, <2>1 DEF Own
<1>8. pt # None => Images' = Images \ {pt}
  <2>1. pt # None => pt \in Own(p, r) /\ Own(p, r)' = Own(p, r) \ {pt}
    BY <1>4, <1>7
  <2> QED
    BY <1>2, <1>6, <2>1, ImagesChange
<1>9. pt = None => Images' = Images
  <2>1. pt = None => Own(p, r)' = Own(p, r)
    BY <1>4, <1>7
  <2> QED
    BY <1>2, <1>6, <2>1, ImagesChange
<1>10. /\ panicked' = FALSE /\ Trees' /\ free' \subseteq Page
       /\ \A qt \in Images : qt # pt => Same(qt)
       /\ SlotFreed(pt, tf)
       /\ state'[r] = "unused" /\ pagetable'[r] = None /\ trapframe'[r] = None /\ sz'[r] = 0
       /\ \A q \in Proc : q # r => SlotSame(q)
       /\ state' \in [Proc -> {"unused", "used", "live", "zombie"}]
       /\ pagetable' \in [Proc -> Page \cup {None}]
       /\ trapframe' \in [Proc -> Page \cup {None}]
       /\ sz' \in [Proc -> 0..MaxSz]
  BY <1>3, <1>8, <1>9, FreeProcDone
<1>11. Typed'
  BY <1>2, <1>10 DEF Typed
<1>12. SlotOK(p)'
  <2>1. Same(pagetable[p])
    BY <1>4, <1>10, ImagesIs
  <2> QED
    BY <1>1, <1>2, <1>10, <2>1, SlotFrame
<1>13. SlotOK(r)'
  <2>1. pc'[r] = "user"
    BY <1>2, SlotIdle DEF ProcSame
  <2> QED
    BY <1>10, <2>1 DEF SlotOK
<1>14. ASSUME NEW u \in Page PROVE Count(p, r, u)' = Count(p, r, u)
  <2>1. u # None
    BY VmConstants
  <2>2. /\ N(u \in free') \in Int /\ N(u \in Owned') \in Int /\ N(u \in free) \in Int
        /\ N(u \in Owned) \in Int /\ N(u = trapframe[p]) \in Int /\ N(u = pagetable[p]) \in Int
        /\ N(u = pt) \in Int /\ N(u = tf) \in Int
    BY DEF N
  <2>3. PICK f1, f2, o1, o2, t, g, x, y \in Int :
          /\ f2 = N(u \in free') /\ o2 = N(u \in Owned') /\ f1 = N(u \in free)
          /\ o1 = N(u \in Owned) /\ t = N(u = trapframe[p]) /\ g = N(u = pagetable[p])
          /\ x = N(u = pt) /\ y = N(u = tf)
    BY <2>2
  <2>4. f2 + o2 = f1 + o1 + x + y
    BY <1>10, <2>3 DEF SlotFreed
  <2>5. Count(p, r, u) = f1 + o1 + t + 0 + 0 + g + 0 + (y + x)
    BY <1>3, <2>1, <2>3 DEF Count, N
  <2>6. Count(p, r, u)' = f2 + o2 + t + 0 + 0 + g + 0 + (0 + 0)
    <3>1. trapframe'[p] = trapframe[p] /\ pagetable'[p] = pagetable[p]
      BY <1>10 DEF SlotSame
    <3> QED
      BY <1>2, <1>10, <2>1, <2>3, <3>1, NoCallIs DEF Count, N
  <2> QED
    BY <2>3, <2>4, <2>5, <2>6
<1>15. pt \in {None, pagetable[p], pagetable[r], call[p].pt}
  BY <1>3
<1> QED
  BY <1>2, <1>6, <1>10, <1>11, <1>12, <1>13, <1>14, <1>15, Preserved

\* freeproc() of a child that could not be made.
LEMMA StepForkBad ==
  ASSUME IInv, NEW p \in Proc, ForkBad(p)
  PROVE  IInv'
<1>1. pc[p] = "fork_bad" /\ FreeProc(call[p].np) /\ Return(p) /\ pc[p] # "user"
      /\ pc[p] \in ForkLabels /\ pc[p] \notin NewLabels \ {"exec_bad"} /\ pc[p] \notin SbrkLabels
  BY DEF ForkBad, At, ForkLabels, NewLabels, LoadLabels, SbrkLabels
<1>2. PICK c \in CallRec, r \in Proc :
        /\ c = call[p] /\ r = R(p) /\ With(p, r) /\ SlotOK(r) /\ CallOK(p)
        /\ r # p /\ ForkOK(p, c) /\ state[r] = "used" /\ r = c.np
  BY <1>1, CallIs, Mine DEF IInv
<1>3. /\ c.pt = pagetable[r] /\ (c.pt # None => ImageIs(c.pt, 0, trapframe[r]))
      /\ c.mem = None /\ c.args = {} /\ pc[p] \notin NewLabels
  BY <1>1, <1>2 DEF ForkOK, CallOK, MapLabels, ExecLabels, LoadLabels
<1>4. pagetable[r] = None \/ ImageIs(pagetable[r], PGROUNDUP(sz[r]), trapframe[r])
  <2>1. sz[r] = 0 /\ PGROUNDUP(0) = 0
    BY <1>2, Rounding DEF SlotOK
  <2> QED
    BY <1>3, <2>1
<1> QED
  BY <1>1, <1>2, <1>3, <1>4, FreeProcStep

\* freeproc() of a zombie.
LEMMA StepWait ==
  ASSUME IInv, NEW p \in Proc, NEW np \in Proc, Wait(p, np)
  PROVE  IInv'
<1>1. /\ state[p] = "live" /\ pc[p] = "user" /\ state[np] = "zombie" /\ FreeProc(np)
      /\ UNCHANGED <<pc, call>>
  BY DEF Wait, Running
<1>2. call[p] = NoCall
  BY <1>1, InUser
<1>3. Return(p)
  <2>1. Go(p, pc[p], call[p])
    BY <1>1, GoSame DEF IInv
  <2> QED
    BY <1>1, <1>2, <2>1 DEF Return
<1>4. ImageIs(pagetable[np], PGROUNDUP(sz[np]), trapframe[np])
  <2>1. SlotOK(np) /\ pc[np] = "user"
    BY <1>1, SlotIdle
  <2> QED
    BY <1>1, <2>1 DEF SlotOK, SbrkLabels
<1>5. With(p, np) /\ pc[p] \notin NewLabels /\ pc[p] \notin SbrkLabels
  BY <1>1 DEF With, ForkLabels, NewLabels, LoadLabels, SbrkLabels
<1> QED
  BY <1>1, <1>2, <1>3, <1>4, <1>5, NoCallIs, FreeProcStep

\* The child is ready.
LEMMA StepForkDone ==
  ASSUME IInv, NEW p \in Proc, ForkDone(p)
  PROVE  IInv'
<1>1. /\ pc[p] = "copy" /\ ~MoreToMap(p) /\ Return(p)
      /\ sz' = [sz EXCEPT ![call[p].np] = sz[p]]
      /\ state' = [state EXCEPT ![call[p].np] = "live"]
      /\ UNCHANGED <<free, tab, pagetable, trapframe, panicked>>
  BY DEF ForkDone, At
<1>2. PICK c \in CallRec, r \in Proc, tf \in Page, pt \in Images :
        /\ c = call[p] /\ r = R(p) /\ tf = trapframe[r] /\ pt = c.pt
        /\ c.va <= PGROUNDUP(c.end) /\ ImageIs(pt, c.va, tf)
        /\ c.mem # None <=> pc[p] \in MapLabels
        /\ ForkOK(p, c) /\ r = c.np /\ pt = pagetable[r] /\ r # p /\ state[r] = "used"
        /\ pc[p] # "user" /\ state[p] = "live"
  <2>1. PICK l \in Loops : l = "copy" /\ pc[p] \in {l, MapLabel[l]}
    BY <1>1 DEF Loops
  <2> QED
    BY <2>1, InMap
<1>3. c.mem = None /\ c.args = {} /\ With(p, r) /\ SlotOK(p) /\ c.end = sz[p]
      /\ pc[p] \notin NewLabels /\ pc[p] \notin SbrkLabels
  <2>1. SlotOK(p) /\ CallOK(p) /\ With(p, r)
    BY <1>2, Mine
  <2> QED
    BY <1>1, <1>2, <2>1
       DEF CallOK, ForkOK, MapLabels, ExecLabels, NewLabels, LoadLabels, SbrkLabels
<1>4. c.va = PGROUNDUP(sz[p])
  <2>1. PICK v \in Nat, e \in Nat : v = c.va /\ e = c.end
    BY DEF CallRec
  <2>2. v <= PGROUNDUP(e) /\ ~(v * PGSIZE < e)
    BY <1>1, <1>2, <2>1 DEF MoreToMap
  <2> QED
    BY <1>3, <2>1, <2>2, MapEnd
<1>5. /\ pc' \in [Proc -> Labels] /\ call' \in [Proc -> CallRec]
      /\ pc'[p] = "user" /\ call'[p] = NoCall /\ CallOK(p)'
      /\ \A q \in Proc : q # p => ProcSame(q)
      /\ pc'[p] \notin ForkLabels /\ pc'[p] \notin SbrkLabels /\ pc'[p] \notin NewLabels
  BY <1>1, CallEnds DEF IInv
<1>6. /\ state'[r] = "live" /\ sz'[r] = sz[p]
      /\ state' \in [Proc -> {"unused", "used", "live", "zombie"}]
      /\ sz' \in [Proc -> 0..MaxSz] /\ \A q \in Proc : q # r => SlotSame(q)
  BY <1>1, <1>2 DEF IInv, Typed, SlotSame
<1>7. Typed'
  BY <1>1, <1>5, <1>6 DEF IInv, Typed
<1>8. Images' = Images
  <2>1. Own(p, r)' = Own(p, r)
    BY <1>1, <1>2, <1>5, NoCallIs DEF Own
  <2> QED
    BY <1>3, <1>5, <1>6, <2>1, ImagesChange
<1>9. Trees' /\ Owned' = Owned /\ \A qt : Same(qt)
  BY <1>1, <1>8, TreesSame DEF IInv
<1>10. SlotOK(p)'
  BY <1>2, <1>3, <1>5, <1>6, <1>9, SlotFrame
<1>11. SlotOK(r)'
  <2>1. PICK k : k = PGROUNDUP(sz[p])
    OBVIOUS
  <2>2. ImageIs(pt, k, tf)'
    BY <1>2, <1>4, <1>9, <2>1, ImageSame
  <2>3. pagetable'[r] = pt /\ trapframe'[r] = tf /\ pt \in Page
    BY <1>1, <1>2, ImagesIs
  <2> QED
    BY <1>6, <2>1, <2>2, <2>3 DEF SlotOK
<1>12. ASSUME NEW u \in Page PROVE Count(p, r, u)' = Count(p, r, u)
  <2>1. u # None
    BY VmConstants
  <2> QED
    BY <1>1, <1>2, <1>3, <1>5, <1>9, <2>1, NoCallIs DEF Count, N
<1> QED
  BY <1>3, <1>5, <1>6, <1>7, <1>9, <1>10, <1>11, <1>12, Preserved

\* exit() leaves the memory for wait().
LEMMA StepExit ==
  ASSUME IInv, NEW p \in Proc, Exit(p)
  PROVE  IInv'
<1>1. /\ state[p] = "live" /\ pc[p] = "user" /\ state' = [state EXCEPT ![p] = "zombie"]
      /\ UNCHANGED <<free, tab, pagetable, trapframe, sz, pc, call, panicked>>
  BY DEF Exit
<1>2. PICK pt, tf, k : pt = pagetable[p] /\ tf = trapframe[p] /\ k = PGROUNDUP(sz[p])
  OBVIOUS
<1>3. call[p] = NoCall /\ tf \in Page /\ pt \in Page /\ ImageIs(pt, k, tf)
  BY <1>1, <1>2, InUser
<1>4. Return(p)
  <2>1. Go(p, pc[p], call[p])
    BY <1>1, GoSame DEF IInv
  <2> QED
    BY <1>1, <1>3, <2>1 DEF Return
<1>5. /\ pc'[p] = "user" /\ call'[p] = NoCall /\ CallOK(p)'
      /\ \A q \in Proc : q # p => ProcSame(q)
      /\ pc'[p] \notin ForkLabels
  BY <1>4, CallEnds DEF IInv
<1>6. Typed' /\ state'[p] = "zombie" /\ \A q \in Proc : q # p => SlotSame(q)
  BY <1>1 DEF IInv, Typed, SlotSame
<1>7. Images' = Images
  BY <1>1 DEF Images
<1>8. Trees' /\ Owned' = Owned /\ \A qt : Same(qt)
  BY <1>1, <1>7, TreesSame DEF IInv
<1>9. SlotOK(p)'
  <2>1. ImageIs(pt, k, tf)'
    BY <1>3, <1>8, ImageSame
  <2>2. pagetable'[p] = pt /\ trapframe'[p] = tf /\ k = PGROUNDUP(sz'[p])
    BY <1>1, <1>2
  <2> QED
    BY <1>3, <1>5, <1>6, <2>1, <2>2 DEF SlotOK
<1>10. \A u \in Page : Count(p, p, u)' = Count(p, p, u)
  BY <1>1, <1>8 DEF Count
<1>11. With(p, p)
  BY <1>1 DEF With, ForkLabels
<1> QED
  BY <1>5, <1>6, <1>8, <1>9, <1>10, <1>11, Preserved

\* growproc() sets the new size.
LEMMA StepSbrkDone ==
  ASSUME IInv, NEW p \in Proc, SbrkDone(p)
  PROVE  IInv'
<1>1. /\ pc[p] = "sbrk" /\ ~MoreToMap(p) /\ Return(p)
      /\ sz' = [sz EXCEPT ![p] = call[p].end]
      /\ UNCHANGED <<free, tab, state, pagetable, trapframe, panicked>>
  BY DEF SbrkDone, At
<1>2. PICK c \in CallRec, tf \in Page, pt \in Images :
        /\ c = call[p] /\ tf = trapframe[p] /\ pt = c.pt
        /\ c.va <= PGROUNDUP(c.end) /\ c.end <= MaxSz /\ ImageIs(pt, c.va, tf)
        /\ c.mem # None <=> pc[p] \in MapLabels
        /\ pt = pagetable[p] /\ state[p] = "live"
  <2>1. PICK l \in Loops : l = "sbrk" /\ pc[p] \in {l, MapLabel[l]}
    BY <1>1 DEF Loops
  <2> QED
    BY <2>1, InMap
<1>3. c.mem = None /\ c.args = {} /\ With(p, p) /\ pc[p] \notin NewLabels
  <2>1. CallOK(p)
    BY DEF IInv
  <2> QED
    BY <1>1, <1>2, <2>1
       DEF With, CallOK, MapLabels, ExecLabels, NewLabels, LoadLabels, ForkLabels
<1>4. PICK v \in Nat, e \in Nat : v = c.va /\ e = c.end
  BY DEF CallRec
<1>5. v = PGROUNDUP(e)
  <2>1. v <= PGROUNDUP(e) /\ ~(v * PGSIZE < e)
    BY <1>1, <1>2, <1>4 DEF MoreToMap
  <2> QED
    BY <2>1, MapEnd
<1>6. /\ pc' \in [Proc -> Labels] /\ call' \in [Proc -> CallRec]
      /\ pc'[p] = "user" /\ call'[p] = NoCall /\ CallOK(p)'
      /\ \A q \in Proc : q # p => ProcSame(q)
      /\ pc'[p] \notin ForkLabels /\ pc'[p] \notin SbrkLabels /\ pc'[p] \notin NewLabels
  BY <1>1, CallEnds DEF IInv
<1>7. /\ sz'[p] = e /\ sz' \in [Proc -> 0..MaxSz] /\ \A q \in Proc : q # p => SlotSame(q)
  <2>1. e \in 0..MaxSz
    BY <1>2, <1>4, VmConstants
  <2> QED
    BY <1>1, <1>2, <1>4, <2>1 DEF IInv, Typed, SlotSame
<1>8. Typed'
  BY <1>1, <1>6, <1>7 DEF IInv, Typed
<1>9. Images' = Images
  <2>1. Own(p, p)' = Own(p, p)
    BY <1>1, <1>2, <1>6, NoCallIs DEF Own
  <2> QED
    BY <1>3, <1>6, <1>7, <2>1, ImagesChange
<1>10. Trees' /\ Owned' = Owned /\ \A qt : Same(qt)
  BY <1>1, <1>9, TreesSame DEF IInv
<1>11. SlotOK(p)'
  <2>1. ImageIs(pt, v, tf)'
    BY <1>2, <1>4, <1>10, ImageSame
  <2>2. pagetable'[p] = pt /\ trapframe'[p] = tf /\ pt \in Page /\ state'[p] = "live"
        /\ v = PGROUNDUP(sz'[p])
    BY <1>1, <1>2, <1>5, <1>7, ImagesIs
  <2> QED
    BY <2>1, <2>2 DEF SlotOK
<1>12. ASSUME NEW u \in Page PROVE Count(p, p, u)' = Count(p, p, u)
  <2>1. u # None
    BY VmConstants
  <2> QED
    BY <1>1, <1>2, <1>3, <1>6, <1>10, <2>1, NoCallIs DEF Count, N
<1> QED
  BY <1>3, <1>6, <1>7, <1>8, <1>10, <1>11, <1>12, Preserved

\* The arguments of an exec() are pages of their own, and so is an image's root.
LEMMA ArgsApart ==
  ASSUME IInv, NEW p \in Proc
  PROVE  /\ \A u \in call[p].args : u \in Page /\ u \notin free /\ u \notin Owned
         /\ \A u \in Images : u \notin free /\ u \notin Owned /\ u \notin call[p].args
<1>1. p \in 0..NPROC /\ p # None /\ None \in 0..NPROC /\ call[p].args \subseteq Page
      /\ free \subseteq Page
  BY ProcIs, CallIs DEF IInv, Typed
<1>2. /\ \A u \in call[p].args : Holds("argv", p, u)
      /\ \A u \in free : Holds("free", None, u)
      /\ \A u \in Owned : Holds("owned", None, u)
  BY DEF Holds
<1>3. {"free", "owned", "root", "new", "argv"} \subseteq Kinds /\ OneHolder
  BY DEF Kinds, IInv
<1>4. \A u \in call[p].args : u \in Page /\ u \notin free /\ u \notin Owned
  BY <1>1, <1>2, <1>3, OneIs
<1>5. ASSUME NEW u \in Images PROVE u \notin free /\ u \notin Owned /\ u \notin call[p].args
  <2>1. u \in Page
    BY ImagesIs
  <2>2. PICK q \in Proc, k \in {"root", "new"} : Holds(k, q, u)
    BY ImagesIs
  <2>3. q \in 0..NPROC /\ q # None
    BY ProcIs
  <2> QED
    BY <1>1, <1>2, <1>3, <2>1, <2>2, <2>3, OneIs
<1> QED
  BY <1>4, <1>5

\* An image and the arguments of an exec() were held, and are free now.
ExecFreed(pt, args) ==
  \A u \in Page : N(u \in free') + N(u \in Owned')
                    = N(u \in free) + N(u \in Owned) + N(u = pt) + N(u \in args)

\* The arguments of p's exec().
ArgsOf(p, args) == args = call[p].args

\* proc_freepagetable() of an image, and kfree() of the arguments.
LEMMA ExecFrees ==
  ASSUME IInv, NEW p \in Proc, NEW pt \in Images, NEW size \in Nat, NEW tf, NEW args,
         ArgsOf(p, args), ImageIs(pt, PGROUNDUP(size), tf),
         ProcFreePagetable(pt, size, args), Images' = Images \ {pt}
  PROVE  /\ panicked' = FALSE /\ Trees' /\ free' \subseteq Page
         /\ \A qt \in Images : qt # pt => Same(qt)
         /\ ExecFreed(pt, args)
<1>1. /\ \/ ImageIs(pt, PGROUNDUP(size), tf) /\ ProcFreePagetable(pt, size, args)
         \/ Empty(pt) /\ FreeImage(pt, {}, args)
      /\ Images' = Images \ {pt}
  OBVIOUS
<1>2. Trees /\ free \subseteq Page
  BY DEF IInv, Typed
<1>3. /\ panicked' = FALSE /\ Trees'
      /\ \A qt \in Images, vb \in Va : qt # pt => Entry(qt, vb)' = Entry(qt, vb)
      /\ \E M \in SUBSET Owned :
           /\ free' = free \cup args \cup M \cup {pt}
           /\ \A u \in Page : u \in Owned' <=> u \in Owned /\ u \notin M
  BY <1>1, <1>2, PagetableFreed
<1>4. PICK M \in SUBSET Owned :
           /\ free' = free \cup args \cup M \cup {pt}
           /\ \A u \in Page : u \in Owned' <=> u \in Owned /\ u \notin M
  BY <1>3
<1>5. /\ \A u \in args : u \in Page /\ u \notin free /\ u \notin Owned
      /\ pt \notin free /\ pt \notin Owned /\ pt \notin args /\ pt \in Page
  BY ArgsApart, ImagesIs DEF ArgsOf
<1>6. \A u \in free : u \notin Owned
  BY FreeApart
<1>7. free' \subseteq Page
  BY <1>2, <1>4, <1>5 DEF Owned
<1>8. ExecFreed(pt, args)
  <2> SUFFICES ASSUME NEW u \in Page
               PROVE  N(u \in free') + N(u \in Owned')
                        = N(u \in free) + N(u \in Owned) + N(u = pt) + N(u \in args)
    BY DEF ExecFreed
  <2>1. u \in free' <=> u \in free \/ u \in args \/ u \in M \/ u = pt
    BY <1>4
  <2>2. (u \in Owned' <=> u \in Owned /\ u \notin M) /\ (u \in M => u \in Owned)
    BY <1>4
  <2> QED
    BY <1>5, <1>6, <2>1, <2>2 DEF N
<1> QED
  BY <1>3, <1>7, <1>8 DEF Same

\* exec() replaces the old image.
LEMMA StepExecCommit ==
  ASSUME IInv, NEW p \in Proc, ExecCommit(p)
  PROVE  IInv'
<1>1. PICK c \in CallRec, tf \in Page, pg \in Page, size \in Nat :
        c = call[p] /\ tf = trapframe[p] /\ pg = pagetable[p] /\ size = sz[p]
        /\ pc[p] = "push" /\ state[p] = "live" /\ ExecOK(p, c) /\ c.mem = None
        /\ SlotOK(p) /\ pc[p] \notin SbrkLabels /\ pc[p] \notin ForkLabels
        /\ pc[p] \in NewLabels
  <2>1. pc[p] = "push" /\ pc[p] \in ExecLabels /\ pc[p] \notin MapLabels /\ pc[p] \in NewLabels
    BY DEF ExecCommit, At, ExecLabels, LoadLabels, MapLabels, NewLabels
  <2> QED
    BY <2>1, InExec, CallIs DEF IInv
<1>2. PICK pt, n : pt = c.pt /\ n = c.size
  OBVIOUS
<1>3. /\ ProcFreePagetable(pg, size, c.args)
      /\ pagetable' = [pagetable EXCEPT ![p] = pt] /\ sz' = [sz EXCEPT ![p] = n]
      /\ Return(p) /\ UNCHANGED <<state, trapframe>>
  BY <1>1, <1>2 DEF ExecCommit
<1>4. PICK k : k = PGROUNDUP(n)
  OBVIOUS
<1>5. n \in Nat /\ n <= MaxSz /\ ImageIs(pt, k, tf) /\ pt \in Page /\ pt # None
  <2>1. ImageIs(pt, k, tf) /\ n <= MaxSz
    BY <1>1, <1>2, <1>4 DEF ExecOK
  <2> QED
    BY <1>2, <2>1, VmConstants DEF CallRec, ImageIs
<1>6. pt # pg
  BY <1>1, <1>2, <1>5, RootsApart DEF IInv
<1>7. ImageIs(pg, PGROUNDUP(size), tf) /\ pg \in Images /\ pt \in Images
  <2>1. PICK j : j = PGROUNDUP(size)
    OBVIOUS
  <2>2. ImageIs(pg, j, tf)
    BY <1>1, <2>1 DEF SlotOK
  <2> QED
    BY <1>1, <1>2, <1>5, <2>1, <2>2, ImagesIs, VmConstants
<1>8. /\ pc' \in [Proc -> Labels] /\ call' \in [Proc -> CallRec]
      /\ pc'[p] = "user" /\ call'[p] = NoCall /\ CallOK(p)'
      /\ \A q \in Proc : q # p => ProcSame(q)
      /\ pc'[p] \notin ForkLabels /\ pc'[p] \notin SbrkLabels /\ pc'[p] \notin NewLabels
  BY <1>3, CallEnds DEF IInv
<1>9. /\ pagetable'[p] = pt /\ sz'[p] = n /\ state'[p] = "live" /\ trapframe'[p] = tf
      /\ pagetable' \in [Proc -> Page \cup {None}] /\ sz' \in [Proc -> 0..MaxSz]
      /\ \A q \in Proc : q # p => SlotSame(q)
  <2>1. n \in 0..MaxSz
    BY <1>5, VmConstants
  <2> QED
    BY <1>1, <1>3, <1>5, <2>1 DEF IInv, Typed, SlotSame
<1>10. With(p, p)
  BY <1>1 DEF With
<1>11. Images' = Images \ {pg}
  <2>1. Own(p, p) = {pg, pt} /\ Own(p, p)' = {pt}
    BY <1>1, <1>2, <1>5, <1>8, <1>9, NoCallIs, VmConstants DEF Own
  <2>2. pg \in Own(p, p) /\ Own(p, p)' = Own(p, p) \ {pg}
    BY <1>6, <2>1
  <2> QED
    BY <1>8, <1>9, <1>10, <2>2, ImagesChange
<1>12. /\ panicked' = FALSE /\ Trees' /\ free' \subseteq Page
       /\ \A qt \in Images : qt # pg => Same(qt)
       /\ ExecFreed(pg, c.args)
  <2>1. PICK args : args = c.args /\ ArgsOf(p, args)
    BY <1>1 DEF ArgsOf
  <2> QED
    BY <1>1, <1>3, <1>7, <1>11, <2>1, ExecFrees
<1>13. Typed'
  BY <1>3, <1>8, <1>9, <1>12 DEF IInv, Typed
<1>14. SlotOK(p)'
  <2>1. ImageIs(pt, k, tf)' /\ k = PGROUNDUP(sz'[p])
    BY <1>4, <1>5, <1>6, <1>7, <1>9, <1>12, ImageSame
  <2> QED
    BY <1>5, <1>9, <2>1 DEF SlotOK
<1>15. ASSUME NEW u \in Page PROVE Count(p, p, u)' = Count(p, p, u)
  <2>1. u # None
    BY VmConstants
  <2>2. /\ N(u \in free') \in Int /\ N(u \in Owned') \in Int /\ N(u \in free) \in Int
        /\ N(u \in Owned) \in Int /\ N(u = tf) \in Int /\ N(u = pg) \in Int
        /\ N(u = pt) \in Int /\ N(u \in c.args) \in Int
    BY DEF N
  <2>3. PICK f1, f2, o1, o2, t, g, x, a \in Int :
          /\ f2 = N(u \in free') /\ o2 = N(u \in Owned') /\ f1 = N(u \in free)
          /\ o1 = N(u \in Owned) /\ t = N(u = tf) /\ g = N(u = pg)
          /\ x = N(u = pt) /\ a = N(u \in c.args)
    BY <2>2
  <2>4. f2 + o2 = f1 + o1 + g + a
    BY <1>12, <2>3 DEF ExecFreed
  <2>5. Count(p, p, u) = f1 + o1 + t + a + 0 + g + x + 0
    BY <1>1, <1>2, <2>1, <2>3 DEF Count, N
  <2>6. Count(p, p, u)' = f2 + o2 + t + 0 + 0 + x + 0 + 0
    BY <1>8, <1>9, <2>1, <2>3, NoCallIs DEF Count, N
  <2> QED
    BY <2>3, <2>4, <2>5, <2>6
<1> QED
  BY <1>1, <1>8, <1>9, <1>10, <1>12, <1>13, <1>14, <1>15, Preserved

\* exec() fails, and frees the new image.
LEMMA StepExecBad ==
  ASSUME IInv, NEW p \in Proc, ExecBad(p)
  PROVE  IInv'
<1>1. PICK c \in CallRec, tf \in Page, pg \in Page :
        c = call[p] /\ tf = trapframe[p] /\ pg = pagetable[p]
        /\ pc[p] = "exec_bad" /\ state[p] = "live" /\ ExecOK(p, c) /\ c.mem = None
        /\ SlotOK(p) /\ pc[p] \notin SbrkLabels /\ pc[p] \notin ForkLabels
        /\ pc[p] \in NewLabels
  <2>1. pc[p] = "exec_bad" /\ pc[p] \in ExecLabels /\ pc[p] \notin MapLabels /\ pc[p] \in NewLabels
    BY DEF ExecBad, At, ExecLabels, LoadLabels, MapLabels, NewLabels
  <2> QED
    BY <2>1, InExec, CallIs DEF IInv
<1>2. PICK pt \in Page \cup {None}, size \in Nat : pt = c.pt /\ size = c.size
  BY DEF CallRec
<1>3. /\ IF pt = None THEN Kfree(c.args) /\ UNCHANGED <<tab, panicked>>
                      ELSE ProcFreePagetable(pt, size, c.args)
      /\ Return(p) /\ state' = state /\ trapframe' = trapframe /\ pagetable' = pagetable
      /\ sz' = sz
  BY <1>1, <1>2 DEF ExecBad, procVars
<1>4. pt = None \/ ImageIs(pt, PGROUNDUP(size), tf)
  BY <1>1, <1>2 DEF ExecOK
<1>5. pt # None => pt # pg /\ pt \in Images
  BY <1>1, <1>2, RootsApart, ImagesIs DEF IInv
<1>6. /\ pc' \in [Proc -> Labels] /\ call' \in [Proc -> CallRec]
      /\ pc'[p] = "user" /\ call'[p] = NoCall /\ CallOK(p)'
      /\ \A q \in Proc : q # p => ProcSame(q)
      /\ pc'[p] \notin ForkLabels /\ pc'[p] \notin SbrkLabels /\ pc'[p] \notin NewLabels
  BY <1>3, CallEnds DEF IInv
<1>7. \A q \in Proc : SlotSame(q)
  BY <1>3 DEF SlotSame
<1>8. With(p, p)
  BY <1>1 DEF With
<1>9. Own(p, p) = {pg, pt} \ {None} /\ Own(p, p)' = {pg}
  BY <1>1, <1>2, <1>3, <1>6, NoCallIs, VmConstants DEF Own
<1>10. /\ panicked' = FALSE /\ Trees' /\ free' \subseteq Page
       /\ \A qt \in Images : qt # pt => Same(qt)
       /\ ExecFreed(pt, c.args)
  <2>1. CASE pt = None
    <3>1. Own(p, p)' = Own(p, p)
      BY <1>9, <2>1, VmConstants
    <3>2. Images' = Images
      BY <1>6, <1>7, <1>8, <3>1, ImagesChange
    <3>3. free' = free \cup c.args /\ tab' = tab /\ panicked' = panicked
      BY <1>3, <2>1 DEF Kfree
    <3>4. Trees' /\ Owned' = Owned /\ \A qt : Same(qt)
      BY <3>2, <3>3, TreesSame DEF IInv
    <3>5. panicked' = FALSE /\ free' \subseteq Page
      BY <3>3 DEF IInv, Typed, CallRec
    <3>6. ExecFreed(pt, c.args)
      <4> SUFFICES ASSUME NEW u \in Page
                   PROVE  N(u \in free') + N(u \in Owned')
                            = N(u \in free) + N(u \in Owned) + N(u = pt) + N(u \in c.args)
        BY DEF ExecFreed
      <4>1. u # pt /\ (u \in c.args => u \notin free)
        BY <1>1, <2>1, ArgsApart, VmConstants
      <4> QED
        BY <3>3, <3>4, <4>1 DEF N
    <3> QED
      BY <3>4, <3>5, <3>6
  <2>2. CASE pt # None
    <3>1. pt \in Own(p, p) /\ Own(p, p)' = Own(p, p) \ {pt}
      BY <1>5, <1>9, <2>2, VmConstants
    <3>2. Images' = Images \ {pt}
      BY <1>6, <1>7, <1>8, <3>1, ImagesChange
    <3>3. PICK args : args = c.args /\ ArgsOf(p, args)
      BY <1>1 DEF ArgsOf
    <3>4. ImageIs(pt, PGROUNDUP(size), tf) /\ ProcFreePagetable(pt, size, args) /\ pt \in Images
      BY <1>3, <1>4, <1>5, <2>2, <3>3
    <3>5. /\ panicked' = FALSE /\ Trees' /\ free' \subseteq Page
          /\ \A qt \in Images : qt # pt => Same(qt)
          /\ ExecFreed(pt, args)
      BY <3>2, <3>3, <3>4, ExecFrees
    <3> QED
      BY <3>3, <3>5
  <2> QED
    BY <2>1, <2>2
<1>11. Typed'
  BY <1>3, <1>6, <1>10 DEF IInv, Typed
<1>12. SlotOK(p)'
  <2>1. Same(pg)
    <3>1. pg \in Images
      BY <1>1, ImagesIs, VmConstants
    <3> QED
      BY <1>5, <1>10, <3>1, VmConstants
  <2> QED
    BY <1>1, <1>6, <1>7, <2>1, SlotFrame
<1>13. ASSUME NEW u \in Page PROVE Count(p, p, u)' = Count(p, p, u)
  <2>1. u # None
    BY VmConstants
  <2>2. /\ N(u \in free') \in Int /\ N(u \in Owned') \in Int /\ N(u \in free) \in Int
        /\ N(u \in Owned) \in Int /\ N(u = tf) \in Int /\ N(u = pg) \in Int
        /\ N(u = pt) \in Int /\ N(u \in c.args) \in Int
    BY DEF N
  <2>3. PICK f1, f2, o1, o2, t, g, x, a \in Int :
          /\ f2 = N(u \in free') /\ o2 = N(u \in Owned') /\ f1 = N(u \in free)
          /\ o1 = N(u \in Owned) /\ t = N(u = tf) /\ g = N(u = pg)
          /\ x = N(u = pt) /\ a = N(u \in c.args)
    BY <2>2
  <2>4. f2 + o2 = f1 + o1 + x + a
    BY <1>10, <2>3 DEF ExecFreed
  <2>5. Count(p, p, u) = f1 + o1 + t + a + 0 + g + x + 0
    BY <1>1, <1>2, <2>1, <2>3 DEF Count, N
  <2>6. Count(p, p, u)' = f2 + o2 + t + 0 + 0 + g + 0 + 0
    BY <1>1, <1>3, <1>6, <2>1, <2>3, NoCallIs DEF Count, N
  <2> QED
    BY <2>3, <2>4, <2>5, <2>6
<1> QED
  BY <1>1, <1>2, <1>6, <1>7, <1>8, <1>10, <1>11, <1>12, <1>13, Preserved

\* growproc() with n < 0.
LEMMA StepSbrkShrink ==
  ASSUME IInv, NEW p \in Proc, NEW n \in Grow, SbrkShrink(p, n)
  PROVE  IInv'
<1>1. PICK y \in Nat : y = (sz[p] + UINT + n) % UINT
  <2>1. sz[p] + UINT + n \in Int /\ UINT \in Nat /\ UINT > 0
    BY CallIs, VmConstants DEF IInv
  <2>2. PICK x \in Int : x = sz[p] + UINT + n
    BY <2>1
  <2>3. x % UINT \in Nat
    BY <2>1, <2>2
  <2> QED
    BY <2>2, <2>3
<1>2. /\ state[p] = "live" /\ pc[p] = "user" /\ y < sz[p]
      /\ Unmap(pagetable[p], PGROUNDUP(y)..(PGROUNDUP(sz[p]) - 1), {})
      /\ sz' = [sz EXCEPT ![p] = y] /\ UNCHANGED <<state, pagetable, trapframe, pc, call>>
  BY <1>1 DEF SbrkShrink, Running, Uvmdealloc
<1>3. /\ call[p] = NoCall /\ trapframe[p] \in Page /\ pagetable[p] \in Page
      /\ ImageIs(pagetable[p], PGROUNDUP(sz[p]), trapframe[p]) /\ pagetable[p] \in Images
      /\ sz[p] \in Nat /\ sz[p] <= MaxSz
  BY <1>2, InUser
<1>4. PICK pt \in Images, tf \in Page, b \in Nat, v \in Nat, none \in SUBSET Page :
        /\ pt = pagetable[p] /\ tf = trapframe[p] /\ b = PGROUNDUP(y) /\ v = PGROUNDUP(sz[p])
        /\ none = {}
  BY <1>3, RoundUp
<1>5. b <= v
  <2>1. PICK s \in Nat : s = sz[p] /\ y <= s
    BY <1>1, <1>2, <1>3
  <2>2. PGROUNDUP(y) <= PGROUNDUP(s)
    BY <1>1, <2>1, Rounding
  <2> QED
    BY <1>4, <2>1, <2>2
<1>6. Images' = Images
  BY <1>2 DEF Images
<1>7. /\ panicked' = FALSE /\ Trees' /\ ImageIs(pt, b, tf)'
      /\ \A qt \in Images, vb \in Va : qt # pt => Entry(qt, vb)' = Entry(qt, vb)
      /\ Moved(none)
  <2>1. ImageIs(pt, v, tf) /\ Unmap(pt, b..(v - 1), none) /\ Trees
    BY <1>2, <1>3, <1>4 DEF IInv
  <2> QED
    BY <1>5, <1>6, <2>1, UnmapDone
<1>8. PICK M \in SUBSET Owned :
        /\ free' = free \cup M /\ \A u \in Page : u \in Owned' <=> u \in Owned /\ u \notin M
  BY <1>4, <1>7 DEF Moved
<1>9. /\ y \in 0..MaxSz /\ sz' \in [Proc -> 0..MaxSz] /\ sz'[p] = y
      /\ \A q \in Proc : q # p => SlotSame(q)
  <2>1. y \in 0..MaxSz
    BY <1>1, <1>2, <1>3, VmConstants
  <2> QED
    BY <1>2, <2>1 DEF IInv, Typed, SlotSame
<1>10. Typed'
  BY <1>2, <1>7, <1>8, <1>9 DEF IInv, Typed, Owned
<1>11. Return(p)
  <2>1. Go(p, pc[p], call[p])
    BY <1>2, GoSame DEF IInv
  <2> QED
    BY <1>2, <1>3, <2>1 DEF Return
<1>12. /\ pc'[p] = "user" /\ call'[p] = NoCall /\ CallOK(p)'
       /\ \A q \in Proc : q # p => ProcSame(q)
       /\ pc'[p] \notin ForkLabels
  BY <1>11, CallEnds DEF IInv
<1>13. SlotOK(p)'
  <2>1. b = PGROUNDUP(sz'[p]) /\ pagetable'[p] = pt /\ trapframe'[p] = tf /\ state'[p] = "live"
        /\ pt \in Page
    BY <1>2, <1>3, <1>4, <1>9
  <2> QED
    BY <1>7, <1>12, <2>1 DEF SlotOK
<1>14. ASSUME NEW u \in Page PROVE Count(p, p, u)' = Count(p, p, u)
  <2>1. N(u \in free') + N(u \in Owned') = N(u \in free) + N(u \in Owned)
    <3>1. (u \in free => u \notin Owned) /\ (u \in M => u \in Owned)
      BY <1>8, FreeApart
    <3> QED
      BY <1>8, <3>1 DEF N
  <2>2. /\ N(u \in free') \in Int /\ N(u \in Owned') \in Int /\ N(u \in free) \in Int
        /\ N(u \in Owned) \in Int
    BY DEF N
  <2>3. PICK f1, f2, o1, o2 \in Int :
          /\ f2 = N(u \in free') /\ o2 = N(u \in Owned') /\ f1 = N(u \in free)
          /\ o1 = N(u \in Owned)
    BY <2>2
  <2>4. f2 + o2 = f1 + o1
    BY <2>1, <2>3
  <2>5. Count(p, p, u)' - (f2 + o2) = Count(p, p, u) - (f1 + o1)
    BY <1>2, <2>3 DEF Count, N
  <2>6. Count(p, p, u)' \in Int /\ Count(p, p, u) \in Int
    BY DEF Count, N
  <2> QED
    BY <2>4, <2>5, <2>6
<1>15. With(p, p) /\ \A qt \in Images : qt # pagetable[p] => Same(qt)
  BY <1>2, <1>4, <1>7 DEF With, ForkLabels, Same
<1> QED
  BY <1>7, <1>9, <1>10, <1>12, <1>13, <1>14, <1>15, Preserved

-----------------------------------------------------------------------------
(***************************************************************************)
(* The invariant of the specification.                                     *)
(***************************************************************************)

\* Every step keeps the invariant.
LEMMA Preserves ==
  ASSUME IInv, [Next]_vars
  PROVE  IInv'
<1>1. ASSUME NEW p \in Proc, Fork(p) \/ AllocTrapframe(p) \/ ForkBad(p) \/ ForkDone(p)
      PROVE  IInv'
  BY <1>1, StepFork, StepAllocTrapframe, StepForkBad, StepForkDone
<1>2. ASSUME NEW p \in Proc, Create(p) \/ MapTrampolineWalk(p) \/ MapTrampoline(p)
      PROVE  IInv'
  <2>1. MapTrampoline(p) => pc[p] \in {"fork_tramp", "exec_tramp"}
    BY DEF MapTrampoline, At
  <2> QED
    BY <1>2, <2>1, StepCreate, StepMapTrampolineWalk, StepMapTrampolineExec, StepMapTrampolineFork
<1>3. ASSUME NEW p \in Proc, AllocMem(p) \/ MapMemWalk(p) \/ MapMem(p)
      PROVE  IInv'
  BY <1>3, StepAllocMem, StepMapMemWalk, StepMapMem
<1>4. ASSUME NEW p \in Proc, Exit(p) \/ (\E np \in Proc : Wait(p, np))
      PROVE  IInv'
  BY <1>4, StepExit, StepWait
<1>5. ASSUME NEW p \in Proc, (\E n \in Grow : SbrkGrow(p, n) \/ SbrkShrink(p, n)) \/ SbrkDone(p)
      PROVE  IInv'
  BY <1>5, StepSbrkGrow, StepSbrkShrink, StepSbrkDone
<1>6. ASSUME NEW p \in Proc, Exec(p) \/ FetchArg(p) \/ ExecImage(p) \/ ExecError(p)
      PROVE  IInv'
  BY <1>6, StepExec, StepFetchArg, StepExecImage, StepExecError
<1>7. ASSUME NEW p \in Proc, (\E end \in SegEnds : LoadSegment(p, end)) \/ SegmentDone(p) \/ Stack(p)
      PROVE  IInv'
  BY <1>7, StepLoadSegment, StepSegmentDone, StepStack
<1>8. ASSUME NEW p \in Proc, StackDone(p) \/ ExecCommit(p) \/ ExecBad(p)
      PROVE  IInv'
  BY <1>8, StepStackDone, StepExecCommit, StepExecBad
<1>9. ASSUME UNCHANGED vars PROVE IInv'
  <2>1. /\ free' = free /\ tab' = tab /\ state' = state /\ pagetable' = pagetable
        /\ trapframe' = trapframe /\ sz' = sz /\ pc' = pc /\ call' = call /\ panicked' = panicked
    BY <1>9 DEF vars, procVars
  <2>2. Typed' /\ Images' = Images
    BY <2>1 DEF IInv, Typed, Images
  <2>3. Trees' /\ Owned' = Owned /\ \A qt : Same(qt)
    BY <2>1, <2>2, TreesSame DEF IInv
  <2>4. OneHolder'
    BY <2>1, <2>3 DEF IInv, OneHolder, Holds
  <2>5. ASSUME NEW p \in Proc PROVE SlotOK(p)' /\ CallOK(p)'
    <3>1. /\ SlotSame(p) /\ ProcSame(p) /\ SlotOK(p) /\ CallOK(p) /\ Typed
          /\ pc[p] # "user" => state[p] = "live"
      BY <2>1 DEF SlotSame, ProcSame, IInv, SlotOK
    <3>2. SlotOK(p)'
      BY <2>1, <2>3, <3>1, SlotFrame
    <3>3. pc[p] \in ForkLabels =>
            \A r \in Proc : pc'[r] \in ForkLabels /\ call'[r].np = call[p].np => r = p
      BY <2>1, <3>1 DEF CallOK, ForkOK
    <3>4. CallOK(p)'
      BY <2>1, <2>3, <3>1, <3>3, CallFrame
    <3> QED
      BY <3>2, <3>4
  <2> QED
    BY <2>2, <2>3, <2>4, <2>5 DEF IInv
<1> QED
  BY <1>1, <1>2, <1>3, <1>4, <1>5, <1>6, <1>7, <1>8, <1>9 DEF Next

\* The page table of userinit().
UserInit ==
  /\ tab \in [Page -> [Idx -> PTE]]
  /\ tab[2][0] = [pa |-> 3, kind |-> "table"] /\ tab[3][0] = [pa |-> 4, kind |-> "table"]
  /\ tab[2][FANOUT - 1] = [pa |-> 5, kind |-> "table"]
  /\ tab[5][FANOUT - 1] = [pa |-> 6, kind |-> "table"]
  /\ tab[4][0] = [pa |-> 7, kind |-> "user"]
  /\ tab[6][FANOUT - 1] = [pa |-> None, kind |-> "kernel"]
  /\ tab[6][FANOUT - 2] = [pa |-> 1, kind |-> "kernel"]
  /\ \A t \in Page, i \in Idx :
       <<t, i>> \notin {<<2, 0>>, <<3, 0>>, <<2, FANOUT - 1>>, <<5, FANOUT - 1>>, <<4, 0>>,
                        <<6, FANOUT - 1>>, <<6, FANOUT - 2>>} => tab[t][i] = Null

\* The page table of process 1 has these entries.
LEMMA InitTab ==
  ASSUME Init
  PROVE  UserInit
<1> DEFINE F == FANOUT
<1>1. F \in Nat /\ F >= 2 /\ F - 1 \in Idx /\ F - 2 \in Idx /\ 0 \in Idx /\ F - 1 # 0 /\ F - 1 # F - 2
  BY VmConstants DEF Idx
<1>2. {1, 2, 3, 4, 5, 6, 7} \subseteq Page
  BY VmConstants DEF Page
<1>3. NoEntries \in [Idx -> PTE] /\ \A i \in Idx : NoEntries[i] = Null
  BY NullIs DEF NoEntries
<1>4. PICK none \in [Idx -> PTE] : none = NoEntries /\ \A i \in Idx : none[i] = Null
  BY <1>3
<1>5. PICK t3, t4, t5, t6, u7, k0, k1 \in PTE :
        /\ t3 = [pa |-> 3, kind |-> "table"] /\ t4 = [pa |-> 4, kind |-> "table"]
        /\ t5 = [pa |-> 5, kind |-> "table"] /\ t6 = [pa |-> 6, kind |-> "table"]
        /\ u7 = [pa |-> 7, kind |-> "user"]
        /\ k0 = [pa |-> None, kind |-> "kernel"] /\ k1 = [pa |-> 1, kind |-> "kernel"]
  BY <1>2 DEF PTE
<1>6. tab = [t \in Page |->
       CASE t = 2 -> [none EXCEPT ![0] = t3, ![F - 1] = t5]
         [] t = 3 -> [none EXCEPT ![0] = t4]
         [] t = 4 -> [none EXCEPT ![0] = u7]
         [] t = 5 -> [none EXCEPT ![F - 1] = t6]
         [] t = 6 -> [none EXCEPT ![F - 1] = k0, ![F - 2] = k1]
         [] OTHER -> none]
  BY <1>4, <1>5 DEF Init
<1>7. PICK a2, a3, a4, a5, a6 \in [Idx -> PTE] :
        /\ a2 = [none EXCEPT ![0] = t3, ![F - 1] = t5] /\ a3 = [none EXCEPT ![0] = t4]
        /\ a4 = [none EXCEPT ![0] = u7] /\ a5 = [none EXCEPT ![F - 1] = t6]
        /\ a6 = [none EXCEPT ![F - 1] = k0, ![F - 2] = k1]
  BY <1>1
<1>8. /\ a2[0] = t3 /\ a2[F - 1] = t5 /\ \A i \in Idx : i # 0 /\ i # F - 1 => a2[i] = Null
      /\ a3[0] = t4 /\ \A i \in Idx : i # 0 => a3[i] = Null
      /\ a4[0] = u7 /\ \A i \in Idx : i # 0 => a4[i] = Null
      /\ a5[F - 1] = t6 /\ \A i \in Idx : i # F - 1 => a5[i] = Null
      /\ a6[F - 1] = k0 /\ a6[F - 2] = k1 /\ \A i \in Idx : i # F - 1 /\ i # F - 2 => a6[i] = Null
  BY <1>1, <1>4, <1>7
<1>9. /\ tab[2] = a2 /\ tab[3] = a3 /\ tab[4] = a4 /\ tab[5] = a5 /\ tab[6] = a6
      /\ \A t \in Page : t \notin {2, 3, 4, 5, 6} => tab[t] = none
      /\ tab \in [Page -> [Idx -> PTE]]
  BY <1>2, <1>6, <1>7
<1>10. ASSUME NEW t \in Page, NEW i \in Idx,
       <<t, i>> \notin {<<2, 0>>, <<3, 0>>, <<2, F - 1>>, <<5, F - 1>>, <<4, 0>>,
                        <<6, F - 1>>, <<6, F - 2>>}
       PROVE  tab[t][i] = Null
  <2>1. /\ t = 2 => i # 0 /\ i # F - 1
        /\ t = 3 => i # 0
        /\ t = 4 => i # 0
        /\ t = 5 => i # F - 1
        /\ t = 6 => i # F - 1 /\ i # F - 2
    BY <1>10
  <2> QED
    BY <1>4, <1>8, <1>9, <2>1
<1> QED
  BY <1>5, <1>8, <1>9, <1>10 DEF UserInit

\* The entries that own a page at the start.
LEMMA InitOwns ==
  ASSUME UserInit
  PROVE  /\ {1, 2, 3, 4, 5, 6, 7} \subseteq Page
         /\ 0 \in Idx /\ FANOUT - 1 \in Idx /\ FANOUT - 2 \in Idx
         /\ 0 # FANOUT - 1 /\ FANOUT - 1 # FANOUT - 2
         /\ \A t \in Page, i \in Idx : Owns(tab[t][i]) =>
              \/ t = 2 /\ i = 0 /\ tab[t][i] = [pa |-> 3, kind |-> "table"]
              \/ t = 2 /\ i = FANOUT - 1 /\ tab[t][i] = [pa |-> 5, kind |-> "table"]
              \/ t = 3 /\ i = 0 /\ tab[t][i] = [pa |-> 4, kind |-> "table"]
              \/ t = 5 /\ i = FANOUT - 1 /\ tab[t][i] = [pa |-> 6, kind |-> "table"]
              \/ t = 4 /\ i = 0 /\ tab[t][i] = [pa |-> 7, kind |-> "user"]
         /\ \A t \in Page, i \in Idx : tab[t][i].kind = "kernel" => t = 6
         /\ Owned = {3, 4, 5, 6, 7}
<1> DEFINE F == FANOUT
<1>1. F \in Nat /\ F >= 2 /\ F - 1 \in Idx /\ F - 2 \in Idx /\ 0 \in Idx /\ F - 1 # 0 /\ F - 1 # F - 2
  BY VmConstants DEF Idx
<1>2. {1, 2, 3, 4, 5, 6, 7} \subseteq Page
  BY VmConstants DEF Page
<1>3. ASSUME NEW t \in Page, NEW i \in Idx, tab[t][i] # Null
      PROVE  \/ t = 2 /\ i = 0 /\ tab[t][i] = [pa |-> 3, kind |-> "table"]
             \/ t = 2 /\ i = F - 1 /\ tab[t][i] = [pa |-> 5, kind |-> "table"]
             \/ t = 3 /\ i = 0 /\ tab[t][i] = [pa |-> 4, kind |-> "table"]
             \/ t = 5 /\ i = F - 1 /\ tab[t][i] = [pa |-> 6, kind |-> "table"]
             \/ t = 4 /\ i = 0 /\ tab[t][i] = [pa |-> 7, kind |-> "user"]
             \/ t = 6 /\ tab[t][i].kind = "kernel"
  <2>1. <<t, i>> \in {<<2, 0>>, <<3, 0>>, <<2, F - 1>>, <<5, F - 1>>, <<4, 0>>,
                      <<6, F - 1>>, <<6, F - 2>>}
    BY <1>3 DEF UserInit
  <2> QED
    BY <2>1 DEF UserInit
<1>4. ASSUME NEW t \in Page, NEW i \in Idx, Owns(tab[t][i])
      PROVE  \/ t = 2 /\ i = 0 /\ tab[t][i] = [pa |-> 3, kind |-> "table"]
             \/ t = 2 /\ i = F - 1 /\ tab[t][i] = [pa |-> 5, kind |-> "table"]
             \/ t = 3 /\ i = 0 /\ tab[t][i] = [pa |-> 4, kind |-> "table"]
             \/ t = 5 /\ i = F - 1 /\ tab[t][i] = [pa |-> 6, kind |-> "table"]
             \/ t = 4 /\ i = 0 /\ tab[t][i] = [pa |-> 7, kind |-> "user"]
  <2>1. tab[t][i] # Null /\ tab[t][i].kind # "kernel"
    BY <1>4, NullIs DEF Owns
  <2> QED
    BY <1>3, <2>1
<1>5. \A t \in Page, i \in Idx : tab[t][i].kind = "kernel" => t = 6
  <2> SUFFICES ASSUME NEW t \in Page, NEW i \in Idx, tab[t][i].kind = "kernel" PROVE t = 6
    OBVIOUS
  <2>1. tab[t][i] # Null
    BY NullIs
  <2> QED
    BY <1>3, <2>1
<1>6. Owned = {3, 4, 5, 6, 7}
  <2>1. \A u \in Owned : u \in {3, 4, 5, 6, 7}
    BY <1>4 DEF Owned, Points
  <2>2. /\ Points(2, 0, 3) /\ Points(2, F - 1, 5) /\ Points(3, 0, 4) /\ Points(5, F - 1, 6)
        /\ Points(4, 0, 7)
    BY DEF UserInit, Points, Owns
  <2>3. \A u \in {3, 4, 5, 6, 7} : u \in Owned
    BY <1>1, <1>2, <2>2 DEF Owned
  <2> QED
    BY <2>1, <2>3
<1> QED
  BY <1>1, <1>2, <1>4, <1>5, <1>6

\* It is a tree of three levels with two branches.
LEMMA InitTrees ==
  ASSUME UserInit, Images = {2}
  PROVE  Trees
<1> DEFINE lev == [t \in Page |-> IF t = 2 THEN 2 ELSE IF t \in {3, 5} THEN 1
                                  ELSE IF t \in {4, 6} THEN 0 ELSE 3]
<1>1. {1, 2, 3, 4, 5, 6, 7} \subseteq Page
  BY InitOwns
<1>2. /\ lev \in [Page -> 0..3] /\ lev[2] = 2 /\ lev[3] = 1 /\ lev[5] = 1 /\ lev[4] = 0
      /\ lev[6] = 0 /\ lev[7] = 3
      /\ \A t \in Page : /\ lev[t] = 2 => t = 2
                         /\ lev[t] \in {0, 1} => t \in {3, 4, 5, 6}
  BY <1>1
<1> HIDE DEF lev
<1>3. ASSUME NEW t \in Page, NEW i \in Idx PROVE EntryOK(lev, t, tab[t][i])
  <2>1. tab[t][i].kind = "none" => tab[t][i] = Null
    <3>1. \/ tab[t][i] = Null
          \/ <<t, i>> \in {<<2, 0>>, <<3, 0>>, <<2, FANOUT - 1>>, <<5, FANOUT - 1>>, <<4, 0>>,
                           <<6, FANOUT - 1>>, <<6, FANOUT - 2>>}
      BY DEF UserInit
    <3> QED
      BY <3>1 DEF UserInit
  <2>2. tab[t][i].kind = "kernel" => lev[t] = 0
    BY <1>2, InitOwns
  <2>3. CASE ~Owns(tab[t][i])
    BY <2>1, <2>2, <2>3 DEF EntryOK, Owns
  <2>4. CASE Owns(tab[t][i])
    <3>1. \/ t = 2 /\ tab[t][i] = [pa |-> 3, kind |-> "table"]
          \/ t = 2 /\ tab[t][i] = [pa |-> 5, kind |-> "table"]
          \/ t = 3 /\ tab[t][i] = [pa |-> 4, kind |-> "table"]
          \/ t = 5 /\ tab[t][i] = [pa |-> 6, kind |-> "table"]
          \/ t = 4 /\ tab[t][i] = [pa |-> 7, kind |-> "user"]
      BY <2>4, InitOwns
    <3> QED
      BY <1>1, <1>2, <3>1 DEF EntryOK
  <2> QED
    BY <2>3, <2>4
<1>4. \A u \in Page : lev[u] \in {0, 1} =>
        \E t \in Page, i \in Idx : tab[t][i].kind = "table" /\ tab[t][i].pa = u
  <2>1. \A u \in {3, 4, 5, 6} :
          \E t \in Page, i \in Idx : tab[t][i].kind = "table" /\ tab[t][i].pa = u
    <3>1. /\ 2 \in Page /\ 3 \in Page /\ 5 \in Page /\ 0 \in Idx /\ FANOUT - 1 \in Idx
      BY <1>1, InitOwns
    <3> QED
      BY <3>1 DEF UserInit
  <2> QED
    BY <1>2, <2>1
<1>5. Levels(lev)
  BY <1>2, <1>3, <1>4 DEF Levels
<1>6. Once
  <2> SUFFICES ASSUME NEW t \in Page, NEW u \in Page, NEW i \in Idx, NEW j \in Idx,
                      Owns(tab[t][i]), Owns(tab[u][j]), tab[u][j].pa = tab[t][i].pa
               PROVE  t = u /\ i = j
    BY DEF Once, Points
  <2>1. \/ t = 2 /\ i = 0 /\ tab[t][i] = [pa |-> 3, kind |-> "table"]
        \/ t = 2 /\ i = FANOUT - 1 /\ tab[t][i] = [pa |-> 5, kind |-> "table"]
        \/ t = 3 /\ i = 0 /\ tab[t][i] = [pa |-> 4, kind |-> "table"]
        \/ t = 5 /\ i = FANOUT - 1 /\ tab[t][i] = [pa |-> 6, kind |-> "table"]
        \/ t = 4 /\ i = 0 /\ tab[t][i] = [pa |-> 7, kind |-> "user"]
    BY InitOwns
  <2>2. \/ u = 2 /\ j = 0 /\ tab[u][j] = [pa |-> 3, kind |-> "table"]
        \/ u = 2 /\ j = FANOUT - 1 /\ tab[u][j] = [pa |-> 5, kind |-> "table"]
        \/ u = 3 /\ j = 0 /\ tab[u][j] = [pa |-> 4, kind |-> "table"]
        \/ u = 5 /\ j = FANOUT - 1 /\ tab[u][j] = [pa |-> 6, kind |-> "table"]
        \/ u = 4 /\ j = 0 /\ tab[u][j] = [pa |-> 7, kind |-> "user"]
    BY InitOwns
  <2> QED
    BY <2>1, <2>2
<1> QED
  BY <1>1, <1>5, <1>6 DEF Trees, UserInit

\* It maps a page of user memory, the trapframe and the trampoline.
LEMMA InitImage ==
  ASSUME UserInit, Trees, Images = {2}
  PROVE  ImageIs(2, 1, 1)
<1> DEFINE F == FANOUT
<1>1. /\ {1, 2, 3, 4, 5, 6, 7} \subseteq Page
      /\ F - 1 \in Idx /\ F - 2 \in Idx /\ 0 \in Idx /\ 0 # F - 1 /\ F - 1 # F - 2
  BY InitOwns
<1>2. /\ TRAMPOLINE \in Va /\ TRAPFRAME \in Va /\ 0 \in Va /\ TRAPFRAME = TRAMPOLINE - 1
      /\ TRAPFRAME \in Nat /\ TRAPFRAME >= 6 /\ \A va \in Va : va \in Nat /\ va <= TRAMPOLINE
  BY PXAt DEF Va
<1>3. ASSUME NEW va \in Va
      PROVE  \/ va = 0 /\ Entry(2, va) = [pa |-> 7, kind |-> "user"]
             \/ va = TRAMPOLINE /\ Entry(2, va) = [pa |-> None, kind |-> "kernel"]
             \/ va = TRAPFRAME /\ Entry(2, va) = [pa |-> 1, kind |-> "kernel"]
             \/ va \notin {0, TRAMPOLINE, TRAPFRAME} /\ Entry(2, va) = Null
  <2>1. PICK a, b, c \in Idx : a = PX(2, va) /\ b = PX(1, va) /\ c = PX(0, va)
    BY PXIs
  <2>2. /\ va = 0 <=> a = 0 /\ b = 0 /\ c = 0
        /\ va = TRAMPOLINE <=> a = F - 1 /\ b = F - 1 /\ c = F - 1
        /\ va = TRAPFRAME <=> a = F - 1 /\ b = F - 1 /\ c = F - 2
    BY <1>2, <2>1, PXIs, PXAt
  <2>3. PICK e2, e1 : e2 = tab[2][a] /\ e1 = tab[e2.pa][b]
    OBVIOUS
  <2>4. Walk(2, va) = CASE e2 = Null -> [page |-> 2, level |-> 2]
                        [] e2 # Null /\ e1 = Null -> [page |-> e2.pa, level |-> 1]
                        [] OTHER -> [page |-> e1.pa, level |-> 0]
    BY <2>1, <2>3 DEF Walk
  <2>5. Entry(2, va) = IF Walk(2, va).level > 0 THEN Null ELSE tab[Walk(2, va).page][c]
    BY <2>1 DEF Entry
  <2>6. CASE a # 0 /\ a # F - 1
    <3>1. e2 = Null
      BY <1>1, <2>1, <2>3, <2>6 DEF UserInit
    <3> QED
      BY <2>2, <2>4, <2>5, <2>6, <3>1
  <2>7. CASE a = 0
    <3>1. e2 = [pa |-> 3, kind |-> "table"] /\ e2 # Null /\ e1 = tab[3][b]
      BY <2>3, <2>7 DEF UserInit, Null
    <3>2. CASE b # 0
      <4>1. e1 = Null
        BY <1>1, <2>1, <3>1, <3>2 DEF UserInit
      <4> QED
        BY <1>1, <2>2, <2>4, <2>5, <2>7, <3>1, <3>2, <4>1
    <3>3. CASE b = 0
      <4>1. e1 = [pa |-> 4, kind |-> "table"] /\ e1 # Null
        BY <3>1, <3>3 DEF UserInit, Null
      <4>2. Entry(2, va) = tab[4][c]
        BY <2>4, <2>5, <3>1, <4>1
      <4>3. c # 0 => tab[4][c] = Null
        BY <1>1, <2>1 DEF UserInit
      <4> QED
        BY <1>1, <2>2, <2>7, <3>3, <4>2, <4>3 DEF UserInit
    <3> QED
      BY <3>2, <3>3
  <2>8. CASE a = F - 1
    <3>1. e2 = [pa |-> 5, kind |-> "table"] /\ e2 # Null /\ e1 = tab[5][b]
      BY <2>3, <2>8 DEF UserInit, Null
    <3>2. CASE b # F - 1
      <4>1. e1 = Null
        BY <1>1, <2>1, <3>1, <3>2 DEF UserInit
      <4> QED
        BY <1>1, <2>2, <2>4, <2>5, <2>8, <3>1, <3>2, <4>1
    <3>3. CASE b = F - 1
      <4>1. e1 = [pa |-> 6, kind |-> "table"] /\ e1 # Null
        BY <3>1, <3>3 DEF UserInit, Null
      <4>2. Entry(2, va) = tab[6][c]
        BY <2>4, <2>5, <3>1, <4>1
      <4>3. c # F - 1 /\ c # F - 2 => tab[6][c] = Null
        BY <1>1, <2>1 DEF UserInit
      <4> QED
        BY <1>1, <2>2, <2>8, <3>3, <4>2, <4>3 DEF UserInit
    <3> QED
      BY <3>2, <3>3
  <2> QED
    BY <2>6, <2>7, <2>8
<1>4. Null.kind = "none" /\ Null # [pa |-> 7, kind |-> "user"]
      /\ Null # [pa |-> None, kind |-> "kernel"] /\ Null # [pa |-> 1, kind |-> "kernel"]
  BY DEF Null
<1>5. \A va \in Va : Entry(2, va) = Null <=> 1 <= va /\ va < TRAPFRAME
  <2> SUFFICES ASSUME NEW va \in Va PROVE Entry(2, va) = Null <=> 1 <= va /\ va < TRAPFRAME
    OBVIOUS
  <2>1. va \notin {0, TRAMPOLINE, TRAPFRAME} <=> 1 <= va /\ va < TRAPFRAME
    BY <1>2
  <2> QED
    BY <1>3, <1>4, <2>1
<1>6. Entry(2, TRAMPOLINE).kind = "kernel" /\ Entry(2, TRAPFRAME) = [pa |-> 1, kind |-> "kernel"]
  BY <1>2, <1>3
<1>7. \A va \in Va : va < 1 => Entry(2, va).kind \in {"user", "guard"}
  <2> SUFFICES ASSUME NEW va \in Va, va < 1 PROVE Entry(2, va).kind = "user"
    OBVIOUS
  <2>1. va = 0
    BY <1>2
  <2> QED
    BY <1>2, <1>3, <2>1
<1>8. \A va \in Va : Entry(2, va).kind # "guard"
  BY <1>3, <1>4
<1> QED
  BY <1>1, <1>2, <1>5, <1>6, <1>7, <1>8 DEF ImageIs

\* userinit() leaves the invariant true.
LEMMA Starts ==
  ASSUME Init
  PROVE  IInv
<1>1. UserInit
  BY InitTab
<1>2. /\ {1, 2, 3, 4, 5, 6, 7} \subseteq Page /\ Owned = {3, 4, 5, 6, 7}
  BY <1>1, InitOwns
<1>3. /\ 1 \in Proc /\ PGSIZE \in 0..MaxSz /\ None = 0 /\ Page \subseteq Nat /\ None \notin Page
      /\ MaxSz \in Nat
  BY VmConstants DEF Proc, None
<1>4. /\ free = Page \ 1..7 /\ panicked = FALSE
      /\ state = [p \in Proc |-> IF p = 1 THEN "live" ELSE "unused"]
      /\ pagetable = [p \in Proc |-> IF p = 1 THEN 2 ELSE None]
      /\ trapframe = [p \in Proc |-> IF p = 1 THEN 1 ELSE None]
      /\ sz = [p \in Proc |-> IF p = 1 THEN PGSIZE ELSE 0]
      /\ pc = [p \in Proc |-> "user"]
      /\ call = [p \in Proc |-> NoCall]
  BY DEF Init, initproc, Kinit
<1>5. /\ state[1] = "live" /\ pagetable[1] = 2 /\ trapframe[1] = 1 /\ sz[1] = PGSIZE
      /\ \A p \in Proc : p # 1 => /\ state[p] = "unused" /\ pagetable[p] = None
                                  /\ trapframe[p] = None /\ sz[p] = 0
      /\ \A p \in Proc : pc[p] = "user" /\ call[p] = NoCall
  BY <1>3, <1>4
<1>6. Typed
  <2>1. "user" \in Labels /\ NoCall \in CallRec
    BY NoCallIs DEF Labels
  <2> QED
    BY <1>2, <1>3, <1>4, <2>1 DEF Typed
<1>7. Images = {2}
  <2>1. \A p \in Proc : call[p].pt = None
    BY <1>5, NoCallIs
  <2>2. \A u : u \in Images <=> u # None /\ \E p \in Proc : u = pagetable[p] \/ u = call[p].pt
    BY DEF Images
  <2>3. \A u : u \in Images <=> u = 2
    BY <1>2, <1>3, <1>5, <2>1, <2>2
  <2> QED
    BY <2>3
<1>8. Trees
  BY <1>1, <1>7, InitTrees
<1>9. ImageIs(2, 1, 1)
  BY <1>1, <1>7, <1>8, InitImage
<1>10. OneHolder
  <2>1. \A u \in Page : \E k \in Kinds, p \in 0..NPROC :
          \A l \in Kinds, q \in 0..NPROC : Holds(l, q, u) <=> l = k /\ q = p
    <3> SUFFICES ASSUME NEW u \in Page
                 PROVE  \E k \in Kinds, p \in 0..NPROC :
                          \A l \in Kinds, q \in 0..NPROC : Holds(l, q, u) <=> l = k /\ q = p
      OBVIOUS
    <3>1. /\ u # None /\ 1 \in 0..NPROC /\ None \in 0..NPROC
          /\ \A p \in Proc : p # None
      BY <1>3, ProcIs
    <3>2. ASSUME NEW l \in Kinds, NEW q \in 0..NPROC
          PROVE  Holds(l, q, u) <=> \/ l = "free" /\ q = None /\ u \in free
                                    \/ l = "owned" /\ q = None /\ u \in Owned
                                    \/ l = "trapframe" /\ q = 1 /\ u = 1
                                    \/ l = "root" /\ q = 1 /\ u = 2
      <4>1. /\ \A p \in Proc : u = trapframe[p] <=> p = 1 /\ u = 1
            /\ \A p \in Proc : u = pagetable[p] <=> p = 1 /\ u = 2
            /\ \A p \in Proc : u \notin call[p].args /\ u # call[p].mem
            /\ \A p \in Proc : pc[p] \notin NewLabels
        BY <1>3, <1>5, <3>1, NoCallIs DEF NewLabels, LoadLabels
      <4> QED
        BY <1>3, <4>1 DEF Holds
    <3>3. {"free", "owned", "trapframe", "root"} \subseteq Kinds
      BY DEF Kinds
    <3>4. \/ u \in free /\ u \notin Owned /\ u # 1 /\ u # 2
          \/ u \notin free /\ u \in Owned /\ u # 1 /\ u # 2
          \/ u \notin free /\ u \notin Owned /\ u = 1
          \/ u \notin free /\ u \notin Owned /\ u = 2
      BY <1>2, <1>3, <1>4
    <3>5. CASE u \in free /\ u \notin Owned /\ u # 1 /\ u # 2
      <4>1. \A l \in Kinds, q \in 0..NPROC : Holds(l, q, u) <=> l = "free" /\ q = None
        BY <3>2, <3>5
      <4> QED
        BY <3>1, <3>3, <4>1
    <3>6. CASE u \notin free /\ u \in Owned /\ u # 1 /\ u # 2
      <4>1. \A l \in Kinds, q \in 0..NPROC : Holds(l, q, u) <=> l = "owned" /\ q = None
        BY <3>2, <3>6
      <4> QED
        BY <3>1, <3>3, <4>1
    <3>7. CASE u \notin free /\ u \notin Owned /\ u = 1
      <4>1. \A l \in Kinds, q \in 0..NPROC : Holds(l, q, u) <=> l = "trapframe" /\ q = 1
        BY <3>2, <3>7
      <4> QED
        BY <3>1, <3>3, <4>1
    <3>8. CASE u \notin free /\ u \notin Owned /\ u = 2
      <4>1. \A l \in Kinds, q \in 0..NPROC : Holds(l, q, u) <=> l = "root" /\ q = 1
        BY <3>2, <3>8
      <4> QED
        BY <3>1, <3>3, <4>1
    <3> QED
      BY <3>4, <3>5, <3>6, <3>7, <3>8
  <2> QED
    BY <2>1 DEF OneHolder
<1>11. ASSUME NEW p \in Proc PROVE SlotOK(p)
  <2>1. CASE p = 1
    <3>1. PGROUNDUP(PGSIZE) = 1
      <4>1. PGROUNDUP(1 * PGSIZE) = 1
        BY Rounding
      <4> QED
        BY <4>1, VmConstants
    <3>2. PICK k, pt, tf : k = PGROUNDUP(sz[p]) /\ k = 1 /\ pt = pagetable[p] /\ tf = trapframe[p]
      BY <1>5, <2>1, <3>1
    <3>3. ImageIs(pt, k, tf) /\ pt \in Page /\ tf \in Page
      BY <1>2, <1>5, <1>9, <2>1, <3>2
    <3> QED
      BY <1>5, <2>1, <3>2, <3>3 DEF SlotOK
  <2>2. CASE p # 1
    BY <1>5, <2>2 DEF SlotOK
  <2> QED
    BY <2>1, <2>2
<1>12. ASSUME NEW p \in Proc PROVE CallOK(p)
  BY <1>5, NoCallIs DEF CallOK, MapLabels, ForkLabels, SbrkLabels, ExecLabels, LoadLabels
<1> QED
  BY <1>6, <1>8, <1>10, <1>11, <1>12 DEF IInv

\* The inductive invariant holds.
THEOREM VmInvariant == Spec => []IInv
<1>1. Init => IInv
  BY Starts
<1>2. IInv /\ [Next]_vars => IInv'
  BY Preserves
<1> QED
  BY <1>1, <1>2, PTL DEF Spec

-----------------------------------------------------------------------------
(***************************************************************************)
(* The properties, from the inductive invariant.                           *)
(***************************************************************************)

\* vm.c does not panic, and p->sz says what is mapped.
LEMMA InvAddressSpaces ==
  ASSUME IInv
  PROVE  AddressSpaces
<1>1. ~panicked
  BY DEF IInv, Typed
<1>2. ASSUME NEW p \in Proc, state[p] = "live", pc[p] = "user"
      PROVE  LET pt == pagetable[p] IN
               /\ Mapped(pt) = {TRAMPOLINE, TRAPFRAME} \cup Image(sz[p])
               /\ Entry(pt, TRAPFRAME).pa = trapframe[p]
               /\ Cardinality({va \in Image(sz[p]) : Entry(pt, va).kind # "user"}) <= 1
  <2>1. PICK pt \in Images, tf \in Page, n \in Nat :
          /\ pt = pagetable[p] /\ tf = trapframe[p]
          /\ n = PGROUNDUP(sz[p]) /\ ImageIs(pt, n, tf)
    BY <1>2, InUser DEF ImageIs
  <2>2. /\ Mapped(pt) = {TRAMPOLINE, TRAPFRAME} \cup 0..(n - 1)
        /\ \A va \in Nat : va < n => va \in Va
    BY <2>1, ImageMaps DEF IInv
  <2>3. Image(sz[p]) = 0..(n - 1) /\ n \in Nat
    BY <2>1 DEF Image, ImageIs
  <2>4. Entry(pt, TRAPFRAME).pa = tf
    BY <2>1 DEF ImageIs
  <2> DEFINE S == {va \in Image(sz[p]) : Entry(pt, va).kind # "user"}
  <2>5. \A va \in S : va \in Va /\ Entry(pt, va).kind = "guard"
    <3> SUFFICES ASSUME NEW va \in S PROVE va \in Va /\ Entry(pt, va).kind = "guard"
      OBVIOUS
    <3>1. va \in Nat /\ va < n /\ Entry(pt, va).kind # "user"
      BY <2>3
    <3>2. va \in Va
      BY <2>2, <3>1
    <3> QED
      BY <2>1, <3>1, <3>2 DEF ImageIs
  <2>6. \A va, vb \in S : va = vb
    BY <2>1, <2>5 DEF ImageIs
  <2> HIDE DEF S
  <2>7. Cardinality(S) <= 1
    <3>1. CASE S = {}
      BY <3>1, FS_EmptySet
    <3>2. CASE S # {}
      <4>1. PICK x : S = {x}
        BY <2>6, <3>2
      <4>2. Cardinality(S) = 1
        BY <4>1, FS_Singleton
      <4> QED
        BY <4>2
    <3> QED
      BY <3>1, <3>2
  <2> QED
    BY <2>1, <2>2, <2>3, <2>4, <2>7 DEF S
<1> QED
  BY <1>1, <1>2 DEF AddressSpaces

\* What an image may be while a call builds it or takes it down.
LEMMA ImageForm ==
  ASSUME IInv, NEW pt \in Images
  PROVE  Empty(pt) \/ \E n, tf : ImageIs(pt, n, tf)
<1>1. ASSUME NEW p \in Proc, pt = call[p].pt, pc[p] \in NewLabels
      PROVE  Empty(pt) \/ \E n, tf : ImageIs(pt, n, tf)
  <2>1. CallOK(p) /\ pt # None
    BY ImagesIs DEF IInv
  <2>2. CASE pc[p] = "fork_tramp"
    <3>1. ForkOK(p, call[p])
      BY <2>1, <2>2 DEF CallOK, ForkLabels
    <3> QED
      BY <1>1, <2>2, <3>1 DEF ForkOK
  <2>3. CASE pc[p] # "fork_tramp"
    <3>1. ExecOK(p, call[p])
      BY <1>1, <2>1, <2>3 DEF CallOK, NewLabels, ExecLabels
    <3>2. pc[p] \in {"exec_tramp", "exec_bad", "load", "seg", "seg_map", "stack", "stack_map", "push"}
      BY <1>1, <2>3 DEF NewLabels, LoadLabels
    <3>3. PICK c : c = call[p]
      OBVIOUS
    <3>4. \/ pc[p] = "exec_tramp" /\ Empty(c.pt)
          \/ ImageIs(c.pt, PGROUNDUP(c.size), trapframe[p])
          \/ ImageIs(c.pt, c.va, trapframe[p])
      BY <1>1, <2>1, <3>1, <3>2, <3>3 DEF ExecOK
    <3> QED
      BY <1>1, <3>3, <3>4
  <2> QED
    BY <2>2, <2>3
<1>2. ASSUME NEW p \in Proc, pt = pagetable[p]
      PROVE  \E n, tf : ImageIs(pt, n, tf)
  <2>1. SlotOK(p) /\ CallOK(p) /\ state[p] \in {"unused", "used", "live", "zombie"} /\ pt # None
    BY ImagesIs DEF IInv, Typed
  <2>2. CASE state[p] = "used"
    BY <1>2, <2>1, <2>2 DEF SlotOK
  <2>3. CASE state[p] \in {"live", "zombie"} /\ pc[p] \notin SbrkLabels
    BY <1>2, <2>1, <2>3 DEF SlotOK
  <2>4. CASE pc[p] \in SbrkLabels
    BY <1>2, <2>1, <2>4 DEF CallOK, SbrkOK
  <2>5. CASE state[p] = "unused"
    BY <1>2, <2>1, <2>5 DEF SlotOK
  <2> QED
    BY <2>1, <2>2, <2>3, <2>4, <2>5
<1>3. PICK p \in Proc : pt # None /\ (pt = pagetable[p] \/ pt = call[p].pt)
  BY ImagesIs
<1>4. CASE pt = pagetable[p]
  BY <1>2, <1>4
<1>5. CASE pt = call[p].pt
  BY <1>1, <1>2, <1>3, <1>5, CallImage
<1> QED
  BY <1>3, <1>4, <1>5

\* So the pages that an image owns are those of its user memory.
LEMMA UserPagesIs ==
  ASSUME IInv, NEW pt \in Images
  PROVE  /\ \A va \in Mapped(pt) \cap 0..(TRAPFRAME - 1) : va \in Va /\ Owns(Entry(pt, va))
         /\ \A va \in Va : Owns(Entry(pt, va)) => va \in Mapped(pt) \cap 0..(TRAPFRAME - 1)
<1>1. /\ TRAPFRAME \in Nat /\ TRAMPOLINE = TRAPFRAME + 1 /\ Trees
      /\ \A va : va \in Va <=> va \in 0..TRAMPOLINE
  BY PXAt DEF IInv, Va
<1>2. \A va : va \in Mapped(pt) <=> va \in Va /\ Entry(pt, va) # Null
  BY DEF Mapped, Va
<1>3. CASE Empty(pt)
  BY <1>2, <1>3, NullIs DEF Empty
<1>4. ASSUME NEW n, NEW tf, ImageIs(pt, n, tf)
      PROVE  /\ \A va \in Mapped(pt) \cap 0..(TRAPFRAME - 1) : va \in Va /\ Owns(Entry(pt, va))
             /\ \A va \in Va : Owns(Entry(pt, va)) => va \in Mapped(pt) \cap 0..(TRAPFRAME - 1)
  <2>1. /\ Mapped(pt) = {TRAMPOLINE, TRAPFRAME} \cup 0..(n - 1)
        /\ \A va \in Va : Owns(Entry(pt, va)) <=> va < n
        /\ \A va \in Nat : va < n => va \in Va
    BY <1>1, <1>4, ImageMaps
  <2>2. n \in Nat /\ n <= TRAPFRAME
    BY <1>4 DEF ImageIs
  <2>3. Mapped(pt) \cap 0..(TRAPFRAME - 1) = 0..(n - 1)
    BY <1>1, <2>1, <2>2
  <2>4. \A va \in Va : va \in Nat
    BY <1>1
  <2> QED
    BY <1>1, <2>1, <2>2, <2>3, <2>4
<1> QED
  BY <1>3, <1>4, ImageForm

\* What an address owns is in an entry of a lowest table.
LEMMA LeafOf ==
  ASSUME Trees, NEW pt \in Images, NEW va \in Va, Owns(Entry(pt, va))
  PROVE  \E t \in Page, i \in Idx : /\ Walk(pt, va).level = 0 /\ t = Walk(pt, va).page
                                   /\ i = PX(0, va) /\ Entry(pt, va) = tab[t][i]
                                   /\ tab[t][i].kind # "table"
<1>1. PICK t \in Page, i \in Idx : t = Walk(pt, va).page /\ i = PX(0, va)
  BY EntryAt, PXIs
<1>2. Walk(pt, va).level = 0 /\ Entry(pt, va) = tab[t][i]
  BY <1>1, EntryAt, NullIs
<1> QED
  BY <1>1, <1>2, EntryAt

\* A page of user memory is mapped at one address of one image.
LEMMA OnePlace ==
  ASSUME Trees, NEW pt \in Images, NEW qt \in Images, NEW va \in Va, NEW vb \in Va,
         Owns(Entry(pt, va)), Owns(Entry(qt, vb)), Entry(pt, va).pa = Entry(qt, vb).pa
  PROVE  pt = qt /\ va = vb
<1>1. PICK t \in Page, i \in Idx :
        /\ Walk(pt, va).level = 0 /\ t = Walk(pt, va).page /\ i = PX(0, va)
        /\ Entry(pt, va) = tab[t][i]
  BY LeafOf
<1>2. PICK u \in Page, j \in Idx :
        /\ Walk(qt, vb).level = 0 /\ u = Walk(qt, vb).page /\ j = PX(0, vb)
        /\ Entry(qt, vb) = tab[u][j]
  BY LeafOf
<1>3. t = u /\ i = j
  <2>1. Owns(tab[t][i]) /\ Points(u, j, tab[t][i].pa)
    BY <1>1, <1>2 DEF Points
  <2> QED
    BY <2>1 DEF Trees, Once
<1>4. Walk(pt, va).page = Walk(qt, vb).page /\ PX(0, va) = PX(0, vb)
  BY <1>1, <1>2, <1>3
<1> QED
  BY <1>1, <1>2, <1>4, PathInjective

\* A page of user memory is not a table.
LEMMA NotATable ==
  ASSUME Trees, NEW pt \in Images, NEW qt \in Images, NEW va \in Va, Owns(Entry(qt, va))
  PROVE  Entry(qt, va).pa \notin Tables(pt)
<1>1. PICK t \in Page, i \in Idx : Entry(qt, va) = tab[t][i] /\ tab[t][i].kind # "table"
  BY LeafOf
<1>2. Points(t, i, Entry(qt, va).pa)
  BY <1>1 DEF Points
<1> QED
  BY <1>1, <1>2, TablesUp

\* A use is one of five, and its kind and its holder say which pages it has.
LEMMA UseIs ==
  ASSUME NEW u \in Uses
  PROVE  /\ u = <<u[1], u[2], u[3]>>
         /\ \/ u[1] = "trapframe" /\ u[2] \in Proc /\ u[3] = {trapframe[u[2]]} \ {None}
            \/ u[1] = "tables" /\ u[2] \in Images /\ u[3] = Tables(u[2])
            \/ u[1] = "memory" /\ u[2] \in Images /\ u[3] = UserPages(u[2])
            \/ u[1] = "argv" /\ u[2] \in Proc /\ u[3] = call[u[2]].args
            \/ u[1] = "mem" /\ u[2] \in Proc /\ u[3] = {call[u[2]].mem} \ {None}
BY DEF Uses

\* The converse.
LEMMA IsUse ==
  /\ \A p \in Proc : /\ <<"trapframe", p, {trapframe[p]} \ {None}>> \in Uses
                     /\ <<"argv", p, call[p].args>> \in Uses
                     /\ <<"mem", p, {call[p].mem} \ {None}>> \in Uses
  /\ \A pt \in Images : /\ <<"tables", pt, Tables(pt)>> \in Uses
                        /\ <<"memory", pt, UserPages(pt)>> \in Uses
BY DEF Uses

\* The pages of a use are held as its kind says.
LEMMA UseHolds ==
  ASSUME IInv, NEW u \in Uses, NEW x \in u[3]
  PROVE  /\ x \in Page
         /\ u[1] \in {"trapframe", "argv", "mem"} => u[2] \in 0..NPROC /\ Holds(u[1], u[2], x)
         /\ u[1] \in {"tables", "memory"} =>
              \E l \in {"root", "new", "owned"}, q \in 0..NPROC : Holds(l, q, x)
         /\ u[1] = "memory" => \E va \in Va : Owns(Entry(u[2], va)) /\ Entry(u[2], va).pa = x
<1>1. Trees /\ Typed /\ \A p \in Proc : p \in 0..NPROC /\ p # None /\ None \in 0..NPROC
  BY ProcIs DEF IInv
<1>2. PICK o : o = u[2]
  OBVIOUS
<1>3. CASE u[1] = "trapframe" /\ o \in Proc /\ u[3] = {trapframe[o]} \ {None}
  BY <1>1, <1>2, <1>3, CallIs DEF Holds
<1>4. CASE u[1] = "argv" /\ o \in Proc /\ u[3] = call[o].args
  BY <1>1, <1>2, <1>4, CallIs DEF Holds
<1>5. CASE u[1] = "mem" /\ o \in Proc /\ u[3] = {call[o].mem} \ {None}
  BY <1>1, <1>2, <1>5, CallIs DEF Holds
<1>6. CASE u[1] = "tables" /\ o \in Images /\ u[3] = Tables(o)
  <2>1. PICK lev : Levels(lev)
    BY <1>1 DEF Trees
  <2>2. x \in Page /\ (x # o => \E t \in Tables(o), i \in Idx : tab[t][i].kind = "table" /\ tab[t][i].pa = x)
        /\ Tables(o) \subseteq Page
    BY <1>1, <1>6, <2>1, TablesIs
  <2>3. CASE x = o
    <3>1. PICK p \in Proc : Holds("root", p, x) \/ Holds("new", p, x)
      BY <1>6, <2>3, ImagesIs
    <3> QED
      BY <1>1, <1>6, <2>2, <3>1
  <2>4. CASE x # o
    <3>1. x \in Owned
      BY <2>2, <2>4 DEF Owned, Points, Owns
    <3>2. Holds("owned", None, x)
      BY <3>1 DEF Holds
    <3> QED
      BY <1>1, <1>6, <2>2, <3>2, VmConstants DEF None
  <2> QED
    BY <2>3, <2>4
<1>7. CASE u[1] = "memory" /\ o \in Images /\ u[3] = UserPages(o)
  <2>1. PICK va \in Mapped(o) \cap 0..(TRAPFRAME - 1) : x = Entry(o, va).pa
    BY <1>7 DEF UserPages
  <2>2. va \in Va /\ Owns(Entry(o, va))
    BY <1>7, <2>1, UserPagesIs
  <2>3. x \in Owned /\ x \in Page
    BY <1>1, <1>7, <2>1, <2>2, EntryOwned, EntryAt
  <2>4. Holds("owned", None, x)
    BY <2>3 DEF Holds
  <2> QED
    BY <1>1, <1>2, <1>7, <2>1, <2>2, <2>3, <2>4, VmConstants DEF None
<1> QED
  BY <1>2, <1>3, <1>4, <1>5, <1>6, <1>7, UseIs

\* No page has two uses.
LEMMA UsesApart ==
  ASSUME IInv, NEW u \in Uses, NEW v \in Uses, NEW x \in u[3], x \in v[3]
  PROVE  u = v
<1>1. Trees /\ OneHolder
  BY DEF IInv
<1>2. PICK k, o, l, q : k = u[1] /\ o = u[2] /\ l = v[1] /\ q = v[2]
  OBVIOUS
<1>3. k = l /\ o = q => u = v
  <2> SUFFICES ASSUME k = l, o = q PROVE u = v
    OBVIOUS
  <2>1. PICK U, V : U = u[3] /\ V = v[3]
    OBVIOUS
  <2>2. /\ u = <<k, o, U>>
        /\ \/ k = "trapframe" /\ U = {trapframe[o]} \ {None}
           \/ k = "tables" /\ U = Tables(o)
           \/ k = "memory" /\ U = UserPages(o)
           \/ k = "argv" /\ U = call[o].args
           \/ k = "mem" /\ U = {call[o].mem} \ {None}
    BY <1>2, <2>1, UseIs
  <2>3. /\ v = <<l, q, V>>
        /\ \/ l = "trapframe" /\ V = {trapframe[q]} \ {None}
           \/ l = "tables" /\ V = Tables(q)
           \/ l = "memory" /\ V = UserPages(q)
           \/ l = "argv" /\ V = call[q].args
           \/ l = "mem" /\ V = {call[q].mem} \ {None}
    BY <1>2, <2>1, UseIs
  <2> QED
    BY <2>2, <2>3
<1>4. /\ x \in Page
      /\ k \in {"trapframe", "argv", "mem"} => o \in 0..NPROC /\ Holds(k, o, x)
      /\ k \in {"tables", "memory"} =>
           \E m \in {"root", "new", "owned"}, s \in 0..NPROC : Holds(m, s, x)
      /\ k = "memory" => \E va \in Va : Owns(Entry(o, va)) /\ Entry(o, va).pa = x
  BY <1>2, UseHolds
<1>5. /\ l \in {"trapframe", "argv", "mem"} => q \in 0..NPROC /\ Holds(l, q, x)
      /\ l \in {"tables", "memory"} =>
           \E m \in {"root", "new", "owned"}, s \in 0..NPROC : Holds(m, s, x)
      /\ l = "memory" => \E va \in Va : Owns(Entry(q, va)) /\ Entry(q, va).pa = x
  BY <1>2, UseHolds
<1>6. {"trapframe", "argv", "mem", "root", "new", "owned"} \subseteq Kinds
  BY DEF Kinds
<1>7. /\ k \in {"trapframe", "argv", "mem", "tables", "memory"}
      /\ l \in {"trapframe", "argv", "mem", "tables", "memory"}
      /\ k \in {"tables", "memory"} => o \in Images
      /\ l \in {"tables", "memory"} => q \in Images
      /\ k = "tables" => x \in Tables(o)
      /\ l = "tables" => x \in Tables(q)
  BY <1>2, UseIs
<1>8. CASE k \in {"trapframe", "argv", "mem"}
  <2>1. CASE l \in {"trapframe", "argv", "mem"}
    <3>1. k = l /\ o = q
      BY <1>1, <1>4, <1>5, <1>6, <1>8, <2>1, OneIs
    <3> QED
      BY <1>3, <3>1
  <2>2. CASE l \in {"tables", "memory"}
    <3>1. PICK m \in {"root", "new", "owned"}, s \in 0..NPROC : Holds(m, s, x)
      BY <1>5, <2>2
    <3>2. k = m
      BY <1>1, <1>4, <1>6, <1>8, <3>1, OneIs
    <3> QED
      BY <1>8, <3>2
  <2> QED
    BY <1>7, <2>1, <2>2
<1>9. CASE k \in {"tables", "memory"} /\ l \in {"trapframe", "argv", "mem"}
  <2>1. PICK m \in {"root", "new", "owned"}, s \in 0..NPROC : Holds(m, s, x)
    BY <1>4, <1>9
  <2>2. l = m
    BY <1>1, <1>4, <1>5, <1>6, <1>9, <2>1, OneIs
  <2> QED
    BY <1>9, <2>2
<1>10. CASE k = "tables" /\ l = "tables"
  BY <1>1, <1>3, <1>7, <1>10, TablesApart
<1>11. CASE k = "memory" /\ l = "memory"
  BY <1>1, <1>3, <1>4, <1>5, <1>7, <1>11, OnePlace
<1>12. CASE k = "tables" /\ l = "memory"
  BY <1>1, <1>5, <1>7, <1>12, NotATable
<1>13. CASE k = "memory" /\ l = "tables"
  BY <1>1, <1>4, <1>7, <1>13, NotATable
<1> QED
  BY <1>7, <1>8, <1>9, <1>10, <1>11, <1>12, <1>13

\* What the page u is held for is a use of it.
LEMMA HeldUsed ==
  ASSUME IInv, NEW x \in Page, x \notin free
  PROVE  x \in Used
<1>1. Trees /\ OneHolder /\ None \notin Page
  BY VmConstants DEF IInv
<1>2. SUFFICES \E u \in Uses : x \in u[3]
  BY DEF Used
<1>3. PICK k \in Kinds, p \in 0..NPROC : Holds(k, p, x)
  BY <1>1 DEF OneHolder
<1>4. CASE x \in Owned
  <2>1. PICK t \in Page, i \in Idx : Points(t, i, x)
    BY <1>4 DEF Owned
  <2>2. PICK pt \in Images :
          \/ x \in Tables(pt)
          \/ \E va \in Va : Owns(Entry(pt, va)) /\ Entry(pt, va).pa = x
    BY <1>1, <2>1, OwnedBy
  <2>3. CASE x \in Tables(pt)
    BY <2>3, IsUse
  <2>4. ASSUME NEW va \in Va, Owns(Entry(pt, va)), Entry(pt, va).pa = x
        PROVE  x \in UserPages(pt)
    BY <2>4, UserPagesIs DEF UserPages
  <2>5. CASE x \in UserPages(pt)
    BY <2>5, IsUse
  <2> QED
    BY <2>2, <2>3, <2>4, <2>5
<1>5. CASE p \in Proc /\ x = trapframe[p]
  BY <1>1, <1>5, IsUse
<1>6. CASE p \in Proc /\ x \in call[p].args
  BY <1>6, IsUse
<1>7. CASE p \in Proc /\ x = call[p].mem
  BY <1>1, <1>7, IsUse
<1>8. CASE p \in Proc /\ (x = pagetable[p] \/ x = call[p].pt)
  <2>1. x \in Images
    BY <1>1, <1>8, ImagesIs
  <2>2. x \in Tables(x)
    BY <1>1, <2>1, PXAt, WalkInTables
  <2> QED
    BY <2>1, <2>2, IsUse
<1> QED
  BY <1>3, <1>4, <1>5, <1>6, <1>7, <1>8 DEF Holds

\* A page is free or in use, and not both.
LEMMA Accounted ==
  ASSUME IInv
  PROVE  /\ free \cap Used = {} /\ free \cup Used = Page
<1>1. Typed /\ OneHolder /\ None \in 0..NPROC
  BY VmConstants DEF IInv, None
<1>2. ASSUME NEW x \in Used
      PROVE  x \in Page /\ x \notin free
  <2>1. PICK u \in Uses : x \in u[3]
    BY DEF Used
  <2>2. /\ x \in Page
        /\ u[1] \in {"trapframe", "argv", "mem"} => u[2] \in 0..NPROC /\ Holds(u[1], u[2], x)
        /\ u[1] \in {"tables", "memory"} =>
             \E m \in {"root", "new", "owned"}, s \in 0..NPROC : Holds(m, s, x)
    BY <2>1, UseHolds
  <2>3. u[1] \in {"trapframe", "argv", "mem", "tables", "memory"}
    BY UseIs
  <2>4. PICK l \in Kinds, q \in 0..NPROC : l # "free" /\ Holds(l, q, x)
    BY <2>2, <2>3 DEF Kinds
  <2>5. ASSUME x \in free PROVE FALSE
    <3>1. Holds("free", None, x) /\ "free" \in Kinds
      BY <2>5 DEF Holds, Kinds
    <3> QED
      BY <1>1, <2>2, <2>4, <3>1, OneIs
  <2> QED
    BY <2>2, <2>5
<1>3. free \subseteq Page
  BY <1>1 DEF Typed
<1> QED
  BY <1>2, <1>3, HeldUsed

\* An image has a page of its own at every address of its user memory.
LEMMA PagesDistinct ==
  ASSUME IInv, NEW pt \in Images
  PROVE  Cardinality(UserPages(pt)) = Cardinality(Mapped(pt) \cap 0..(TRAPFRAME - 1))
<1> DEFINE M == Mapped(pt) \cap 0..(TRAPFRAME - 1)
           f == [va \in M |-> Entry(pt, va).pa]
<1>1. IsFiniteSet(M)
  <2>1. IsFiniteSet(0..(TRAPFRAME - 1))
    BY PXAt, FS_Interval
  <2> QED
    BY <2>1, FS_Subset
<1>2. \A va \in M : va \in Va /\ Owns(Entry(pt, va))
  BY UserPagesIs
<1>3. \A va, vb \in M : Entry(pt, va).pa = Entry(pt, vb).pa => va = vb
  BY <1>2, OnePlace DEF IInv
<1>4. UserPages(pt) = {Entry(pt, va).pa : va \in M}
  BY DEF UserPages
<1> HIDE DEF M
<1>5. f \in Injection(M, UserPages(pt))
  <2>1. f \in [M -> UserPages(pt)] /\ DOMAIN f = M
    BY <1>4
  <2>2. IsInjective(f)
    BY <1>3, <2>1 DEF IsInjective
  <2> QED
    BY <2>1, <2>2 DEF Injection
<1>6. f \in Surjection(M, UserPages(pt))
  BY <1>4 DEF Surjection
<1>7. Cardinality(UserPages(pt)) = Cardinality(M)
  <2>1. PICK g : g = f
    OBVIOUS
  <2>2. g \in Injection(M, UserPages(pt)) /\ g \in Surjection(M, UserPages(pt))
    BY <1>5, <1>6, <2>1
  <2> QED
    BY <1>1, <2>2, FS_Surjection
<1> QED
  BY <1>7 DEF M

\* No page is lost, used twice, or free and in use.
LEMMA InvPagesAccounted ==
  ASSUME IInv
  PROVE  PagesAccounted
<1>1. TypeOK
  <2>1. Typed /\ tab \in [Page -> [Idx -> PTE]]
    BY DEF IInv, Trees
  <2>2. \A p \in Proc : call[p].args \subseteq Page /\ call[p].segs \in 0..MaxSegs
    BY <2>1, CallIs
  <2> QED
    BY <2>1, <2>2 DEF TypeOK, Typed
<1>2. \A u, v \in Uses : u # v => u[3] \cap v[3] = {}
  BY UsesApart
<1> QED
  BY <1>1, <1>2, Accounted, PagesDistinct DEF PagesAccounted

\* For every number of processes and pages and every fan-out of page tables: a
\* page of memory is free or has exactly one use, wherever kalloc() fails in
\* fork(), exec() or sbrk(), so that none leaks and none is freed twice.
THEOREM VmPagesAccounted == Spec => []PagesAccounted
<1>1. IInv => PagesAccounted
  BY InvPagesAccounted
<1> QED
  BY <1>1, VmInvariant, PTL

\* For every number of processes and pages, every fan-out of page tables and
\* every sequence of calls: no panic of vm.c is reached, and a process that
\* runs user code has exactly the pages of its p->sz bytes, the trampoline and
\* its own trapframe.
THEOREM VmAddressSpaces == Spec => []AddressSpaces
<1>1. IInv => AddressSpaces
  BY InvAddressSpaces
<1> QED
  BY <1>1, VmInvariant, PTL
=============================================================================
