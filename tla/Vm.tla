--------------------------------- MODULE Vm ---------------------------------
(***************************************************************************)
(* The physical page allocator (kernel/kalloc.c), page tables              *)
(* (kernel/vm.c), and the calls that build and free address spaces:        *)
(* fork(), wait() and sbrk() (kernel/proc.c), exec() (kernel/exec.c,       *)
(* kernel/sysfile.c), by several processes that share the free list.       *)
(*                                                                         *)
(* Memory is too small for everything that the processes ask for, so that  *)
(* kalloc() fails at every place where it is called.  A page table is its  *)
(* three levels of pages, with FANOUT entries where Sv39 has 512.  Between *)
(* two kalloc() calls a process works on memory that only it can reach, so *)
(* a step is one kalloc() with what follows it; a series of kfree() calls  *)
(* is one step too.  The contents of user pages are left out.              *)
(***************************************************************************)
EXTENDS Integers, FiniteSets, FiniteSetsExt, SequencesExt

CONSTANTS NPROC,     \* slots of the process table; slot 1 is init's
          NPAGES,    \* pages of physical memory that kinit() frees
          FANOUT,    \* entries of a page-table page
          PGSIZE,    \* bytes in a page
          UINT,      \* 2^32: where growproc()'s uint sz wraps
          Grow,      \* arguments of sbrk()
          SegEnds,   \* ph.vaddr + ph.memsz of program segments
          MaxSegs,   \* most segments of a program
          MaxArgs,   \* most arguments of exec()
          MaxSz      \* largest p->sz, in bytes

\* The last page below MAXVA, and the page below it.
TRAMPOLINE == FANOUT * FANOUT * FANOUT - 1
TRAPFRAME == TRAMPOLINE - 1

\* Memory runs out before user memory reaches the trapframe, as it does with
\* 128 MB of memory and 256 GB of addresses.
ASSUME VmAssumption ==
  /\ {NPROC, PGSIZE, UINT} \subseteq Nat \ {0}
  /\ NPAGES \in Nat /\ NPAGES >= 7      \* what userinit() takes
  /\ FANOUT \in Nat /\ FANOUT >= 2
  /\ Grow \subseteq Int /\ SegEnds \subseteq Nat
  /\ MaxSegs \in Nat /\ MaxArgs \in Nat
  /\ MaxSz \in Nat /\ MaxSz <= TRAPFRAME * PGSIZE
  /\ \A end \in SegEnds \cup {0} : end + 3 * PGSIZE <= MaxSz
  /\ \A n \in Grow : MaxSz + n < UINT /\ MaxSz - n < UINT

Proc == 1..NPROC
initproc == 1
Page == 1..NPAGES
Idx == 0..(FANOUT - 1)
None == 0

\* A page-table entry: a lower table, a page of the user, a page the user may
\* not touch, or a page of the kernel.
PTE == [pa : Page \cup {None},
        kind : {"none", "table", "user", "guard", "kernel"}]
Null == [pa |-> None, kind |-> "none"]
NoEntries == [i \in Idx |-> Null]

VARIABLES
  free,       \* kmem.freelist
  tab,        \* the contents of page-table pages
  state,      \* p->state, as far as memory is concerned
  pagetable, trapframe, sz,  \* fields of struct proc
  pc,         \* where a process is in a system call
  call,       \* the local variables of its system call
  panicked

procVars == <<state, pagetable, trapframe, sz>>
vars == <<free, tab, procVars, pc, call, panicked>>

\* np: fork()'s child; pt, size: the image under construction and its size;
\* args: sys_exec()'s argv; segs: segments loaded; mem: a page not mapped yet;
\* base, va, end: uvmalloc()'s and uvmcopy()'s first and next page, last byte.
NoCall == [np |-> None, pt |-> None, size |-> 0, args |-> {}, segs |-> 0,
           mem |-> None, base |-> 0, va |-> 0, end |-> 0]
Labels == {"user", "trapframe", "fork_root", "fork_tramp", "copy", "copy_map",
           "sbrk", "sbrk_map", "args", "exec_root", "exec_tramp", "load",
           "seg", "seg_map", "stack", "stack_map", "push", "fork_bad",
           "exec_bad"}

TypeOK ==
  /\ free \subseteq Page
  /\ tab \in [Page -> [Idx -> PTE]]
  /\ state \in [Proc -> {"unused", "used", "live", "zombie"}]
  /\ pagetable \in [Proc -> Page \cup {None}]
  /\ trapframe \in [Proc -> Page \cup {None}]
  /\ sz \in [Proc -> 0..MaxSz]
  /\ pc \in [Proc -> Labels]
  /\ \A p \in Proc : call[p].args \subseteq Page /\ call[p].segs \in 0..MaxSegs
  /\ panicked \in BOOLEAN

PGROUNDUP(n) == (n + PGSIZE - 1) \div PGSIZE    \* in pages

(***************************************************************************)
(* vm.c: looking at page tables                                            *)
(***************************************************************************)

PXSHIFT(level) == CASE level = 0 -> 1
                    [] level = 1 -> FANOUT
                    [] level = 2 -> FANOUT * FANOUT
PX(level, va) == (va \div PXSHIFT(level)) % FANOUT

\* walk() without alloc: the table page it reaches and that page's level; level
\* 0 when all tables exist, and else where one is missing.
Walk(pt, va) ==
  LET e2 == tab[pt][PX(2, va)]
      e1 == tab[e2.pa][PX(1, va)]
  IN  CASE e2 = Null -> [page |-> pt, level |-> 2]
        [] e2 # Null /\ e1 = Null -> [page |-> e2.pa, level |-> 1]
        [] OTHER -> [page |-> e1.pa, level |-> 0]

Entry(pt, va) == LET w == Walk(pt, va)
                 IN  IF w.level > 0 THEN Null ELSE tab[w.page][PX(0, va)]

\* walkaddr(): the page that the user sees at va.
WalkAddr(pt, va) == LET e == Entry(pt, va)
                    IN  IF e.kind = "user" THEN e.pa ELSE None

\* copyout(), copyin(), copyinstr(): every page from byte a on for len bytes
\* must be one of the user's, and below MAXVA.
CopyOk(pt, a, len) ==
  \A va \in (a \div PGSIZE)..((a + len - 1) \div PGSIZE) :
    va <= TRAMPOLINE /\ WalkAddr(pt, va) # None

\* The tables of a page table, and the addresses that it maps.
Tables(pt) ==
  LET below(t) == {tab[t][i].pa : i \in {j \in Idx : tab[t][j].kind = "table"}}
  IN  {pt} \cup below(pt) \cup UNION {below(t) : t \in below(pt)}
Mapped(pt) == {va \in 0..TRAMPOLINE : Entry(pt, va) # Null}

\* The addresses of an image of size bytes.
Image(size) == 0..(PGROUNDUP(size) - 1)

(***************************************************************************)
(* kalloc.c                                                                *)
(***************************************************************************)

\* kinit(), freerange(): every page behind the kernel becomes free.
Kinit == Page
Kalloc(page) == free # {} /\ page = Min(free)
KallocFails == free = {}
Kfree(pages) == free' = free \cup pages

(***************************************************************************)
(* vm.c: changing page tables                                              *)
(***************************************************************************)

\* tab with the entry at va, whose tables exist, set to e.
SetEntry(pt, va, e) == [tab EXCEPT ![Walk(pt, va).page][PX(0, va)] = e]

\* tab with a new, empty table page where walk() misses one.
AddTable(pt, va, page) ==
  LET w == Walk(pt, va)
  IN  [tab EXCEPT ![w.page][PX(w.level, va)] = [pa |-> page, kind |-> "table"],
                  ![page] = NoEntries]

\* uvmunmap() with do_free of the pages vas; the pages also become free too.
\* It panics when one of vas is not mapped.
Unmap(pt, vas, also) ==
  LET leaf(t, i) == \E va \in vas : /\ Walk(pt, va) = [page |-> t, level |-> 0]
                                    /\ PX(0, va) = i
  IN  /\ panicked' = ~(vas \subseteq Mapped(pt))
      /\ Kfree(also \cup {Entry(pt, va).pa : va \in vas \cap Mapped(pt)})
      /\ tab' = [t \in Page |-> [i \in Idx |->
                   IF leaf(t, i) THEN Null ELSE tab[t][i]]]

\* uvmdealloc() from oldsz down to newsz.
Uvmdealloc(pt, oldsz, newsz) ==
  Unmap(pt, PGROUNDUP(newsz)..(PGROUNDUP(oldsz) - 1), {})

\* The image pt of size bytes is freed with the pages also: uvmunmap(), which
\* panics at an unmapped page, and freewalk(), which panics at a mapped one.
FreeImage(pt, vas, also) ==
  LET user == vas \cap Mapped(pt) \cap 0..(TRAPFRAME - 1)
  IN  /\ panicked' = (Mapped(pt) # vas)
      /\ Kfree(also \cup {Entry(pt, va).pa : va \in user} \cup Tables(pt))
      /\ tab' = [t \in Page |-> IF t \in Tables(pt) THEN NoEntries ELSE tab[t]]

\* proc_freepagetable(): the trampoline and the trapframe are unmapped first.
ProcFreePagetable(pt, size, also) ==
  FreeImage(pt, {TRAMPOLINE, TRAPFRAME} \cup Image(size), also)

\* Process 1 as userinit() leaves it: one page of user memory.
Init ==
  LET table(page) == [pa |-> page, kind |-> "table"] IN
  /\ free = Kinit \ 1..7
  /\ tab = [t \in Page |->
       CASE t = 2 -> [NoEntries EXCEPT ![0] = table(3),
                                       ![FANOUT - 1] = table(5)]
         [] t = 3 -> [NoEntries EXCEPT ![0] = table(4)]
         [] t = 4 -> [NoEntries EXCEPT ![0] = [pa |-> 7, kind |-> "user"]]
         [] t = 5 -> [NoEntries EXCEPT ![FANOUT - 1] = table(6)]
         [] t = 6 -> [NoEntries EXCEPT
                        ![FANOUT - 1] = [pa |-> None, kind |-> "kernel"],
                        ![FANOUT - 2] = [pa |-> 1, kind |-> "kernel"]]
         [] OTHER -> NoEntries]
  /\ state = [p \in Proc |-> IF p = initproc THEN "live" ELSE "unused"]
  /\ pagetable = [p \in Proc |-> IF p = initproc THEN 2 ELSE None]
  /\ trapframe = [p \in Proc |-> IF p = initproc THEN 1 ELSE None]
  /\ sz = [p \in Proc |-> IF p = initproc THEN PGSIZE ELSE 0]
  /\ pc = [p \in Proc |-> "user"]
  /\ call = [p \in Proc |-> NoCall]
  /\ panicked = FALSE
-----------------------------------------------------------------------------

Go(p, label, c) ==
  pc' = [pc EXCEPT ![p] = label] /\ call' = [call EXCEPT ![p] = c]
Return(p) == Go(p, "user", NoCall)

\* A process runs user code: without its first page it only page-faults.
Running(p) ==
  /\ ~panicked
  /\ state[p] = "live" /\ pc[p] = "user"
  /\ WalkAddr(pagetable[p], 0) # None

At(p, labels) == ~panicked /\ pc[p] \in labels

(***************************************************************************)
(* proc_pagetable(), for the child of fork() and for the image of exec()   *)
(***************************************************************************)

Bad(label) == IF label \in {"fork_root", "fork_tramp"} THEN "fork_bad"
                                                      ELSE "exec_bad"

\* uvmcreate().
Create(p) ==
  /\ At(p, {"fork_root", "exec_root"})
  /\ \/ \E page \in Page :
          /\ Kalloc(page)
          /\ free' = free \ {page}
          /\ Go(p, IF pc[p] = "fork_root" THEN "fork_tramp" ELSE "exec_tramp",
                [call[p] EXCEPT !.pt = page])
     \/ /\ KallocFails
        /\ Go(p, Bad(pc[p]), call[p])
        /\ UNCHANGED free
  /\ UNCHANGED <<tab, procVars, panicked>>

\* mappages() of the trampoline needs a table; uvmfree() when there is none.
MapTrampolineWalk(p) ==
  LET pt == call[p].pt IN
  /\ At(p, {"fork_tramp", "exec_tramp"})
  /\ Walk(pt, TRAMPOLINE).level > 0
  /\ \/ \E page \in Page :
          /\ Kalloc(page)
          /\ free' = free \ {page}
          /\ tab' = AddTable(pt, TRAMPOLINE, page)
          /\ UNCHANGED <<pc, call, panicked>>
     \/ /\ KallocFails
        /\ FreeImage(pt, {}, {})
        /\ Go(p, Bad(pc[p]), [call[p] EXCEPT !.pt = None])
  /\ UNCHANGED procVars

\* The trampoline and the trapframe are mapped, in the same lowest table.
MapTrampoline(p) ==
  LET pt == call[p].pt
      w == Walk(pt, TRAMPOLINE)
      owner == IF pc[p] = "fork_tramp" THEN call[p].np ELSE p
  IN
  /\ At(p, {"fork_tramp", "exec_tramp"})
  /\ w.level = 0
  /\ tab' = [tab EXCEPT
       ![w.page][PX(0, TRAMPOLINE)] = [pa |-> None, kind |-> "kernel"],
       ![w.page][PX(0, TRAPFRAME)] = [pa |-> trapframe[owner],
                                      kind |-> "kernel"]]
  /\ IF pc[p] = "fork_tramp"
       THEN /\ pagetable' = [pagetable EXCEPT ![owner] = pt]
            /\ Go(p, "copy", [call[p] EXCEPT !.end = sz[p]])
       ELSE /\ Go(p, "load", call[p])
            /\ UNCHANGED pagetable
  /\ UNCHANGED <<free, state, trapframe, sz, panicked>>

(***************************************************************************)
(* The loops of uvmalloc() (for sbrk() and twice for exec()) and uvmcopy() *)
(***************************************************************************)

MapLabel == [copy |-> "copy_map", sbrk |-> "sbrk_map", seg |-> "seg_map",
             stack |-> "stack_map"]
LoopLabel(label) == CHOOSE l \in DOMAIN MapLabel : MapLabel[l] = label
AfterFailure == [copy |-> "fork_bad", sbrk |-> "user", seg |-> "exec_bad",
                 stack |-> "exec_bad"]

MoreToMap(p) == call[p].va * PGSIZE < call[p].end

\* Mutant: the page that could not be mapped is forgotten.
Undo_Leaks(p, loop) ==
  LET c == call[p] IN
  /\ KallocFails
  /\ Unmap(c.pt, c.base..(c.va - 1), {})
  /\ Go(p, AfterFailure[loop],
        IF loop = "sbrk" THEN NoCall ELSE [c EXCEPT !.mem = None])

\* kalloc() fails in the loop: what it has mapped so far is unmapped and freed.
Undo(p, loop) ==
  LET c == call[p] IN
  /\ KallocFails
  /\ Unmap(c.pt, c.base..(c.va - 1), {c.mem} \ {None})
  /\ Go(p, AfterFailure[loop],
        IF loop = "sbrk" THEN NoCall ELSE [c EXCEPT !.mem = None])

\* A page of memory.
AllocMem(p) ==
  /\ At(p, DOMAIN MapLabel)
  /\ MoreToMap(p)
  /\ \/ \E page \in Page :
          /\ Kalloc(page)
          /\ free' = free \ {page}
          /\ Go(p, MapLabel[pc[p]], [call[p] EXCEPT !.mem = page])
          /\ UNCHANGED <<tab, panicked>>
     \/ Undo(p, pc[p])
  /\ UNCHANGED procVars

\* mappages() of that page needs a table.
MapMemWalk(p) ==
  LET c == call[p] IN
  /\ At(p, Range(MapLabel))
  /\ Walk(c.pt, c.va).level > 0
  /\ \/ \E page \in Page :
          /\ Kalloc(page)
          /\ free' = free \ {page}
          /\ tab' = AddTable(c.pt, c.va, page)
          /\ UNCHANGED <<pc, call, panicked>>
     \/ Undo(p, LoopLabel(pc[p]))
  /\ UNCHANGED procVars

\* mappages() of that page: with the flags of the parent's page in uvmcopy().
\* Panics: remap, and uvmcopy: page not present.
MapMem(p) ==
  LET c == call[p]
      copied == Entry(pagetable[p], c.va).kind
      kind == IF pc[p] = "copy_map" THEN copied ELSE "user"
  IN
  /\ At(p, Range(MapLabel))
  /\ Walk(c.pt, c.va).level = 0
  /\ panicked' = (Entry(c.pt, c.va) # Null \/ kind = "none")
  /\ tab' = SetEntry(c.pt, c.va, [pa |-> c.mem, kind |-> kind])
  /\ Go(p, LoopLabel(pc[p]), [c EXCEPT !.mem = None, !.va = @ + 1])
  /\ UNCHANGED <<free, procVars>>

\* The call c goes on to map memory from oldsz up to newsz.
Growing(c, pt, oldsz, newsz) ==
  [c EXCEPT !.pt = pt, !.base = PGROUNDUP(oldsz), !.va = PGROUNDUP(oldsz),
            !.end = newsz]

(***************************************************************************)
(* fork(), exit() and wait()                                               *)
(***************************************************************************)

\* freeproc(): the trapframe, and the image when there is one.
FreeProc(np) ==
  /\ IF pagetable[np] = None
       THEN /\ Kfree({trapframe[np]} \ {None})
            /\ UNCHANGED <<tab, panicked>>
       ELSE ProcFreePagetable(pagetable[np], sz[np], {trapframe[np]})
  /\ trapframe' = [trapframe EXCEPT ![np] = None]
  /\ pagetable' = [pagetable EXCEPT ![np] = None]
  /\ sz' = [sz EXCEPT ![np] = 0]
  /\ state' = [state EXCEPT ![np] = "unused"]

\* allocproc() takes the first unused slot.
Fork(p) ==
  LET unused == {q \in Proc : state[q] = "unused"} IN
  /\ Running(p)
  /\ unused # {}
  /\ state' = [state EXCEPT ![Min(unused)] = "used"]
  /\ Go(p, "trapframe", [NoCall EXCEPT !.np = Min(unused)])
  /\ UNCHANGED <<free, tab, pagetable, trapframe, sz, panicked>>

AllocTrapframe(p) ==
  /\ At(p, {"trapframe"})
  /\ \/ \E page \in Page :
          /\ Kalloc(page)
          /\ free' = free \ {page}
          /\ trapframe' = [trapframe EXCEPT ![call[p].np] = page]
          /\ Go(p, "fork_root", call[p])
     \/ /\ KallocFails
        /\ Go(p, "fork_bad", call[p])
        /\ UNCHANGED <<free, trapframe>>
  /\ UNCHANGED <<tab, state, pagetable, sz, panicked>>

ForkBad(p) ==
  /\ At(p, {"fork_bad"})
  /\ FreeProc(call[p].np)
  /\ Return(p)

ForkDone(p) ==
  /\ At(p, {"copy"}) /\ ~MoreToMap(p)
  /\ sz' = [sz EXCEPT ![call[p].np] = sz[p]]
  /\ state' = [state EXCEPT ![call[p].np] = "live"]
  /\ Return(p)
  /\ UNCHANGED <<free, tab, pagetable, trapframe, panicked>>

\* exit(), or a page fault.
Exit(p) ==
  /\ ~panicked
  /\ p # initproc /\ state[p] = "live" /\ pc[p] = "user"
  /\ state' = [state EXCEPT ![p] = "zombie"]
  /\ UNCHANGED <<free, tab, pagetable, trapframe, sz, pc, call, panicked>>

\* wait(), by the parent (any process here: init at the latest).
Wait(p, np) ==
  /\ Running(p)
  /\ state[np] = "zombie"
  /\ FreeProc(np)
  /\ UNCHANGED <<pc, call>>

(***************************************************************************)
(* sbrk(): growproc()                                                      *)
(***************************************************************************)

SbrkGrow(p, n) ==
  LET newsz == (sz[p] + n) % UINT IN
  /\ Running(p) /\ p # initproc
  /\ n > 0 /\ newsz <= MaxSz
  /\ Go(p, "sbrk", Growing(NoCall, pagetable[p], sz[p], newsz))
  /\ UNCHANGED <<free, tab, procVars, panicked>>

SbrkDone(p) ==
  /\ At(p, {"sbrk"}) /\ ~MoreToMap(p)
  /\ sz' = [sz EXCEPT ![p] = call[p].end]
  /\ Return(p)
  /\ UNCHANGED <<free, tab, state, pagetable, trapframe, panicked>>

\* Mutant: the new size is rounded down to a page.
SbrkShrink_Down(p, n) ==
  LET newsz == (sz[p] + UINT + n) % UINT IN
  /\ Running(p) /\ p # initproc
  /\ n < 0 /\ newsz < sz[p]
  /\ Unmap(pagetable[p], (newsz \div PGSIZE)..(PGROUNDUP(sz[p]) - 1), {})
  /\ sz' = [sz EXCEPT ![p] = newsz]
  /\ UNCHANGED <<state, pagetable, trapframe, pc, call>>

\* uvmdealloc(); below 0 the uint wraps, and a larger size changes nothing.
SbrkShrink(p, n) ==
  LET newsz == (sz[p] + UINT + n) % UINT IN
  /\ Running(p) /\ p # initproc
  /\ n < 0 /\ newsz < sz[p]
  /\ Uvmdealloc(pagetable[p], sz[p], newsz)
  /\ sz' = [sz EXCEPT ![p] = newsz]
  /\ UNCHANGED <<state, pagetable, trapframe, pc, call>>

(***************************************************************************)
(* exec()                                                                  *)
(***************************************************************************)

Exec(p) ==
  /\ Running(p) /\ p # initproc
  /\ Go(p, "args", NoCall)
  /\ UNCHANGED <<free, tab, procVars, panicked>>

\* fetchaddr() and fetchstr() of something at byte a, inside the image.
FetchOk(p, a) == a < sz[p] /\ CopyOk(pagetable[p], a, 1)

\* sys_exec() gets a page for an argument that the user has in memory.
FetchArg(p) ==
  /\ At(p, {"args"})
  /\ Cardinality(call[p].args) < MaxArgs
  /\ \E a \in 0..sz[p] : FetchOk(p, a)
  /\ \/ \E page \in Page :
          /\ Kalloc(page)
          /\ free' = free \ {page}
          /\ Go(p, "args", [call[p] EXCEPT !.args = @ \cup {page}])
     \/ /\ KallocFails
        /\ Go(p, "exec_bad", call[p])
        /\ UNCHANGED free
  /\ UNCHANGED <<tab, procVars, panicked>>

\* The last argument is fetched; namei() and the ELF header are fine.
ExecImage(p) ==
  /\ At(p, {"args"})
  /\ Go(p, "exec_root", call[p])
  /\ UNCHANGED <<free, tab, procVars, panicked>>

\* An argument or a header is bad, a read is short, or the arguments do not fit.
ExecError(p) ==
  /\ At(p, {"args", "load", "push"})
  /\ Go(p, "exec_bad", call[p])
  /\ UNCHANGED <<free, tab, procVars, panicked>>

\* A program header: uvmalloc() does nothing when the segment ends below the
\* size reached, and its result 0 for an empty first segment is an error.
LoadSegment(p, end) ==
  LET c == call[p] IN
  /\ At(p, {"load"})
  /\ c.segs < MaxSegs
  /\ CASE end < c.size -> Go(p, "load", [c EXCEPT !.segs = @ + 1])
       [] end = 0 /\ c.size = 0 -> Go(p, "exec_bad", c)
       [] OTHER -> Go(p, "seg", Growing(c, c.pt, c.size, end))
  /\ UNCHANGED <<free, tab, procVars, panicked>>

\* uvmalloc() is done; loadseg() panics at a page that is not there.
SegmentDone(p) ==
  LET c == call[p] IN
  /\ At(p, {"seg"}) /\ ~MoreToMap(p)
  /\ panicked' = ~(\A va \in Image(c.end) : WalkAddr(c.pt, va) # None)
  /\ Go(p, "load", [c EXCEPT !.size = c.end, !.segs = @ + 1])
  /\ UNCHANGED <<free, tab, procVars>>

\* The guard page and the stack, above the last segment.
Stack(p) ==
  LET c == [call[p] EXCEPT !.size = PGROUNDUP(@) * PGSIZE] IN
  /\ At(p, {"load"})
  /\ Go(p, "stack", Growing(c, c.pt, c.size, c.size + 2 * PGSIZE))
  /\ UNCHANGED <<free, tab, procVars, panicked>>

\* uvmclear() makes the lower page the guard.
StackDone(p) ==
  LET c == call[p]
      guard == Entry(c.pt, c.base)
  IN
  /\ At(p, {"stack"}) /\ ~MoreToMap(p)
  /\ tab' = SetEntry(c.pt, c.base, [guard EXCEPT !.kind = "guard"])
  /\ Go(p, "push", [c EXCEPT !.size = c.end])
  /\ UNCHANGED <<free, procVars, panicked>>

\* copyout() pushes the arguments; then the new image replaces the old one.
ExecCommit(p) ==
  LET c == call[p] IN
  /\ At(p, {"push"})
  /\ CopyOk(c.pt, c.size - PGSIZE, PGSIZE)
  /\ ProcFreePagetable(pagetable[p], sz[p], c.args)
  /\ pagetable' = [pagetable EXCEPT ![p] = c.pt]
  /\ sz' = [sz EXCEPT ![p] = c.size]
  /\ Return(p)
  /\ UNCHANGED <<state, trapframe>>

\* bad: the new image, if there is one, and argv are freed.
ExecBad(p) ==
  LET c == call[p] IN
  /\ At(p, {"exec_bad"})
  /\ IF c.pt = None
       THEN Kfree(c.args) /\ UNCHANGED <<tab, panicked>>
       ELSE ProcFreePagetable(c.pt, c.size, c.args)
  /\ Return(p)
  /\ UNCHANGED procVars

Next == \E p \in Proc :
  \/ Fork(p) \/ AllocTrapframe(p) \/ ForkBad(p) \/ ForkDone(p)
  \/ Create(p) \/ MapTrampolineWalk(p) \/ MapTrampoline(p)
  \/ AllocMem(p) \/ MapMemWalk(p) \/ MapMem(p)
  \/ Exit(p) \/ \E np \in Proc : Wait(p, np)
  \/ \E n \in Grow : SbrkGrow(p, n) \/ SbrkShrink(p, n)
  \/ SbrkDone(p)
  \/ Exec(p) \/ FetchArg(p) \/ ExecImage(p) \/ ExecError(p)
  \/ \E end \in SegEnds : LoadSegment(p, end)
  \/ SegmentDone(p) \/ Stack(p) \/ StackDone(p) \/ ExecCommit(p) \/ ExecBad(p)

Spec == Init /\ [][Next]_vars

-----------------------------------------------------------------------------

\* The images that exist: of processes, and under construction in exec().
Images == ({pagetable[p] : p \in Proc} \cup {call[p].pt : p \in Proc}) \ {None}

UserPages(pt) == {Entry(pt, va).pa : va \in Mapped(pt) \cap 0..(TRAPFRAME - 1)}

\* What pages are used for: pairs of a use and the pages it has.
Uses ==
  {<<"trapframe", p, {trapframe[p]} \ {None}>> : p \in Proc}
    \cup {<<"tables", pt, Tables(pt)>> : pt \in Images}
    \cup {<<"memory", pt, UserPages(pt)>> : pt \in Images}
    \cup {<<"argv", p, call[p].args>> : p \in Proc}
    \cup {<<"mem", p, {call[p].mem} \ {None}>> : p \in Proc}
Used == UNION {u[3] : u \in Uses}

\* Every page of memory is on the free list or has exactly one use: on no path,
\* and on none of the error paths of fork(), exec() and sbrk() at whatever
\* kalloc() they fail, is a page lost, freed twice, or mapped in two places.
PagesAccounted ==
  ~panicked =>
    /\ TypeOK
    /\ free \cap Used = {}
    /\ free \cup Used = Page
    /\ \A u, v \in Uses : u # v => u[3] \cap v[3] = {}
    /\ \A pt \in Images : Cardinality(UserPages(pt)) =
                            Cardinality(Mapped(pt) \cap 0..(TRAPFRAME - 1))

\* What vm.c asserts with its panics holds, and a process that runs user code
\* has exactly the pages of its p->sz bytes, the trampoline and its own
\* trapframe, with no page but the stack's guard closed to it.
AddressSpaces ==
  /\ ~panicked
  /\ \A p \in Proc : state[p] = "live" /\ pc[p] = "user" =>
       LET pt == pagetable[p] IN
       /\ Mapped(pt) = {TRAMPOLINE, TRAPFRAME} \cup Image(sz[p])
       /\ Entry(pt, TRAPFRAME).pa = trapframe[p]
       /\ Cardinality({va \in Image(sz[p]) : Entry(pt, va).kind # "user"}) <= 1
=============================================================================
