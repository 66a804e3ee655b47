----------------------------- MODULE Pipe_proofs -----------------------------
(***************************************************************************)
(* Proofs about module Pipe, for every number of processes, files,         *)
(* descriptors and pipes and every size of the ring: references are exact, *)
(* no wakeup() is lost but the one a killed writer owes, and a pipe        *)
(* implements the queue of module ByteQueue.                               *)
(***************************************************************************)
EXTENDS Pipe, FiniteSetTheorems, SequenceTheorems, WellFoundedInduction, TLAPS

(***************************************************************************)
(* The inductive invariant.                                                *)
(***************************************************************************)

\* What a process has pending at each label: two new files at most.
TodoAt(p) ==
  /\ Len(todo[p]) <= 2
  /\ Len(todo[p]) = 2 => todo[p][1] # todo[p][2]
  /\ pc[p] = "second" => arg[p].f \in File
  /\ pc[p] = "page" => Len(todo[p]) = 2
  /\ pc[p] = "close" => Len(todo[p]) > 0
  /\ pc[p] = "pipeclose" =>
       /\ ff[p].pi \in Pages
       /\ ff[p].next \in {"user", "exit", "close"}
       /\ ff[p].next = "close" <=> Len(todo[p]) > 0
  /\ pc[p] \notin {"page", "close", "pipeclose"} => todo[p] = << >>

\* A slot of the process table that is not used has no file open.
UnusedClosed ==
  \A p \in Procs : pc[p] = "unused" => \A fd \in Fds : ofile[p][fd] = None

\* A file that is pending is known to nobody else.
PendingOwn ==
  \A p, q \in Procs : \A f \in Pending(p) :
    /\ f \in Pending(q) => p = q
    /\ \A fd \in Fds : ofile[q][fd] # f

\* A file without a pipe is behind no descriptor; pipealloc()'s files are such.
OpenHavePipe ==
  \A p \in Procs :
    /\ \A fd \in Fds : ofile[p][fd] # None => pipe[ofile[p][fd]] # NoPipe
    /\ pc[p] \in {"second", "page"} => \A f \in Pending(p) : pipe[f] = NoPipe

\* One file stands for an end of a pipe.
OneFileAnEnd ==
  \A f, g \in File :
    pipe[f] = pipe[g] /\ pipe[f] # NoPipe /\ writable[f] = writable[g] => f = g

\* One pipeclose() of an end is on its way, and no file stands for it any more.
OnePipeClose ==
  \A p \in Procs : pc[p] = "pipeclose" =>
    /\ \A f \in File : pipe[f] = ff[p].pi => writable[f] # ff[p].w
    /\ \A q \in Procs : pc[q] = "pipeclose" /\ ff[q].pi = ff[p].pi /\ ff[q].w = ff[p].w
         => q = p

\* A call holds a descriptor of the end that it works on.
CallsHold ==
  \A p \in Procs : pc[p] \in InCall =>
    /\ \E fd \in Fds : ofile[p][fd] = arg[p].f
    /\ arg[p].f \in File
    /\ writable[arg[p].f] = (pc[p] \in {"write", "write_sleep"})

Counted ==
  /\ \A f \in File : ref[f] = Cardinality(Holders(f))
  /\ \A f \in File : ref[f] = 0 => pipe[f] = NoPipe

EndsOpen ==
  /\ readopen = Ends(FALSE) /\ writeopen = Ends(TRUE)
  /\ pages = Pages \ (readopen \cup writeopen)

TodoOK == \A p \in Procs : TodoAt(p)

IInv ==
  /\ TypeOK /\ TodoOK /\ UnusedClosed /\ PendingOwn /\ OpenHavePipe
  /\ OneFileAnEnd /\ OnePipeClose /\ CallsHold /\ Counted /\ EndsOpen
  /\ NoLostWakeup

(***************************************************************************)
(* Constants, counters and sets.                                           *)
(***************************************************************************)

LEMMA Constants ==
  /\ None \notin File /\ File \subseteq Nat /\ Fds \subseteq Nat
  /\ NOFILE \in Nat /\ NOFILE \notin Fds
  /\ IsFiniteSet(Procs) /\ IsFiniteSet(Fds)
  /\ PIPESIZE \in Nat /\ PIPESIZE > 0 /\ WRAP \in Nat /\ WRAP > PIPESIZE
  /\ Sizes \subseteq Nat /\ NoPipe \notin Pages
  <1>1. NFILE \in Nat /\ NOFILE \in Nat /\ NOFILE > 0 /\ PIPESIZE \in Nat /\ PIPESIZE > 0
        /\ WRAP \in Nat /\ Sizes \subseteq Nat
    <2>1. /\ NFILE \in Nat \ {0} /\ NOFILE \in Nat \ {0} /\ PIPESIZE \in Nat \ {0}
          /\ WRAP \in Nat \ {0} /\ \A n \in Sizes : n \in Nat \ {0}
      BY PipeAssumption, Zenon
    <2> QED
      BY <2>1
  <1>2. IsFiniteSet(Fds)
    BY <1>1, FS_Interval DEF Fds
  <1> QED
    BY <1>1, <1>2, PipeAssumption DEF None, File, Fds

LEMMA JunkType == Junk \in [0..(PIPESIZE - 1) -> Bytes]
  <1>1. Stream[0] \in Bytes
    BY Constants, PipeAssumption
  <1> QED
    BY <1>1 DEF Junk

\* A set of naturals that is not empty has a least element.
LEMMA MinInSet ==
  ASSUME NEW S, S \subseteq Nat, S # {}
  PROVE  Min(S) \in S /\ \A y \in S : Min(S) <= y
  <1> DEFINE R == {ss \in Nat \X Nat : ss[1] < ss[2]}
  <1>1. IsWellFoundedOn(R, Nat)
    BY NatLessThanWellFounded, Zenon DEF OpToRel
  <1>2. PICK x \in S : \A y \in S : ~(<<y, x>> \in R)
    BY <1>1, WFMin, Zenon
  <1>3. \A y \in S : x <= y
    <2> TAKE y \in S
    <2>1. x \in Nat /\ y \in Nat
      OBVIOUS
    <2>2. ~(y < x)
      BY <1>2, <2>1
    <2> QED
      BY <2>1, <2>2
  <1> QED
    BY <1>3 DEF Min

\* A sum of two counters, at most, wraps once.
LEMMA Wraps ==
  ASSUME NEW a \in Nat, NEW w \in Nat, w > 0
  PROVE  /\ a % w \in 0..(w - 1)
         /\ a < w => a % w = a
         /\ a >= w /\ a < 2 * w => a % w = a - w
  <1>1. a % w \in 0..(w - 1)
    OBVIOUS
  <1>2. a < w => a % w = a
    OBVIOUS
  <1>3. a >= w /\ a < 2 * w => a % w = a - w
    OBVIOUS
  <1> QED
    BY <1>1, <1>2, <1>3

\* How far counter w is ahead of counter r.
LEMMA Distance ==
  ASSUME NEW r \in 0..(WRAP - 1), NEW w \in 0..(WRAP - 1)
  PROVE  /\ (w + WRAP - r) % WRAP = IF r <= w THEN w - r ELSE w + WRAP - r
         /\ w = (r + PIPESIZE) % WRAP <=> (w + WRAP - r) % WRAP = PIPESIZE
  <1>1. r \in Nat /\ r < WRAP /\ w \in Nat /\ w < WRAP
    BY Constants
  <1>2. PICK s \in Nat : s = w + WRAP - r
    BY <1>1, Constants
  <1>3. s % WRAP = IF r <= w THEN w - r ELSE w + WRAP - r
    <2>1. /\ s < WRAP => s % WRAP = s
          /\ s >= WRAP /\ s < 2 * WRAP => s % WRAP = s - WRAP
      BY Wraps, Constants
    <2> QED
      BY <1>1, <1>2, <2>1, Constants
  <1>4. PICK t \in Nat : t = r + PIPESIZE
    BY <1>1, Constants
  <1>5. t % WRAP = IF t < WRAP THEN t ELSE t - WRAP
    <2>1. /\ t < WRAP => t % WRAP = t
          /\ t >= WRAP /\ t < 2 * WRAP => t % WRAP = t - WRAP
      BY Wraps, Constants
    <2> QED
      BY <1>1, <1>4, <2>1, Constants
  <1>6. w = t % WRAP <=> s % WRAP = PIPESIZE
    BY <1>1, <1>3, <1>4, <1>5, Constants
  <1> QED
    BY <1>2, <1>3, <1>4, <1>6

\* The bytes in a pipe are what nwrite is ahead of nread.
LEMMA Counting ==
  ASSUME TypeOK, NEW pi \in Pages
  PROVE  /\ nread[pi] \in 0..(WRAP - 1) /\ nwrite[pi] \in 0..(WRAP - 1)
         /\ Count(pi) \in 0..(WRAP - 1)
         /\ Count(pi) = IF nread[pi] <= nwrite[pi] THEN nwrite[pi] - nread[pi]
                        ELSE nwrite[pi] + WRAP - nread[pi]
         /\ Full(pi) <=> Count(pi) = PIPESIZE
         /\ Empty(pi) <=> Count(pi) = 0
  <1>1. nread[pi] \in 0..(WRAP - 1) /\ nwrite[pi] \in 0..(WRAP - 1)
    BY DEF TypeOK
  <1>2. Count(pi) = IF nread[pi] <= nwrite[pi] THEN nwrite[pi] - nread[pi]
                    ELSE nwrite[pi] + WRAP - nread[pi]
    BY <1>1, Distance DEF Count
  <1>3. Full(pi) <=> Count(pi) = PIPESIZE
    BY <1>1, Distance DEF Count, Full
  <1> QED
    BY <1>1, <1>2, <1>3, Constants DEF Empty

\* k bytes more, or k bytes less.
LEMMA CountAfter ==
  ASSUME NEW r \in 0..(WRAP - 1), NEW w \in 0..(WRAP - 1), NEW k \in Nat,
         NEW c \in Nat, c = (w + WRAP - r) % WRAP, NEW v
  PROVE  /\ v = (w + k) % WRAP /\ c + k <= PIPESIZE =>
              v \in 0..(WRAP - 1) /\ (v + WRAP - r) % WRAP = c + k
         /\ v = (r + k) % WRAP /\ k <= c =>
              v \in 0..(WRAP - 1) /\ (w + WRAP - v) % WRAP = c - k
  <1>1. r \in Nat /\ r < WRAP /\ w \in Nat /\ w < WRAP
    BY Constants
  <1>2. c = IF r <= w THEN w - r ELSE w + WRAP - r
    BY Distance
  <1>3. \A s \in Nat : s < 2 * WRAP => s % WRAP \in 0..(WRAP - 1)
                         /\ s % WRAP = IF s < WRAP THEN s ELSE s - WRAP
    BY Wraps, Constants
  <1>4. ASSUME v = (w + k) % WRAP, c + k <= PIPESIZE
        PROVE  v \in 0..(WRAP - 1) /\ (v + WRAP - r) % WRAP = c + k
    <2>1. PICK s \in Nat : s = w + k /\ s < 2 * WRAP
      BY <1>1, <1>4, Constants
    <2>2. v \in 0..(WRAP - 1) /\ v = IF s < WRAP THEN s ELSE s - WRAP
      BY <1>3, <1>4, <2>1
    <2>3. (v + WRAP - r) % WRAP = IF r <= v THEN v - r ELSE v + WRAP - r
      BY <2>2, Distance
    <2> QED
      BY <1>1, <1>2, <1>4, <2>1, <2>2, <2>3, Constants
  <1>5. ASSUME v = (r + k) % WRAP, k <= c
        PROVE  v \in 0..(WRAP - 1) /\ (w + WRAP - v) % WRAP = c - k
    <2>1. PICK s \in Nat : s = r + k /\ s < 2 * WRAP
      BY <1>1, <1>2, <1>5, Constants
    <2>2. v \in 0..(WRAP - 1) /\ v = IF s < WRAP THEN s ELSE s - WRAP
      BY <1>3, <1>5, <2>1
    <2>3. (w + WRAP - v) % WRAP = IF v <= w THEN w - v ELSE w + WRAP - v
      BY <2>2, Distance
    <2> QED
      BY <1>1, <1>2, <1>5, <2>1, <2>2, <2>3, Constants
  <1> QED
    BY <1>4, <1>5

\* The files of a sequence of two at most.
LEMMA TodoRange ==
  ASSUME NEW s \in Seq(File), Len(s) <= 2
  PROVE  /\ Range(s) \subseteq File
         /\ Len(s) = 0 => Range(s) = {}
         /\ Len(s) = 1 => Range(s) = {s[1]}
         /\ Len(s) = 2 => Range(s) = {s[1], s[2]}
         /\ Len(s) > 0 => /\ Head(s) \in Range(s)
                          /\ Tail(s) \in Seq(File)
                          /\ Len(Tail(s)) = Len(s) - 1
                          /\ Range(s) = {Head(s)} \cup Range(Tail(s))
                          /\ (Len(s) = 2 => s[1] # s[2]) => Head(s) \notin Range(Tail(s))
  <1>1. Len(s) \in Nat /\ DOMAIN s = 1..Len(s)
    OBVIOUS
  <1>2. Range(s) = {s[i] : i \in 1..Len(s)}
    BY <1>1 DEF Range
  <1>3. Range(s) \subseteq File
    BY <1>2
  <1>4. Len(s) = 0 => Range(s) = {}
    BY <1>2
  <1>5. Len(s) = 1 => Range(s) = {s[1]}
    BY <1>2
  <1>6. Len(s) = 2 => Range(s) = {s[1], s[2]}
    <2> SUFFICES ASSUME Len(s) = 2 PROVE Range(s) = {s[1], s[2]}
      OBVIOUS
    <2>1. 1..2 = {1, 2}
      OBVIOUS
    <2> QED
      BY <1>2, <2>1
  <1>7. ASSUME Len(s) > 0
        PROVE  /\ Head(s) \in Range(s)
               /\ Tail(s) \in Seq(File)
               /\ Len(Tail(s)) = Len(s) - 1
               /\ Range(s) = {Head(s)} \cup Range(Tail(s))
               /\ (Len(s) = 2 => s[1] # s[2]) => Head(s) \notin Range(Tail(s))
    <2>1. Head(s) = s[1] /\ Tail(s) \in Seq(File) /\ Len(Tail(s)) = Len(s) - 1
      BY <1>7
    <2>2. DOMAIN Tail(s) = 1..(Len(s) - 1)
      BY <2>1
    <2>5. \A i \in 1..(Len(s) - 1) : Tail(s)[i] = s[i + 1]
      BY <1>7, <2>1
    <2>3. CASE Len(s) = 1
      <3>1. Range(Tail(s)) = {}
        BY <2>2, <2>3 DEF Range
      <3> QED
        BY <1>5, <2>1, <2>3, <3>1
    <2>4. CASE Len(s) = 2
      <3>1. DOMAIN Tail(s) = {1} /\ Tail(s)[1] = s[2]
        BY <2>2, <2>4, <2>5
      <3>2. Range(Tail(s)) = {s[2]}
        BY <3>1 DEF Range
      <3> QED
        BY <1>6, <2>1, <2>4, <3>2
    <2> QED
      BY <1>1, <1>7, <2>3, <2>4
  <1> QED
    BY <1>3, <1>4, <1>5, <1>6, <1>7

\* What h refers to f says, and that there are finitely many references.
LEMMA HoldersAre ==
  ASSUME NEW f
  PROVE  /\ IsFiniteSet(Holders(f))
         /\ \A p \in Procs, s \in Fds : <<p, s>> \in Holders(f) <=> ofile[p][s] = f
         /\ \A p \in Procs : <<p, NOFILE>> \in Holders(f) <=> f \in Pending(p)
         /\ \A h \in Holders(f) : \E p \in Procs, s \in Fds \cup {NOFILE} : h = <<p, s>>
  <1>1. IsFiniteSet(Fds \cup {NOFILE})
    BY Constants, FS_AddElement
  <1>2. IsFiniteSet(Procs \X (Fds \cup {NOFILE}))
    BY <1>1, Constants, FS_Product
  <1>3. IsFiniteSet(Holders(f))
    BY <1>2, FS_Subset DEF Holders
  <1>4. \A p \in Procs, s \in Fds : <<p, s>> \in Holders(f) <=> ofile[p][s] = f
    BY Constants DEF Holders
  <1>5. \A p \in Procs : <<p, NOFILE>> \in Holders(f) <=> f \in Pending(p)
    BY DEF Holders
  <1>6. \A h \in Holders(f) : \E p \in Procs, s \in Fds \cup {NOFILE} : h = <<p, s>>
    BY DEF Holders
  <1> QED
    BY <1>3, <1>4, <1>5, <1>6

(***************************************************************************)
(* Calls on a pipe: what they leave alone.                                 *)
(***************************************************************************)

\* The part of the invariant about files and ends.
FInv ==
  /\ TodoOK /\ UnusedClosed /\ PendingOwn /\ OpenHavePipe
  /\ OneFileAnEnd /\ OnePipeClose /\ Counted /\ EndsOpen

\* Labels of a process that is neither in pipealloc() nor in fileclose().
Calling == InCall \cup {"user", "exit", "unused"}

\* A step that changes no file, descriptor or end, and moves processes between
\* such labels.
LEMMA CallStep ==
  ASSUME TypeOK, FInv,
         UNCHANGED <<fileVars, readopen, writeopen, pages, todo, ff>>,
         \A q \in Procs :
           \/ pc'[q] = pc[q] /\ arg'[q] = arg[q]
           \/ /\ pc[q] \in Calling /\ pc'[q] \in Calling
              /\ pc'[q] = "unused" => \A fd \in Fds : ofile[q][fd] = None
  PROVE  FInv'
  <1> USE DEF FInv, fileVars
  <1>1. \A q \in Procs : \A l \in {"second", "page", "close", "pipeclose"} :
          pc'[q] = l <=> pc[q] = l
    BY DEF Calling, InCall
  <1>2. \A q \in Procs : pc[q] = "second" => arg'[q] = arg[q]
    BY DEF Calling, InCall
  <1>3. \A q \in Procs : Pending(q)' = Pending(q)
    BY <1>1, <1>2 DEF Pending
  <1>4. \A f \in File : Holders(f)' = Holders(f)
    BY <1>3 DEF Holders
  <1>5. Ends(TRUE)' = Ends(TRUE) /\ Ends(FALSE)' = Ends(FALSE)
    BY <1>1 DEF Ends
  <1>6. TodoOK'
    <2> SUFFICES ASSUME NEW q \in Procs PROVE TodoAt(q)'
      BY DEF TodoOK
    <2>1. TodoAt(q)
      BY DEF TodoOK
    <2> QED
      BY <1>1, <1>2, <2>1 DEF TodoAt
  <1>7. UnusedClosed'
    BY DEF UnusedClosed
  <1>8. PendingOwn'
    BY <1>3 DEF PendingOwn
  <1>9. OpenHavePipe'
    BY <1>1, <1>3 DEF OpenHavePipe
  <1>10. OneFileAnEnd' /\ OnePipeClose'
    BY <1>1 DEF OneFileAnEnd, OnePipeClose
  <1>11. Counted'
    BY <1>4 DEF Counted
  <1>12. EndsOpen'
    BY <1>5 DEF EndsOpen
  <1> QED
    BY <1>6, <1>7, <1>8, <1>9, <1>10, <1>11, <1>12

\* What a call works on.
LEMMA CallFacts ==
  ASSUME TypeOK, FInv, CallsHold, NEW p \in Procs, NEW w \in BOOLEAN, NEW c \in Calls(p, w)
  PROVE  /\ c \in [f : File, n : Nat]
         /\ \E fd \in Fds : ofile[p][fd] = c.f
         /\ pipe[c.f] \in Pages
         /\ writable[c.f] = w
         /\ pc[p] \in {"user", "read", "write"}
         /\ pc[p] = "user" \/ c = arg[p]
  <1>1. CASE pc[p] = (IF w THEN "write" ELSE "read")
    <2>1. c = arg[p]
      BY <1>1 DEF Calls
    <2>2. pc[p] \in InCall /\ (pc[p] \in {"write", "write_sleep"} <=> w)
      BY <1>1 DEF InCall
    <2>3. /\ \E fd \in Fds : ofile[p][fd] = c.f
          /\ c.f \in File /\ writable[c.f] = w
      BY <2>1, <2>2 DEF CallsHold, TypeOK
    <2>4. pipe[c.f] \in Pages
      <3>1. c.f # None
        BY <2>3, Constants
      <3>2. pipe[c.f] # NoPipe
        BY <2>3, <3>1 DEF FInv, OpenHavePipe
      <3> QED
        BY <2>3, <3>2 DEF TypeOK
    <2> QED
      BY <1>1, <2>1, <2>3, <2>4 DEF TypeOK
  <1>2. CASE pc[p] # (IF w THEN "write" ELSE "read")
    <2>1. pc[p] = "user" /\ c \in [f : {f \in ArgFd(p) : Allowed(f, w)}, n : Sizes]
      BY <1>2 DEF Calls
    <2>2. c.f \in ArgFd(p) /\ writable[c.f] = w /\ c.n \in Nat
      BY <2>1, Constants DEF Allowed
    <2>3. PICK fd \in Fds : ofile[p][fd] = c.f /\ c.f # None
      BY <2>2 DEF ArgFd, Range, TypeOK
    <2>4. c.f \in File
      BY <2>3 DEF TypeOK
    <2>5. pipe[c.f] \in Pages
      <3>1. pipe[c.f] # NoPipe
        BY <2>3 DEF FInv, OpenHavePipe
      <3> QED
        BY <2>4, <3>1 DEF TypeOK
    <2> QED
      BY <2>1, <2>2, <2>3, <2>4, <2>5
  <1> QED
    BY <1>1, <1>2

\* What wakeup() does to the label of each process.
LEMMA Woken ==
  ASSUME TypeOK, NEW pi, NEW from, NEW to \in Labels, NEW p \in Procs, NEW next \in Labels,
         WakeAnd(pi, from, to, p, next)
  PROVE  /\ pc' \in [Procs -> Labels]
         /\ pc'[p] = next
         /\ \A q \in Procs \ {p} : 
              pc'[q] = IF pc[q] = from /\ PipeOf(q) = pi THEN to ELSE pc[q]
  BY DEF WakeAnd, TypeOK

(***************************************************************************)
(* Calls on a pipe, one by one.                                            *)
(***************************************************************************)

\* A process in a call sleeps where it should, and a call that a step leaves
\* where it was goes on sleeping rightly if the pipe did not change.
LEMMA InCallPipe ==
  ASSUME TypeOK, FInv, CallsHold, NEW q \in Procs, pc[q] \in InCall
  PROVE  arg[q].f \in File /\ PipeOf(q) \in Pages
  <1>1. PICK fd \in Fds : ofile[q][fd] = arg[q].f
    BY DEF CallsHold
  <1>2. arg[q].f \in File /\ arg[q].f # None
    BY Constants DEF CallsHold
  <1>3. pipe[arg[q].f] # NoPipe
    BY <1>1, <1>2 DEF FInv, OpenHavePipe
  <1> QED
    BY <1>2, <1>3 DEF TypeOK, PipeOf

LEMMA WriteFailsIInv == ASSUME IInv, NEW p \in Procs, WriteFails(p) PROVE IInv'
  <1> USE DEF IInv
  <1>1. FInv
    BY DEF FInv
  <1>2. pc' = [pc EXCEPT ![p] = Out(p)] /\ pc[p] = "write" /\ Out(p) \in {"user", "exit"}
    BY DEF WriteFails, Goto, Out
  <1>3. arg' = [arg EXCEPT ![p] = NoArg]
        /\ UNCHANGED <<fileVars, pipeVars, todo, ff, abandoned>> /\ killed' = killed \ {p}
    BY DEF WriteFails
  <1>4. /\ pc'[p] \in {"user", "exit"}
        /\ \A q \in Procs \ {p} : pc'[q] = pc[q] /\ arg'[q] = arg[q]
    BY <1>2, <1>3 DEF TypeOK
  <1>5. FInv'
    BY <1>1, <1>2, <1>3, <1>4, CallStep DEF pipeVars, Calling, InCall
  <1>6. TypeOK'
    <2>1. pc' \in [Procs -> Labels]
      BY <1>2 DEF TypeOK, Labels
    <2>2. arg' \in [Procs -> [f : File \cup {None}, n : Nat]]
      BY <1>3 DEF TypeOK, NoArg
    <2>3. killed' \subseteq Procs
      BY <1>3 DEF TypeOK
    <2> QED
      BY <1>3, <2>1, <2>2, <2>3 DEF TypeOK, fileVars, pipeVars
  <1>7. CallsHold'
    BY <1>3, <1>4 DEF CallsHold, InCall, fileVars
  <1>8. NoLostWakeup'
    BY <1>3, <1>4 DEF NoLostWakeup, PipeOf, Empty, Full, fileVars, pipeVars
  <1> QED
    BY <1>5, <1>6, <1>7, <1>8 DEF FInv

\* The bytes go where they belong.
LEMMA StoreTypes ==
  ASSUME TypeOK, NEW pi \in Pages, NEW k \in Nat, Store(pi, k)
  PROVE  /\ nwrite' \in [Pages -> 0..(WRAP - 1)]
         /\ data' \in [Pages -> [0..(PIPESIZE - 1) -> Bytes]]
         /\ nwrite'[pi] = (nwrite[pi] + k) % WRAP
         /\ \A o \in Pages \ {pi} : nwrite'[o] = nwrite[o] /\ data'[o] = data[o]
  <1>1. nwrite[pi] \in Nat
    BY Constants DEF TypeOK
  <1>2. (nwrite[pi] + k) % WRAP \in 0..(WRAP - 1)
    BY <1>1, Constants, Wraps
  <1>3. nwrite' \in [Pages -> 0..(WRAP - 1)]
    BY <1>2 DEF Store, TypeOK
  <1>4. PICK new : new = [i \in 0..(PIPESIZE - 1) |->
                            {j \in 0..(k - 1) : (nwrite[pi] + j) % PIPESIZE = i}]
    OBVIOUS
  <1>5. PICK row : row = [i \in 0..(PIPESIZE - 1) |->
                            IF new[i] = {} THEN data[pi][i]
                            ELSE Stream[(nwrite[pi] + Min(new[i])) % WRAP]]
    OBVIOUS
  <1>6. data' = [data EXCEPT ![pi] = row]
    <2>1. DOMAIN data[pi] = 0..(PIPESIZE - 1)
      BY DEF TypeOK
    <2> QED
      BY <1>4, <1>5, <2>1 DEF Store, TypeOK
  <1>7. row \in [0..(PIPESIZE - 1) -> Bytes]
    <2> SUFFICES ASSUME NEW i \in 0..(PIPESIZE - 1) PROVE row[i] \in Bytes
      BY <1>5
    <2>1. CASE new[i] = {}
      <3>1. data[pi] \in [0..(PIPESIZE - 1) -> Bytes]
        BY DEF TypeOK
      <3> QED
        BY <1>5, <2>1, <3>1
    <2>2. CASE new[i] # {}
      <3>1. new[i] \subseteq Nat
        BY <1>4
      <3>2. Min(new[i]) \in Nat
        BY <2>2, <3>1, MinInSet
      <3>3. (nwrite[pi] + Min(new[i])) % WRAP \in 0..(WRAP - 1)
        BY <1>1, <3>2, Constants, Wraps
      <3> QED
        BY <1>5, <2>2, <3>3, PipeAssumption
    <2> QED
      BY <2>1, <2>2
  <1>8. data' \in [Pages -> [0..(PIPESIZE - 1) -> Bytes]]
    BY <1>6, <1>7 DEF TypeOK
  <1> QED
    BY <1>3, <1>6, <1>8 DEF Store, TypeOK

LEMMA PipeWriteIInv ==
  ASSUME IInv, NEW p \in Procs, NEW c \in Calls(p, TRUE), NEW k \in 0..PIPESIZE,
         NEW hit \in BOOLEAN, PipeWrite(p, c, k, hit)
  PROVE  IInv'
  <1> USE DEF IInv
  <1>1. FInv /\ k \in Nat
    BY Constants DEF FInv
  <1>2. /\ c \in [f : File, n : Nat]
        /\ \E fd \in Fds : ofile[p][fd] = c.f
        /\ pipe[c.f] \in Pages
        /\ writable[c.f] = TRUE
        /\ pc[p] \in {"user", "read", "write"}
        /\ pc[p] = "user" \/ c = arg[p]
    BY <1>1, CallFacts
  <1>3. PICK pi \in Pages : pi = pipe[c.f]
    BY <1>2
  <1>4. /\ pi \in readopen /\ k <= c.n /\ Count(pi) + k <= PIPESIZE
        /\ Store(pi, k)
        /\ UNCHANGED <<fileVars, nread, readopen, writeopen, pages, todo, ff>>
    BY <1>3 DEF PipeWrite
  <1>5. /\ nwrite' \in [Pages -> 0..(WRAP - 1)]
        /\ data' \in [Pages -> [0..(PIPESIZE - 1) -> Bytes]]
        /\ nwrite'[pi] = (nwrite[pi] + k) % WRAP
        /\ \A o \in Pages \ {pi} : nwrite'[o] = nwrite[o]
    BY <1>1, <1>4, StoreTypes
  <1>6. Count(pi) + k = PIPESIZE => Full(pi)'
    <2> SUFFICES ASSUME Count(pi) + k = PIPESIZE PROVE Full(pi)'
      OBVIOUS
    <2>1. nread[pi] \in 0..(WRAP - 1) /\ nwrite[pi] \in 0..(WRAP - 1) /\ Count(pi) \in Nat
      BY Counting, Constants
    <2>2. PICK n \in Nat : n = Count(pi) /\ n = (nwrite[pi] + WRAP - nread[pi]) % WRAP
      BY <2>1 DEF Count
    <2>3. /\ nwrite'[pi] \in 0..(WRAP - 1)
          /\ (nwrite'[pi] + WRAP - nread[pi]) % WRAP = n + k
      BY <1>1, <1>4, <1>5, <2>1, <2>2, CountAfter
    <2>4. nwrite'[pi] = (nread[pi] + PIPESIZE) % WRAP
      BY <1>5, <2>1, <2>2, <2>3, Distance
    <2> QED
      BY <1>4, <2>4 DEF Full
  <1>7. Full(pi) => k = 0 /\ Full(pi)'
    <2> SUFFICES ASSUME Full(pi) PROVE k = 0 /\ Full(pi)'
      OBVIOUS
    <2>1. Count(pi) = PIPESIZE
      BY Counting
    <2>2. k = 0
      BY <1>1, <1>4, <2>1, Constants
    <2> QED
      BY <1>6, <2>1, <2>2, Constants
  <1>8. c.n - k \in Nat
    BY <1>1, <1>2, <1>4
  \* The three ways out.
  <1>9. CASE /\ hit /\ c.n - k > 0 /\ k > 0
             /\ Goto(p, "exit")
             /\ arg' = [arg EXCEPT ![p] = NoArg]
             /\ abandoned' = abandoned \cup {pi}
             /\ UNCHANGED killed
    <2>1. /\ pc'[p] = "exit"
          /\ \A q \in Procs \ {p} : pc'[q] = pc[q] /\ arg'[q] = arg[q]
      BY <1>9 DEF TypeOK, Goto
    <2>2. FInv'
      BY <1>1, <1>2, <1>4, <2>1, CallStep DEF Calling, InCall
    <2>3. TypeOK'
      <3>1. pc' \in [Procs -> Labels]
        BY <1>9 DEF TypeOK, Labels, Goto
      <3>2. arg' \in [Procs -> [f : File \cup {None}, n : Nat]]
        BY <1>9 DEF TypeOK, NoArg
      <3>3. abandoned' \subseteq Pages /\ killed' \subseteq Procs
        BY <1>9 DEF TypeOK
      <3> QED
        BY <1>4, <1>5, <3>1, <3>2, <3>3 DEF TypeOK, fileVars
    <2>4. CallsHold'
      BY <1>4, <2>1 DEF CallsHold, InCall, fileVars
    <2>5. ~Full(pi)
      BY <1>7, <1>9
    <2>6. NoLostWakeup'
      <3> SUFFICES ASSUME NEW q \in Procs
                   PROVE  /\ pc'[q] = "read_sleep" =>
                               PipeOf(q)' \in writeopen /\ (Empty(PipeOf(q))' \/ PipeOf(q)' \in abandoned')
                          /\ pc'[q] = "write_sleep" => PipeOf(q)' \in readopen /\ Full(PipeOf(q))'
        BY <1>4 DEF NoLostWakeup
      <3>1. CASE q = p
        BY <2>1, <3>1
      <3>2. CASE q # p
        <4>1. PipeOf(q)' = PipeOf(q) /\ pc'[q] = pc[q]
          BY <1>4, <2>1, <3>2 DEF PipeOf, fileVars
        <4>2. /\ pc[q] = "read_sleep" =>
                   PipeOf(q) \in writeopen /\ (Empty(PipeOf(q)) \/ PipeOf(q) \in abandoned)
              /\ pc[q] = "write_sleep" => PipeOf(q) \in readopen /\ Full(PipeOf(q))
          BY DEF NoLostWakeup
        <4>3. pc[q] \in InCall => PipeOf(q) \in Pages
          BY <1>1, InCallPipe
        <4>4. CASE PipeOf(q) = pi
          BY <1>9, <2>5, <4>1, <4>2, <4>4
        <4>5. CASE PipeOf(q) # pi
          BY <1>4, <1>5, <1>9, <4>1, <4>2, <4>3, <4>5 DEF Empty, Full, InCall
        <4> QED
          BY <4>4, <4>5
      <3> QED
        BY <3>1, <3>2
    <2> QED
      BY <2>2, <2>3, <2>4, <2>6 DEF FInv
  <1>10. ASSUME NEW next \in {"write_sleep", "user"},
                WakeAnd(pi, "read_sleep", "read", p, next),
                next = "write_sleep" => /\ Count(pi) + k = PIPESIZE
                                        /\ arg' = [arg EXCEPT ![p] = [c EXCEPT !.n = c.n - k]],
                next = "user" => arg' = [arg EXCEPT ![p] = NoArg],
                abandoned' = abandoned \ {pi},
                killed' \subseteq Procs
         PROVE  IInv'
    <2>1. /\ pc' \in [Procs -> Labels]
          /\ pc'[p] = next
          /\ \A q \in Procs \ {p} :
               pc'[q] = IF pc[q] = "read_sleep" /\ PipeOf(q) = pi THEN "read" ELSE pc[q]
      <3>1. "read" \in Labels /\ next \in Labels
        BY <1>10 DEF Labels, InCall
      <3> QED
        BY <1>10, <3>1 DEF WakeAnd, TypeOK
    <2>2. /\ arg' \in [Procs -> [f : File \cup {None}, n : Nat]]
          /\ \A q \in Procs \ {p} : arg'[q] = arg[q]
          /\ next = "write_sleep" => arg'[p].f = c.f
      <3>1. [c EXCEPT !.n = c.n - k] \in [f : File \cup {None}, n : Nat]
            /\ [c EXCEPT !.n = c.n - k].f = c.f
        BY <1>2, <1>8
      <3>2. NoArg \in [f : File \cup {None}, n : Nat]
        BY DEF NoArg
      <3>5. arg \in [Procs -> [f : File \cup {None}, n : Nat]]
        BY DEF TypeOK
      <3>3. CASE next = "user"
        <4>1. arg' = [arg EXCEPT ![p] = NoArg]
          BY <1>10, <3>3
        <4> QED
          BY <3>2, <3>3, <3>5, <4>1
      <3>4. CASE next = "write_sleep"
        <4>1. arg' = [arg EXCEPT ![p] = [c EXCEPT !.n = c.n - k]]
          BY <1>10, <3>4
        <4> QED
          BY <3>1, <3>5, <4>1
      <3> QED
        BY <1>10, <3>3, <3>4
    <2>3. FInv'
      <3>1. \A q \in Procs :
               \/ pc'[q] = pc[q] /\ arg'[q] = arg[q]
               \/ /\ pc[q] \in Calling /\ pc'[q] \in Calling /\ pc'[q] # "unused"
        BY <1>2, <1>10, <2>1, <2>2 DEF Calling, InCall
      <3> QED
        BY <1>1, <1>4, <3>1, CallStep
    <2>4. TypeOK'
      BY <1>4, <1>5, <1>10, <2>1, <2>2 DEF TypeOK, fileVars
    <2>5. CallsHold'
      <3> SUFFICES ASSUME NEW q \in Procs, pc'[q] \in InCall
                   PROVE  /\ \E fd \in Fds : ofile[q][fd] = arg'[q].f
                          /\ arg'[q].f \in File
                          /\ writable[arg'[q].f] = (pc'[q] \in {"write", "write_sleep"})
        BY <1>4 DEF CallsHold, fileVars
      <3>1. CASE q = p
        <4>1. pc'[p] = "write_sleep" /\ arg'[p].f = c.f
          BY <1>10, <2>1, <2>2, <3>1 DEF InCall
        <4> QED
          BY <1>2, <3>1, <4>1
      <3>2. CASE q # p
        <4>1. /\ arg'[q] = arg[q] /\ pc[q] \in InCall
              /\ pc'[q] \in {"write", "write_sleep"} <=> pc[q] \in {"write", "write_sleep"}
          BY <2>1, <2>2, <3>2 DEF InCall
        <4> QED
          BY <4>1 DEF CallsHold
      <3> QED
        BY <3>1, <3>2
    <2>6. NoLostWakeup'
      <3> SUFFICES ASSUME NEW q \in Procs
                   PROVE  /\ pc'[q] = "read_sleep" =>
                               PipeOf(q)' \in writeopen /\ (Empty(PipeOf(q))' \/ PipeOf(q)' \in abandoned')
                          /\ pc'[q] = "write_sleep" => PipeOf(q)' \in readopen /\ Full(PipeOf(q))'
        BY <1>4 DEF NoLostWakeup
      <3>1. CASE q = p
        <4>1. pc'[q] # "read_sleep"
          BY <1>10, <2>1, <3>1
        <4>2. pc'[q] = "write_sleep" => PipeOf(q)' = pi
          BY <1>3, <1>4, <1>10, <2>1, <2>2, <3>1 DEF PipeOf, fileVars
        <4> QED
          BY <1>4, <1>6, <1>10, <2>1, <3>1, <4>1, <4>2
      <3>2. CASE q # p
        <4>1. PipeOf(q)' = PipeOf(q)
          BY <1>4, <2>2, <3>2 DEF PipeOf, fileVars
        <4>2. /\ pc[q] = "read_sleep" =>
                   PipeOf(q) \in writeopen /\ (Empty(PipeOf(q)) \/ PipeOf(q) \in abandoned)
              /\ pc[q] = "write_sleep" => PipeOf(q) \in readopen /\ Full(PipeOf(q))
          BY DEF NoLostWakeup
        <4>3. pc[q] \in InCall => PipeOf(q) \in Pages
          BY <1>1, InCallPipe
        <4>4. CASE PipeOf(q) = pi
          BY <1>7, <2>1, <3>2, <4>1, <4>2, <4>4
        <4>5. CASE PipeOf(q) # pi
          BY <1>4, <1>5, <1>10, <2>1, <3>2, <4>1, <4>2, <4>3, <4>5 DEF Empty, Full, InCall
        <4> QED
          BY <4>4, <4>5
      <3> QED
        BY <3>1, <3>2
    <2> QED
      BY <2>3, <2>4, <2>5, <2>6 DEF FInv
  <1>11. CASE /\ c.n - k > 0 /\ Count(pi) + k = PIPESIZE
              /\ WakeAnd(pi, "read_sleep", "read", p, "write_sleep")
              /\ arg' = [arg EXCEPT ![p] = [c EXCEPT !.n = c.n - k]]
              /\ abandoned' = abandoned \ {pi}
              /\ KilledIf(p, hit)
    <2>1. killed' \subseteq Procs
      BY <1>11 DEF KilledIf, TypeOK
    <2> QED
      BY <1>10, <1>11, <2>1
  <1>12. CASE /\ WakeAnd(pi, "read_sleep", "read", p, "user")
              /\ arg' = [arg EXCEPT ![p] = NoArg]
              /\ abandoned' = abandoned \ {pi}
              /\ UNCHANGED killed
    <2>1. killed' \subseteq Procs
      BY <1>12 DEF TypeOK
    <2> QED
      BY <1>10, <1>12, <2>1
  <1> QED
    BY <1>3, <1>9, <1>11, <1>12 DEF PipeWrite

LEMMA ReadEmptyIInv ==
  ASSUME IInv, NEW p \in Procs, NEW c \in Calls(p, FALSE), NEW hit \in BOOLEAN,
         ReadEmpty(p, c, hit)
  PROVE  IInv'
  <1> USE DEF IInv
  <1>1. FInv
    BY DEF FInv
  <1>2. /\ c \in [f : File, n : Nat]
        /\ \E fd \in Fds : ofile[p][fd] = c.f
        /\ pipe[c.f] \in Pages
        /\ writable[c.f] = FALSE
        /\ pc[p] \in {"user", "read", "write"}
    BY <1>1, CallFacts
  <1>3. PICK next \in {"exit", "read_sleep"} :
           /\ pc' = [pc EXCEPT ![p] = next]
           /\ next = "exit" => arg' = [arg EXCEPT ![p] = NoArg]
           /\ next = "read_sleep" => arg' = [arg EXCEPT ![p] = c]
    BY DEF ReadEmpty, Goto
  <1>4. /\ Empty(pipe[c.f]) /\ pipe[c.f] \in writeopen
        /\ UNCHANGED <<fileVars, pipeVars, todo, ff, abandoned>>
    BY DEF ReadEmpty
  <1>5. killed' \subseteq Procs
    BY DEF ReadEmpty, KilledIf, TypeOK
  <1>6. arg' \in [Procs -> [f : File \cup {None}, n : Nat]]
    <2>1. NoArg \in [f : File \cup {None}, n : Nat] /\ c \in [f : File \cup {None}, n : Nat]
      BY <1>2 DEF NoArg
    <2> QED
      BY <1>3, <2>1 DEF TypeOK
  <1>7. /\ pc'[p] = next
        /\ next = "read_sleep" => arg'[p] = c
        /\ \A q \in Procs \ {p} : pc'[q] = pc[q] /\ arg'[q] = arg[q]
    BY <1>3 DEF TypeOK
  <1>8. FInv'
    BY <1>1, <1>2, <1>3, <1>4, <1>7, CallStep DEF pipeVars, Calling, InCall
  <1>9. TypeOK'
    <2>1. pc' \in [Procs -> Labels]
      BY <1>3 DEF TypeOK, Labels, InCall
    <2> QED
      BY <1>4, <1>5, <1>6, <2>1 DEF TypeOK, fileVars, pipeVars
  <1>10. CallsHold'
    <2> SUFFICES ASSUME NEW q \in Procs, pc'[q] \in InCall
                 PROVE  /\ \E fd \in Fds : ofile[q][fd] = arg'[q].f
                        /\ arg'[q].f \in File
                        /\ writable[arg'[q].f] = (pc'[q] \in {"write", "write_sleep"})
      BY <1>4 DEF CallsHold, fileVars
    <2>1. CASE q = p
      <3>1. pc'[q] = "read_sleep" /\ arg'[q] = c
        BY <1>3, <1>7, <2>1 DEF InCall
      <3>2. (pc'[q] \in {"write", "write_sleep"}) = FALSE
        BY <3>1
      <3> QED
        BY <1>2, <2>1, <3>1, <3>2
    <2>2. CASE q # p
      BY <1>7, <2>2 DEF CallsHold
    <2> QED
      BY <2>1, <2>2
  <1>11. NoLostWakeup'
    <2>1. \A q \in Procs \ {p} : PipeOf(q)' = PipeOf(q)
      BY <1>4, <1>7 DEF PipeOf, fileVars
    <2>2. next = "read_sleep" => PipeOf(p)' = pipe[c.f]
      BY <1>4, <1>7 DEF PipeOf, fileVars
    <2> QED
      BY <1>3, <1>4, <1>7, <2>1, <2>2 DEF NoLostWakeup, Empty, Full, pipeVars
  <1> QED
    BY <1>8, <1>9, <1>10, <1>11 DEF FInv

LEMMA ReadCopyIInv ==
  ASSUME IInv, NEW p \in Procs, NEW c \in Calls(p, FALSE), NEW k \in 0..PIPESIZE,
         ReadCopy(p, c, k)
  PROVE  IInv'
  <1> USE DEF IInv
  <1>1. FInv /\ k \in Nat
    BY Constants DEF FInv
  <1>2. /\ c \in [f : File, n : Nat]
        /\ \E fd \in Fds : ofile[p][fd] = c.f
        /\ pipe[c.f] \in Pages
        /\ writable[c.f] = FALSE
        /\ pc[p] \in {"user", "read", "write"}
    BY <1>1, CallFacts
  <1>3. PICK pi \in Pages : pi = pipe[c.f]
    BY <1>2
  <1>4. /\ ~Empty(pi) \/ pi \notin writeopen
        /\ nread' = [nread EXCEPT ![pi] = (@ + k) % WRAP]
        /\ WakeAnd(pi, "write_sleep", "write", p, Out(p))
        /\ killed' = killed \ {p}
        /\ arg' = [arg EXCEPT ![p] = NoArg]
        /\ UNCHANGED <<fileVars, nwrite, data, readopen, writeopen, pages, todo, ff, abandoned>>
    BY <1>3 DEF ReadCopy
  <1>5. PICK next \in {"user", "exit"} : next = Out(p)
    BY DEF Out
  <1>6. /\ pc' \in [Procs -> Labels]
        /\ pc'[p] = next
        /\ \A q \in Procs \ {p} :
             pc'[q] = IF pc[q] = "write_sleep" /\ PipeOf(q) = pi THEN "write" ELSE pc[q]
    <2>1. "write" \in Labels /\ next \in Labels
      BY DEF Labels, InCall
    <2> QED
      BY <1>4, <1>5, <2>1 DEF WakeAnd, TypeOK
  <1>7. /\ arg' \in [Procs -> [f : File \cup {None}, n : Nat]]
        /\ \A q \in Procs \ {p} : arg'[q] = arg[q]
    <2>1. NoArg \in [f : File \cup {None}, n : Nat]
      BY DEF NoArg
    <2> QED
      BY <1>4, <2>1 DEF TypeOK
  <1>8. /\ nread' \in [Pages -> 0..(WRAP - 1)]
        /\ \A o \in Pages \ {pi} : nread'[o] = nread[o]
    <2>1. nread[pi] \in Nat
      BY Constants DEF TypeOK
    <2>2. (nread[pi] + k) % WRAP \in 0..(WRAP - 1)
      BY <1>1, <2>1, Constants, Wraps
    <2> QED
      BY <1>4, <2>2 DEF TypeOK
  <1>9. FInv'
    <2>1. \A q \in Procs :
             \/ pc'[q] = pc[q] /\ arg'[q] = arg[q]
             \/ pc[q] \in Calling /\ pc'[q] \in Calling /\ pc'[q] # "unused"
      BY <1>2, <1>6, <1>7 DEF Calling, InCall
    <2> QED
      BY <1>1, <1>4, <2>1, CallStep
  <1>10. TypeOK'
    <2>1. killed' \subseteq Procs
      BY <1>4 DEF TypeOK
    <2> QED
      BY <1>4, <1>6, <1>7, <1>8, <2>1 DEF TypeOK, fileVars
  <1>11. CallsHold'
    <2> SUFFICES ASSUME NEW q \in Procs, pc'[q] \in InCall
                 PROVE  /\ \E fd \in Fds : ofile[q][fd] = arg'[q].f
                        /\ arg'[q].f \in File
                        /\ writable[arg'[q].f] = (pc'[q] \in {"write", "write_sleep"})
      BY <1>4 DEF CallsHold, fileVars
    <2>1. q # p
      BY <1>6 DEF InCall
    <2>2. /\ arg'[q] = arg[q] /\ pc[q] \in InCall
          /\ pc'[q] \in {"write", "write_sleep"} <=> pc[q] \in {"write", "write_sleep"}
      BY <1>6, <1>7, <2>1 DEF InCall
    <2> QED
      BY <2>2 DEF CallsHold
  <1>12. NoLostWakeup'
    <2> SUFFICES ASSUME NEW q \in Procs
                 PROVE  /\ pc'[q] = "read_sleep" =>
                             PipeOf(q)' \in writeopen /\ (Empty(PipeOf(q))' \/ PipeOf(q)' \in abandoned)
                        /\ pc'[q] = "write_sleep" => PipeOf(q)' \in readopen /\ Full(PipeOf(q))'
      BY <1>4 DEF NoLostWakeup
    <2>1. CASE q = p
      BY <1>6, <2>1
    <2>2. CASE q # p
      <3>1. PipeOf(q)' = PipeOf(q)
        BY <1>4, <1>7, <2>2 DEF PipeOf, fileVars
      <3>2. /\ pc[q] = "read_sleep" =>
                 PipeOf(q) \in writeopen /\ (Empty(PipeOf(q)) \/ PipeOf(q) \in abandoned)
            /\ pc[q] = "write_sleep" => PipeOf(q) \in readopen /\ Full(PipeOf(q))
        BY DEF NoLostWakeup
      <3>3. pc[q] \in InCall => PipeOf(q) \in Pages
        BY <1>1, InCallPipe
      <3>4. CASE PipeOf(q) = pi
        BY <1>4, <1>6, <2>2, <3>1, <3>2, <3>4
      <3>5. CASE PipeOf(q) # pi
        BY <1>4, <1>6, <1>8, <2>2, <3>1, <3>2, <3>3, <3>5 DEF Empty, Full, InCall
      <3> QED
        BY <3>4, <3>5
    <2> QED
      BY <2>1, <2>2
  <1> QED
    BY <1>9, <1>10, <1>11, <1>12 DEF FInv

LEMMA KillIInv == ASSUME IInv, NEW p \in Procs, Kill(p) PROVE IInv'
  <1> USE DEF IInv
  <1>1. FInv
    BY DEF FInv
  <1>2. PICK next \in {"read", "write"} :
           /\ pc' = [pc EXCEPT ![p] = next]
           /\ pc[p] \in InCall
           /\ next = "write" <=> pc[p] \in {"write", "write_sleep"}
    <2>1. CASE pc[p] = "read_sleep"
      BY <2>1 DEF Kill, InCall
    <2>2. CASE pc[p] = "write_sleep"
      BY <2>2 DEF Kill, InCall
    <2>3. CASE pc[p] \in {"read", "write"}
      <3>1. pc' = [pc EXCEPT ![p] = pc[p]]
        BY <2>3 DEF Kill
      <3> QED
        BY <2>3, <3>1 DEF InCall
    <2> QED
      BY <2>1, <2>2, <2>3 DEF Kill, InCall
  <1>3. UNCHANGED <<fileVars, pipeVars, callVars, abandoned>> /\ killed' \subseteq Procs
    BY DEF Kill, KilledIf, TypeOK
  <1>4. pc'[p] = next /\ \A q \in Procs \ {p} : pc'[q] = pc[q]
    BY <1>2 DEF TypeOK
  <1>5. FInv'
    BY <1>1, <1>2, <1>3, <1>4, CallStep DEF pipeVars, callVars, Calling, InCall
  <1>6. TypeOK'
    <2>1. pc' \in [Procs -> Labels]
      BY <1>2 DEF TypeOK, Labels, InCall
    <2> QED
      BY <1>3, <2>1 DEF TypeOK, fileVars, pipeVars, callVars
  <1>7. CallsHold'
    <2> SUFFICES ASSUME NEW q \in Procs, pc'[q] \in InCall
                 PROVE  /\ \E fd \in Fds : ofile[q][fd] = arg[q].f
                        /\ arg[q].f \in File
                        /\ writable[arg[q].f] = (pc'[q] \in {"write", "write_sleep"})
      BY <1>3 DEF CallsHold, fileVars, callVars
    <2>1. pc[q] \in InCall /\ (pc'[q] \in {"write", "write_sleep"} <=> pc[q] \in {"write", "write_sleep"})
      BY <1>2, <1>4
    <2> QED
      BY <2>1 DEF CallsHold
  <1>8. NoLostWakeup'
    BY <1>3, <1>4 DEF NoLostWakeup, PipeOf, Empty, Full, fileVars, pipeVars, callVars
  <1> QED
    BY <1>5, <1>6, <1>7, <1>8 DEF FInv

LEMMA ExitIInv == ASSUME IInv, NEW p \in Procs, Exit(p) PROVE IInv'
  <1> USE DEF IInv
  <1>1. FInv
    BY DEF FInv
  <1>2. /\ pc' = [pc EXCEPT ![p] = "unused"] /\ pc[p] \in {"user", "exit"}
        /\ \A fd \in Fds : ofile[p][fd] = None
        /\ UNCHANGED <<fileVars, pipeVars, killed, callVars, abandoned>>
    BY DEF Exit, Goto, FreeFds
  <1>3. pc'[p] = "unused" /\ \A q \in Procs \ {p} : pc'[q] = pc[q]
    BY <1>2 DEF TypeOK
  <1>4. FInv'
    BY <1>1, <1>2, <1>3, CallStep DEF pipeVars, callVars, Calling, InCall
  <1>5. TypeOK'
    <2>1. pc' \in [Procs -> Labels]
      BY <1>2 DEF TypeOK, Labels
    <2> QED
      BY <1>2, <2>1 DEF TypeOK, fileVars, pipeVars, callVars
  <1>6. CallsHold'
    BY <1>2, <1>3 DEF CallsHold, InCall, fileVars, callVars
  <1>7. NoLostWakeup'
    BY <1>2, <1>3 DEF NoLostWakeup, PipeOf, Empty, Full, fileVars, pipeVars, callVars
  <1> QED
    BY <1>4, <1>5, <1>6, <1>7 DEF FInv

(***************************************************************************)
(* References and ends.                                                    *)
(***************************************************************************)

\* A file with one reference has one holder, one with none has none.
LEMMA SoleHolder ==
  ASSUME TypeOK, Counted, NEW f \in File
  PROVE  /\ ref[f] = 0 <=> Holders(f) = {}
         /\ ref[f] <= 1 => \A g, h \in Holders(f) : g = h
  <1>1. IsFiniteSet(Holders(f)) /\ ref[f] = Cardinality(Holders(f)) /\ ref[f] \in Nat
    BY HoldersAre DEF Counted, TypeOK
  <1>2. ref[f] = 0 <=> Holders(f) = {}
    BY <1>1, FS_EmptySet
  <1>3. ref[f] = 1 => \E x : Holders(f) = {x}
    BY <1>1, FS_Singleton
  <1> QED
    BY <1>1, <1>2, <1>3

\* The files and the fileclose() calls that stand for an end.
LEMMA EndsAre ==
  ASSUME NEW pi, NEW w \in BOOLEAN
  PROVE  /\ pi \in Ends(w) <=>
              \/ \E f \in File : pipe[f] = pi /\ pi # NoPipe /\ writable[f] = w
              \/ \E q \in Procs : pc[q] = "pipeclose" /\ ff[q].w = w /\ ff[q].pi = pi
         /\ pi \in Ends(w)' <=>
              \/ \E f \in File : pipe'[f] = pi /\ pi # NoPipe /\ writable'[f] = w
              \/ \E q \in Procs : pc'[q] = "pipeclose" /\ ff'[q].w = w /\ ff'[q].pi = pi
  BY DEF Ends

\* Calls go on as they were when a step changes neither their pipe nor their
\* descriptors, and closes no end.
LEMMA CallsGoOn ==
  ASSUME IInv,
         UNCHANGED <<nread, nwrite, abandoned>>,
         readopen \subseteq readopen', writeopen \subseteq writeopen',
         \A q \in Procs : pc'[q] \in InCall =>
           /\ pc'[q] = pc[q] /\ arg'[q] = arg[q] /\ ofile'[q] = ofile[q]
           /\ pipe'[arg[q].f] = pipe[arg[q].f] /\ writable'[arg[q].f] = writable[arg[q].f]
  PROVE  CallsHold' /\ NoLostWakeup'
  <1>1. CallsHold'
    <2> SUFFICES ASSUME NEW q \in Procs, pc'[q] \in InCall
                 PROVE  /\ \E fd \in Fds : ofile'[q][fd] = arg'[q].f
                        /\ arg'[q].f \in File
                        /\ writable'[arg'[q].f] = (pc'[q] \in {"write", "write_sleep"})
      BY DEF CallsHold
    <2>1. /\ pc'[q] = pc[q] /\ arg'[q] = arg[q] /\ ofile'[q] = ofile[q]
          /\ writable'[arg[q].f] = writable[arg[q].f]
      OBVIOUS
    <2>2. /\ \E fd \in Fds : ofile[q][fd] = arg[q].f
          /\ arg[q].f \in File
          /\ writable[arg[q].f] = (pc[q] \in {"write", "write_sleep"})
      BY <2>1 DEF IInv, CallsHold
    <2> QED
      BY <2>1, <2>2
  <1>2. NoLostWakeup'
    <2> SUFFICES ASSUME NEW q \in Procs
                 PROVE  /\ pc'[q] = "read_sleep" =>
                             PipeOf(q)' \in writeopen' /\ (Empty(PipeOf(q))' \/ PipeOf(q)' \in abandoned')
                        /\ pc'[q] = "write_sleep" => PipeOf(q)' \in readopen' /\ Full(PipeOf(q))'
      BY DEF NoLostWakeup
    <2>1. CASE pc'[q] \notin InCall
      BY <2>1 DEF InCall
    <2>2. CASE pc'[q] \in InCall
      <3>1. PipeOf(q)' = PipeOf(q) /\ pc'[q] = pc[q]
        BY <2>2 DEF PipeOf
      <3>2. /\ pc[q] = "read_sleep" =>
                 PipeOf(q) \in writeopen /\ (Empty(PipeOf(q)) \/ PipeOf(q) \in abandoned)
            /\ pc[q] = "write_sleep" => PipeOf(q) \in readopen /\ Full(PipeOf(q))
        BY DEF IInv, NoLostWakeup
      <3> QED
        BY <3>1, <3>2 DEF Empty, Full
    <2> QED
      BY <2>1, <2>2
  <1> QED
    BY <1>1, <1>2

(***************************************************************************)
(* fileclose()                                                             *)
(***************************************************************************)

\* A process gives up its reference h to f, a descriptor or a pending file.
LEMMA FileCloseIInv ==
  ASSUME IInv, NEW p \in Procs, NEW f \in File, NEW h \in Holders(f),
         NEW next \in {"user", "exit", "close"},
         pc[p] \in {"user", "exit", "close"},
         FileClose(p, f, next),
         UNCHANGED <<pipeVars, killed, arg, abandoned>>,
         ofile' \in [Procs -> [Fds -> File \cup {None}]],
         todo' \in [Procs -> Seq(File)],
         \A q \in Procs \ {p} : ofile'[q] = ofile[q] /\ todo'[q] = todo[q],
         \A fd \in Fds : ofile'[p][fd] \in {ofile[p][fd], None},
         Range(todo'[p]) \subseteq Range(todo[p]),
         Len(todo'[p]) <= 2,
         Len(todo'[p]) = 2 => todo'[p][1] # todo'[p][2],
         Len(todo'[p]) > 0 <=> next = "close",
         \A g \in File : Holders(g)' = IF g = f THEN Holders(f) \ {h} ELSE Holders(g),
         \A q \in Procs : <<q, NOFILE>> = h => q = p,
         \A q \in Procs, fd \in Fds : <<q, fd>> = h => q = p
  PROVE  IInv'
  <1> DEFINE last == ~(ref[f] > 1 \/ pipe[f] = NoPipe)
  <1>1. PICK to \in {"user", "exit", "close", "pipeclose"} :
          /\ pc' = [pc EXCEPT ![p] = to]
          /\ to = "pipeclose" <=> last
          /\ to # "pipeclose" => to = next
    BY DEF FileClose, Goto
  <1>2. pc'[p] = to /\ \A q \in Procs \ {p} : pc'[q] = pc[q]
    BY <1>1 DEF IInv, TypeOK
  <1>3. /\ ref[f] \in Nat /\ ref[f] > 0
        /\ ref' = [ref EXCEPT ![f] = ref[f] - 1]
        /\ ref'[f] = ref[f] - 1 /\ \A g \in File \ {f} : ref'[g] = ref[g]
    <2>1. ref[f] \in Nat /\ ref[f] # 0
      BY SoleHolder DEF IInv, TypeOK
    <2> QED
      BY <2>1 DEF FileClose, IInv, TypeOK
  <1>4. last => \A g \in Holders(f) : g = h
    BY <1>3, SoleHolder DEF IInv
  <1>5. last => \A q \in Procs :
                  /\ \A fd \in Fds : ofile'[q][fd] # f
                  /\ q # p => (\A fd \in Fds : ofile[q][fd] # f) /\ f \notin Pending(q)
    <2> SUFFICES ASSUME last, NEW q \in Procs
                 PROVE  /\ \A fd \in Fds : ofile'[q][fd] # f
                        /\ q # p => (\A fd \in Fds : ofile[q][fd] # f) /\ f \notin Pending(q)
      OBVIOUS
    <2>1. Holders(f)' = {}
      BY <1>4
    <2>2. \A fd \in Fds : ofile'[q][fd] # f
      <3> TAKE fd \in Fds
      <3>1. ofile'[q][fd] = f => <<q, fd>> \in Holders(f)'
        BY Constants DEF Holders
      <3> QED
        BY <2>1, <3>1
    <2>3. ASSUME q # p PROVE (\A fd \in Fds : ofile[q][fd] # f) /\ f \notin Pending(q)
      <3>3. \A fd \in Fds : <<q, fd>> \in Holders(f) <=> ofile[q][fd] = f
        BY Constants DEF Holders
      <3>4. <<q, NOFILE>> \in Holders(f) <=> f \in Pending(q)
        BY HoldersAre, Zenon
      <3>1. \A fd \in Fds : ofile[q][fd] = f => <<q, fd>> = h
        BY <1>4, <3>3, Zenon
      <3>2. f \in Pending(q) => <<q, NOFILE>> = h
        BY <1>4, <3>4, Zenon
      <3> QED
        BY <2>3, <3>1, <3>2
    <2> QED
      BY <2>2, <2>3
  <1>6. /\ pipe' = IF last THEN [pipe EXCEPT ![f] = NoPipe] ELSE pipe
        /\ writable' = IF last THEN [writable EXCEPT ![f] = FALSE] ELSE writable
        /\ ff' = IF last THEN [ff EXCEPT ![p] = [pi |-> pipe[f], w |-> writable[f],
                                                 next |-> next]]
                 ELSE ff
    BY DEF FileClose
  <1>7. TypeOK'
    <2>1. ref' \in [File -> Nat]
      BY <1>3 DEF IInv, TypeOK
    <2>2. pipe' \in [File -> Pages \cup {NoPipe}]
      BY <1>6 DEF IInv, TypeOK
    <2>3. writable' \in [File -> BOOLEAN]
      BY <1>6, Zenon DEF IInv, TypeOK
    <2>4. pc' \in [Procs -> Labels]
      BY <1>1 DEF IInv, TypeOK, Labels
    <2>5. ff' \in [Procs -> [pi : Pages \cup {NoPipe}, w : BOOLEAN, next : Labels]]
      <3>1. [pi |-> pipe[f], w |-> writable[f], next |-> next]
              \in [pi : Pages \cup {NoPipe}, w : BOOLEAN, next : Labels]
        BY DEF IInv, TypeOK, Labels
      <3> QED
        BY <1>6, <3>1 DEF IInv, TypeOK
    <2> QED
      BY <2>1, <2>2, <2>3, <2>4, <2>5 DEF IInv, TypeOK, pipeVars
  <1>8. /\ pipe'[f] = (IF last THEN NoPipe ELSE pipe[f])
        /\ \A g \in File \ {f} : pipe'[g] = pipe[g] /\ writable'[g] = writable[g]
        /\ ~last => writable'[f] = writable[f]
    BY <1>6 DEF IInv, TypeOK
  <1>9. /\ last => ff'[p].pi = pipe[f] /\ ff'[p].w = writable[f] /\ ff'[p].next = next
        /\ \A q \in Procs \ {p} : ff'[q] = ff[q]
    BY <1>6 DEF IInv, TypeOK
  <1>10. last => pipe[f] \in Pages
    BY DEF IInv, TypeOK
  <1>11. /\ Pending(p)' \subseteq Pending(p)
         /\ \A q \in Procs \ {p} : Pending(q)' = Pending(q)
    BY <1>2 DEF Pending
  <1>12. TodoOK'
    <2> SUFFICES ASSUME NEW q \in Procs PROVE TodoAt(q)'
      BY DEF TodoOK
    <2>1. TodoAt(q)
      BY DEF IInv, TodoOK
    <2>2. CASE q # p
      BY <1>2, <1>9, <2>1, <2>2 DEF TodoAt
    <2>3. CASE q = p
      <3>1. Len(todo'[p]) = 0 => todo'[p] = << >>
        OBVIOUS
      <3>2. Len(todo'[p]) \in Nat
        OBVIOUS
      <3> QED
        BY <1>1, <1>2, <1>9, <1>10, <2>3, <3>1, <3>2 DEF TodoAt
    <2> QED
      BY <2>2, <2>3
  <1>13. UnusedClosed'
    <2> SUFFICES ASSUME NEW q \in Procs, pc'[q] = "unused"
                 PROVE  \A fd \in Fds : ofile'[q][fd] = None
      BY DEF UnusedClosed
    <2>1. q # p /\ pc[q] = "unused" /\ ofile'[q] = ofile[q]
      BY <1>1, <1>2
    <2> QED
      BY <2>1 DEF IInv, UnusedClosed
  <1>14. PendingOwn'
    <2> SUFFICES ASSUME NEW a \in Procs, NEW b \in Procs, NEW g \in Pending(a)'
                 PROVE  /\ g \in Pending(b)' => a = b
                        /\ \A fd \in Fds : ofile'[b][fd] # g
      BY DEF PendingOwn
    <2>1. g \in Pending(a) /\ (g \in Pending(b)' => g \in Pending(b))
      BY <1>11
    <2>2. (g \in Pending(b) => a = b) /\ \A fd \in Fds : ofile[b][fd] # g
      BY <2>1 DEF IInv, PendingOwn
    <2>3. g \in File
      <3>1. todo'[a] \in Seq(File) /\ Len(todo'[a]) <= 2 /\ (pc'[a] = "second" => arg[a].f \in File)
        BY <1>1, <1>2 DEF IInv, TodoOK, TodoAt
      <3> QED
        BY <3>1, TodoRange DEF Pending
    <2>4. \A fd \in Fds : ofile'[b][fd] \in {ofile[b][fd], None}
      OBVIOUS
    <2>5. \A fd \in Fds : ofile'[b][fd] # g
      <3>1. g # None
        BY <2>3, Constants
      <3> QED
        BY <2>2, <2>4, <3>1, Zenon
    <2> QED
      BY <2>1, <2>2, <2>5
  <1>15. OpenHavePipe'
    <2> SUFFICES ASSUME NEW q \in Procs
                 PROVE  /\ \A fd \in Fds : ofile'[q][fd] # None => pipe'[ofile'[q][fd]] # NoPipe
                        /\ pc'[q] \in {"second", "page"} => \A g \in Pending(q)' : pipe'[g] = NoPipe
      BY DEF OpenHavePipe
    <2>1. ASSUME NEW fd \in Fds, ofile'[q][fd] # None PROVE pipe'[ofile'[q][fd]] # NoPipe
      <3>1. ofile'[q][fd] = ofile[q][fd] /\ ofile[q][fd] \in File
        <4>1. ofile'[q][fd] \in {ofile[q][fd], None}
          BY <2>1
        <4>2. ofile[q][fd] \in File \cup {None}
          BY <2>1 DEF IInv, TypeOK
        <4> QED
          BY <2>1, <4>1, <4>2
      <3>2. pipe[ofile[q][fd]] # NoPipe
        BY <2>1, <3>1 DEF IInv, OpenHavePipe
      <3>3. last => ofile[q][fd] # f
        BY <1>5, <3>1
      <3> QED
        BY <1>8, <3>1, <3>2, <3>3
    <2>2. ASSUME pc'[q] \in {"second", "page"}, NEW g \in Pending(q)' PROVE pipe'[g] = NoPipe
      <3>1. q # p /\ pc[q] \in {"second", "page"} /\ g \in Pending(q)
        BY <1>1, <1>2, <1>11, <2>2
      <3>2. pipe[g] = NoPipe
        BY <3>1 DEF IInv, OpenHavePipe
      <3> QED
        BY <1>6, <3>2 DEF IInv, TypeOK
    <2> QED
      BY <2>1, <2>2
  <1>16. OneFileAnEnd'
    BY <1>8 DEF IInv, OneFileAnEnd
  <1>17. OnePipeClose'
    <2> SUFFICES ASSUME NEW a \in Procs, pc'[a] = "pipeclose"
                 PROVE  /\ \A g \in File : pipe'[g] = ff'[a].pi => writable'[g] # ff'[a].w
                        /\ \A q \in Procs : pc'[q] = "pipeclose" /\ ff'[q].pi = ff'[a].pi
                                              /\ ff'[q].w = ff'[a].w => q = a
      BY DEF OnePipeClose
    <2>1. \A q \in Procs \ {p} : pc[q] = "pipeclose" =>
            /\ ff[q].pi \in Pages
            /\ \A g \in File : pipe[g] = ff[q].pi => writable[g] # ff[q].w
      BY DEF IInv, OnePipeClose, TodoOK, TodoAt
    <2>2. CASE a = p
      <3>1. last /\ ff'[a].pi = pipe[f] /\ ff'[a].w = writable[f] /\ pipe[f] # NoPipe
        BY <1>1, <1>2, <1>9, <2>2
      <3>2. \A g \in File : pipe'[g] = ff'[a].pi => writable'[g] # ff'[a].w
        BY <1>8, <3>1 DEF IInv, OneFileAnEnd
      <3>3. \A q \in Procs \ {p} : pc'[q] = "pipeclose" /\ ff'[q].pi = ff'[a].pi
                                              /\ ff'[q].w = ff'[a].w => FALSE
        <4> TAKE q \in Procs \ {p}
        <4>1. pc'[q] = pc[q] /\ ff'[q] = ff[q]
          BY <1>2, <1>9
        <4>2. pc[q] = "pipeclose" => (pipe[f] = ff[q].pi => writable[f] # ff[q].w)
          BY <2>1
        <4> QED
          BY <3>1, <4>1, <4>2
      <3> QED
        BY <2>2, <3>2, <3>3
    <2>3. CASE a # p
      <3>1. pc[a] = "pipeclose" /\ ff'[a] = ff[a] /\ ff[a].pi # NoPipe
        BY <1>2, <1>9, <2>1, <2>3, Constants
      <3>2. \A g \in File : pipe'[g] = ff'[a].pi => writable'[g] # ff'[a].w
        <4> TAKE g \in File
        <4>1. pipe[g] = ff[a].pi => writable[g] # ff[a].w
          BY <2>1, <2>3, <3>1
        <4>2. CASE g = f /\ last
          BY <1>8, <3>1, <4>2
        <4>3. CASE ~(g = f /\ last)
          <5>1. pipe'[g] = pipe[g] /\ writable'[g] = writable[g]
            BY <1>8, <4>3
          <5> QED
            BY <3>1, <4>1, <5>1
        <4> QED
          BY <4>2, <4>3
      <3>3. \A q \in Procs \ {p} : pc'[q] = "pipeclose" /\ ff'[q].pi = ff'[a].pi
                                              /\ ff'[q].w = ff'[a].w => q = a
        <4> TAKE q \in Procs \ {p}
        <4>1. pc'[q] = pc[q] /\ ff'[q] = ff[q]
          BY <1>2, <1>9
        <4>2. pc[q] = "pipeclose" /\ ff[q].pi = ff[a].pi /\ ff[q].w = ff[a].w => q = a
          BY <3>1 DEF IInv, OnePipeClose
        <4> QED
          BY <3>1, <4>1, <4>2
      <3>4. ~(pc'[p] = "pipeclose" /\ ff'[p].pi = ff'[a].pi /\ ff'[p].w = ff'[a].w)
        BY <1>1, <1>2, <1>9, <2>1, <2>3, <3>1
      <3> QED
        BY <3>2, <3>3, <3>4
    <2> QED
      BY <2>2, <2>3
  <1>18. Counted'
    <2>1. IsFiniteSet(Holders(f)) /\ ref[f] = Cardinality(Holders(f))
      BY HoldersAre DEF IInv, Counted
    <2>2. Cardinality(Holders(f) \ {h}) = Cardinality(Holders(f)) - 1
      BY <2>1, FS_RemoveElement
    <2>3. \A g \in File : ref'[g] = Cardinality(Holders(g)')
      BY <1>3, <2>1, <2>2 DEF IInv, Counted
    <2>4. \A g \in File : ref'[g] = 0 => pipe'[g] = NoPipe
      <3>1. ref'[f] = 0 => pipe'[f] = NoPipe
        BY <1>3, <1>8
      <3>2. \A g \in File \ {f} : ref'[g] = 0 => pipe'[g] = NoPipe
        BY <1>3, <1>8 DEF IInv, Counted
      <3> QED
        BY <3>1, <3>2
    <2> QED
      BY <2>3, <2>4 DEF Counted
  <1>19. EndsOpen'
    <2>1. ASSUME NEW w \in BOOLEAN, NEW pi PROVE pi \in Ends(w)' <=> pi \in Ends(w)
      <3>1. (\E q \in Procs \ {p} : pc'[q] = "pipeclose" /\ ff'[q].w = w /\ ff'[q].pi = pi)
              <=> \E q \in Procs : pc[q] = "pipeclose" /\ ff[q].w = w /\ ff[q].pi = pi
        BY <1>2, <1>9
      <3>2. CASE ~last
        <4>1. pc'[p] # "pipeclose" /\ pipe' = pipe /\ writable' = writable
          BY <1>1, <1>2, <1>6, <3>2
        <4> QED
          BY <3>1, <4>1, EndsAre
      <3>3. CASE last
        <4>1. pc'[p] = "pipeclose" /\ ff'[p].pi = pipe[f] /\ ff'[p].w = writable[f] /\ pipe[f] # NoPipe
          BY <1>1, <1>2, <1>9, <3>3
        <4>2. (\E g \in File \ {f} : pipe'[g] = pi /\ pi # NoPipe /\ writable'[g] = w)
                <=> \E g \in File \ {f} : pipe[g] = pi /\ pi # NoPipe /\ writable[g] = w
          BY <1>8
        <4>3. pipe'[f] = NoPipe
          BY <1>8, <3>3
        <4> QED
          BY <3>1, <4>1, <4>2, <4>3, EndsAre
      <3> QED
        BY <3>2, <3>3
    <2>2. Ends(TRUE)' = Ends(TRUE) /\ Ends(FALSE)' = Ends(FALSE)
      BY <2>1
    <2> QED
      BY <2>2 DEF IInv, EndsOpen, pipeVars
  <1>20. CallsHold' /\ NoLostWakeup'
    <2>1. \A q \in Procs : pc'[q] \in InCall =>
            /\ pc'[q] = pc[q] /\ arg'[q] = arg[q] /\ ofile'[q] = ofile[q]
            /\ pipe'[arg[q].f] = pipe[arg[q].f] /\ writable'[arg[q].f] = writable[arg[q].f]
      <3> SUFFICES ASSUME NEW q \in Procs, pc'[q] \in InCall
                   PROVE  /\ pc'[q] = pc[q] /\ arg'[q] = arg[q] /\ ofile'[q] = ofile[q]
                          /\ pipe'[arg[q].f] = pipe[arg[q].f]
                          /\ writable'[arg[q].f] = writable[arg[q].f]
        OBVIOUS
      <3>1. q # p /\ pc'[q] = pc[q]
        BY <1>1, <1>2 DEF InCall
      <3>2. PICK fd \in Fds : ofile[q][fd] = arg[q].f /\ arg[q].f \in File
        BY <3>1 DEF IInv, CallsHold
      <3>3. last => arg[q].f # f
        BY <1>5, <3>1, <3>2
      <3> QED
        BY <1>8, <3>1, <3>2, <3>3
    <2> QED
      BY <2>1, CallsGoOn DEF pipeVars
  <1> QED
    BY <1>7, <1>12, <1>13, <1>14, <1>15, <1>16, <1>17, <1>18, <1>19, <1>20 DEF IInv

LEMMA CloseNextIInv == ASSUME IInv, NEW p \in Procs, CloseNext(p) PROVE IInv'
  <1>1. PICK f : f = Head(todo[p])
    OBVIOUS
  <1>2. /\ todo[p] \in Seq(File) /\ Len(todo[p]) <= 2 /\ Len(todo[p]) > 0
        /\ Len(todo[p]) = 2 => todo[p][1] # todo[p][2]
        /\ pc[p] = "close"
    BY DEF IInv, TypeOK, TodoOK, TodoAt, CloseNext
  <1>3. /\ f \in Range(todo[p]) /\ f \in File
        /\ Tail(todo[p]) \in Seq(File)
        /\ Len(Tail(todo[p])) = Len(todo[p]) - 1
        /\ Range(todo[p]) = {f} \cup Range(Tail(todo[p]))
        /\ f \notin Range(Tail(todo[p]))
    BY <1>1, <1>2, TodoRange
  <1>4. PICK next \in {"user", "close"} : /\ FileClose(p, f, next)
                                          /\ next = "user" <=> Len(todo[p]) = 1
    BY <1>1 DEF CloseNext
  <1>5. /\ todo' = [todo EXCEPT ![p] = Tail(todo[p])]
        /\ UNCHANGED <<ofile, pipeVars, killed, arg, abandoned>>
    BY DEF CloseNext
  <1>6. /\ todo' \in [Procs -> Seq(File)] /\ todo'[p] = Tail(todo[p])
        /\ \A q \in Procs \ {p} : todo'[q] = todo[q]
    BY <1>3, <1>5 DEF IInv, TypeOK
  <1>7. /\ pc'[p] # "second" /\ \A q \in Procs \ {p} : pc'[q] = pc[q]
    BY <1>4 DEF FileClose, Goto, IInv, TypeOK
  <1>8. /\ Pending(p) = Range(todo[p]) /\ Pending(p)' = Range(Tail(todo[p]))
        /\ \A q \in Procs \ {p} : Pending(q)' = Pending(q)
    BY <1>2, <1>5, <1>6, <1>7 DEF Pending
  <1>9. PICK h : h = <<p, NOFILE>>
    OBVIOUS
  <1>10. h \in Holders(f)
    BY <1>3, <1>8, <1>9, HoldersAre
  <1>11. \A g \in File : Holders(g)' = IF g = f THEN Holders(f) \ {h} ELSE Holders(g)
    <2> TAKE g \in File
    <2>1. \A q \in Procs : g \in Pending(q)' <=> (g \in Pending(q) /\ ~(q = p /\ g = f))
      BY <1>3, <1>8
    <2>2. ASSUME NEW x PROVE x \in Holders(g)' <=> x \in Holders(g) /\ ~(g = f /\ x = h)
      <3>1. CASE x \notin Procs \X (Fds \cup {NOFILE})
        BY <3>1 DEF Holders
      <3>2. ASSUME NEW q \in Procs, NEW s \in Fds \cup {NOFILE}, x = <<q, s>>
            PROVE  x \in Holders(g)' <=> x \in Holders(g) /\ ~(g = f /\ x = h)
        <4>1. CASE s = NOFILE
          BY <1>9, <2>1, <3>2, <4>1 DEF Holders
        <4>2. CASE s # NOFILE
          BY <1>5, <1>9, <3>2, <4>2 DEF Holders
        <4> QED
          BY <4>1, <4>2
      <3> QED
        BY <3>1, <3>2
    <2> QED
      BY <2>2
  <1>12. Len(todo'[p]) \in Nat /\ Len(todo'[p]) < 2 /\ (Len(todo'[p]) > 0 <=> next = "close")
    <2>1. PICK n \in Nat : n = Len(todo[p])
      BY <1>2
    <2>2. Len(todo'[p]) = n - 1 /\ n <= 2 /\ n > 0
      BY <1>2, <1>3, <1>6, <2>1
    <2>3. next = "user" <=> n = 1
      BY <1>4, <2>1
    <2>4. next = "close" <=> next # "user"
      BY <1>4
    <2> QED
      BY <2>2, <2>3, <2>4
  <1>13. /\ ofile' \in [Procs -> [Fds -> File \cup {None}]]
         /\ \A q \in Procs \ {p} : ofile'[q] = ofile[q] /\ todo'[q] = todo[q]
         /\ \A fd \in Fds : ofile'[p][fd] \in {ofile[p][fd], None}
    BY <1>5, <1>6 DEF IInv, TypeOK
  <1>14. /\ \A q \in Procs : <<q, NOFILE>> = h => q = p
         /\ \A q \in Procs, fd \in Fds : <<q, fd>> = h => q = p
    BY <1>9
  <1>15. Range(todo'[p]) \subseteq Range(todo[p])
    BY <1>3, <1>6
  <1>16. pc[p] \in {"user", "exit", "close"} /\ next \in {"user", "exit", "close"}
    BY <1>2, <1>4
  <1>17. Len(todo'[p]) <= 2 /\ (Len(todo'[p]) = 2 => todo'[p][1] # todo'[p][2])
    BY <1>12
  <1>18. /\ FileClose(p, f, next) /\ f \in File /\ todo' \in [Procs -> Seq(File)]
         /\ UNCHANGED <<pipeVars, killed, arg, abandoned>>
         /\ Len(todo'[p]) > 0 <=> next = "close"
    BY <1>3, <1>4, <1>5, <1>6, <1>12
  <1> QED
    BY <1>10, <1>11, <1>13, <1>14, <1>15, <1>16, <1>17, <1>18, FileCloseIInv

\* A descriptor is cleared and its file is closed: sys_close() and exit().
LEMMA CloseFdIInv ==
  ASSUME IInv, NEW p \in Procs, NEW fd \in Fds, NEW next \in {"user", "exit"},
         pc[p] \in {"user", "exit"}, ofile[p][fd] # None,
         ofile' = [ofile EXCEPT ![p][fd] = None],
         FileClose(p, ofile[p][fd], next),
         UNCHANGED <<pipeVars, killed, arg, todo, abandoned>>
  PROVE  IInv'
  <1>1. PICK f \in File : f = ofile[p][fd]
    BY DEF IInv, TypeOK
  <1>2. /\ ofile' \in [Procs -> [Fds -> File \cup {None}]]
        /\ \A q \in Procs \ {p} : ofile'[q] = ofile[q]
        /\ \A d \in Fds : ofile'[p][d] = IF d = fd THEN None ELSE ofile[p][d]
    <2>1. ofile \in [Procs -> [Fds -> File \cup {None}]]
      BY DEF IInv, TypeOK
    <2> QED
      BY <2>1
  <1>3. pc'[p] # "second" /\ \A q \in Procs \ {p} : pc'[q] = pc[q]
    BY DEF FileClose, Goto, IInv, TypeOK
  <1>4. \A q \in Procs : Pending(q)' = Pending(q)
    BY <1>3 DEF Pending
  <1>5. PICK h : h = <<p, fd>>
    OBVIOUS
  <1>6. h \in Holders(f)
    BY <1>1, <1>5, Constants DEF Holders
  <1>7. \A g \in File : Holders(g)' = IF g = f THEN Holders(f) \ {h} ELSE Holders(g)
    <2> TAKE g \in File
    <2>1. ASSUME NEW x PROVE x \in Holders(g)' <=> x \in Holders(g) /\ ~(g = f /\ x = h)
      <3>1. CASE x \notin Procs \X (Fds \cup {NOFILE})
        BY <3>1 DEF Holders
      <3>2. ASSUME NEW q \in Procs, NEW s \in Fds \cup {NOFILE}, x = <<q, s>>
            PROVE  x \in Holders(g)' <=> x \in Holders(g) /\ ~(g = f /\ x = h)
        <4>1. CASE s = NOFILE
          <5>1. x # h
            BY <1>5, <3>2, <4>1, Constants
          <5> QED
            BY <1>4, <3>2, <4>1, <5>1 DEF Holders
        <4>2. CASE s # NOFILE
          <5>1. x \in Holders(g)' <=> ofile'[q][s] = g
            BY <3>2, <4>2 DEF Holders
          <5>2. x \in Holders(g) <=> ofile[q][s] = g
            BY <3>2, <4>2 DEF Holders
          <5>3. ofile'[q][s] = g <=> ofile[q][s] = g /\ ~(g = f /\ q = p /\ s = fd)
            BY <1>1, <1>2, <3>2, <4>2, Constants
          <5>4. x = h <=> q = p /\ s = fd
            BY <1>5, <3>2
          <5> QED
            BY <5>1, <5>2, <5>3, <5>4
        <4> QED
          BY <4>1, <4>2
      <3> QED
        BY <3>1, <3>2
    <2> QED
      BY <2>1
  <1>8. todo[p] = << >> /\ Len(todo[p]) = 0 /\ todo \in [Procs -> Seq(File)]
    <2>1. TodoAt(p)
      BY DEF IInv, TodoOK
    <2>2. todo[p] = << >>
      BY <2>1 DEF TodoAt
    <2> QED
      BY <2>2 DEF IInv, TypeOK
  <1>9. /\ \A q \in Procs : <<q, NOFILE>> = h => q = p
        /\ \A q \in Procs, d \in Fds : <<q, d>> = h => q = p
    BY <1>5
  <1>10. \A d \in Fds : ofile'[p][d] \in {ofile[p][d], None}
    BY <1>2
  <1>11. FileClose(p, f, next) /\ next \in {"user", "exit", "close"} /\ pc[p] \in {"user", "exit", "close"}
    BY <1>1
  <1>12. /\ todo' \in [Procs -> Seq(File)] /\ Len(todo'[p]) = 0
         /\ \A q \in Procs \ {p} : ofile'[q] = ofile[q] /\ todo'[q] = todo[q]
         /\ Range(todo'[p]) \subseteq Range(todo[p])
    BY <1>2, <1>8
  <1>13. /\ Len(todo'[p]) <= 2 /\ (Len(todo'[p]) = 2 => todo'[p][1] # todo'[p][2])
         /\ Len(todo'[p]) > 0 <=> next = "close"
    BY <1>12
  <1> QED
    BY <1>2, <1>6, <1>7, <1>9, <1>10, <1>11, <1>12, <1>13, FileCloseIInv, SMTT(30)

LEMMA SysCloseIInv == ASSUME IInv, NEW p \in Procs, NEW fd \in Fds, SysClose(p, fd) PROVE IInv'
  <1>1. /\ pc[p] \in {"user", "exit"} /\ ofile[p][fd] # None
        /\ ofile' = [ofile EXCEPT ![p][fd] = None]
        /\ FileClose(p, ofile[p][fd], "user")
        /\ UNCHANGED <<pipeVars, killed, arg, todo, abandoned>>
    BY DEF SysClose
  <1> QED
    BY <1>1, CloseFdIInv

LEMMA ExitCloseIInv == ASSUME IInv, NEW p \in Procs, NEW fd \in Fds, ExitClose(p, fd) PROVE IInv'
  <1>1. /\ pc[p] \in {"user", "exit"} /\ ofile[p][fd] # None
        /\ ofile' = [ofile EXCEPT ![p][fd] = None]
        /\ FileClose(p, ofile[p][fd], "exit")
        /\ UNCHANGED <<pipeVars, killed, arg, todo, abandoned>>
    BY DEF ExitClose
  <1> QED
    BY <1>1, CloseFdIInv

(***************************************************************************)
(* pipeclose()                                                             *)
(***************************************************************************)

LEMMA PipeCloseIInv == ASSUME IInv, NEW p \in Procs, PipeClose(p) PROVE IInv'
  <1>1. PICK pi \in Pages : pi = ff[p].pi
    BY DEF IInv, TodoOK, TodoAt, PipeClose
  <1>2. PICK next \in {"user", "exit", "close"} :
          next = ff[p].next /\ (next = "close" <=> Len(todo[p]) > 0)
    BY DEF IInv, TodoOK, TodoAt, PipeClose
  <1>3. /\ pc[p] = "pipeclose" /\ ff' = [ff EXCEPT ![p] = NoFf]
        /\ UNCHANGED <<fileVars, killed, arg, todo>>
    BY DEF PipeClose
  <1>4. PICK w \in BOOLEAN : w = ff[p].w
    BY DEF IInv, TypeOK
  <1>5. PICK from \in {"read_sleep", "write_sleep"}, to \in {"read", "write"} :
          /\ from = IF w THEN "read_sleep" ELSE "write_sleep"
          /\ to = IF w THEN "read" ELSE "write"
          /\ WakeAnd(pi, from, to, p, next)
          /\ writeopen' = IF w THEN writeopen \ {pi} ELSE writeopen
          /\ readopen' = IF w THEN readopen ELSE readopen \ {pi}
          /\ abandoned' = IF w THEN abandoned \ {pi} ELSE abandoned
    <2>1. CASE w
      BY <1>1, <1>2, <1>4, <2>1 DEF PipeClose
    <2>2. CASE ~w
      BY <1>1, <1>2, <1>4, <2>2 DEF PipeClose
    <2> QED
      BY <2>1, <2>2
  <1>6. /\ pc' \in [Procs -> Labels] /\ pc'[p] = next
        /\ \A q \in Procs \ {p} :
             pc'[q] = IF pc[q] = from /\ PipeOf(q) = pi THEN to ELSE pc[q]
    <2>1. to \in Labels /\ next \in Labels
      BY DEF Labels, InCall
    <2> QED
      BY <1>5, <2>1 DEF WakeAnd, IInv, TypeOK
  <1>7. /\ pi \in readopen' \cup writeopen' => UNCHANGED <<pages, nread, nwrite, data>>
        /\ pi \notin readopen' \cup writeopen' =>
             /\ pages' = pages \cup {pi}
             /\ nread' = [nread EXCEPT ![pi] = 0]
             /\ nwrite' = [nwrite EXCEPT ![pi] = 0]
             /\ data' = [data EXCEPT ![pi] = Junk]
    BY <1>1 DEF PipeClose
  <1>8. /\ \A o \in Pages \ {pi} : nread'[o] = nread[o] /\ nwrite'[o] = nwrite[o]
        /\ nread' \in [Pages -> 0..(WRAP - 1)] /\ nwrite' \in [Pages -> 0..(WRAP - 1)]
    <2>1. 0 \in 0..(WRAP - 1)
      BY Constants
    <2>2. nread \in [Pages -> 0..(WRAP - 1)] /\ nwrite \in [Pages -> 0..(WRAP - 1)]
      BY DEF IInv, TypeOK
    <2>3. CASE pi \in readopen' \cup writeopen'
      BY <1>7, <2>2, <2>3
    <2>4. CASE pi \notin readopen' \cup writeopen'
      BY <1>7, <2>1, <2>2, <2>4
    <2> QED
      BY <2>3, <2>4
  <1>9. ff' \in [Procs -> [pi : Pages \cup {NoPipe}, w : BOOLEAN, next : Labels]]
        /\ \A q \in Procs \ {p} : ff'[q] = ff[q]
    <2>1. NoFf \in [pi : Pages \cup {NoPipe}, w : BOOLEAN, next : Labels]
      BY DEF NoFf, Labels
    <2> QED
      BY <1>3, <2>1 DEF IInv, TypeOK
  <1>10. TypeOK'
    <2>1. data' \in [Pages -> [0..(PIPESIZE - 1) -> Bytes]]
      BY <1>7, JunkType DEF IInv, TypeOK
    <2>2. readopen' \subseteq Pages /\ writeopen' \subseteq Pages /\ pages' \subseteq Pages
          /\ abandoned' \subseteq Pages
      BY <1>5, <1>7 DEF IInv, TypeOK
    <2> QED
      BY <1>3, <1>6, <1>8, <1>9, <2>1, <2>2 DEF IInv, TypeOK, fileVars
  <1>11. \A q \in Procs \ {p} :
           /\ \A l \in {"unused", "user", "exit", "second", "page", "close", "pipeclose"} :
                pc'[q] = l <=> pc[q] = l
           /\ pc'[q] \in InCall <=> pc[q] \in InCall
           /\ pc'[q] \in {"write", "write_sleep"} <=> pc[q] \in {"write", "write_sleep"}
    BY <1>5, <1>6 DEF InCall
  <1>12. \A q \in Procs : Pending(q)' = Pending(q)
    <2> TAKE q \in Procs
    <2>1. pc'[q] = "second" <=> pc[q] = "second"
      BY <1>3, <1>6, <1>11
    <2> QED
      BY <1>3, <2>1 DEF Pending
  <1>13. \A f \in File : Holders(f)' = Holders(f)
    BY <1>3, <1>12 DEF Holders, fileVars
  <1>14. TodoOK'
    <2> SUFFICES ASSUME NEW q \in Procs PROVE TodoAt(q)'
      BY DEF TodoOK
    <2>1. TodoAt(q)
      BY DEF IInv, TodoOK
    <2>2. CASE q # p
      BY <1>3, <1>9, <1>11, <2>1, <2>2 DEF TodoAt
    <2>3. CASE q = p
      <3>1. todo[p] \in Seq(File) /\ Len(todo[p]) \in Nat
        BY DEF IInv, TypeOK
      <3>2. Len(todo[p]) = 0 => todo[p] = << >>
        BY <3>1
      <3> QED
        BY <1>2, <1>3, <1>6, <2>1, <2>3, <3>1, <3>2 DEF TodoAt
    <2> QED
      BY <2>2, <2>3
  <1>15. UnusedClosed'
    BY <1>3, <1>6, <1>11 DEF IInv, UnusedClosed, fileVars
  <1>16. PendingOwn'
    BY <1>3, <1>12 DEF IInv, PendingOwn, fileVars
  <1>17. OpenHavePipe'
    <2>1. \A q \in Procs : pc'[q] \in {"second", "page"} => pc[q] \in {"second", "page"}
      BY <1>6, <1>11
    <2> QED
      BY <1>3, <1>12, <2>1 DEF IInv, OpenHavePipe, fileVars
  <1>18. OneFileAnEnd'
    BY <1>3 DEF IInv, OneFileAnEnd, fileVars
  <1>19. \A q \in Procs : pc'[q] = "pipeclose" => q # p /\ pc[q] = "pipeclose" /\ ff'[q] = ff[q]
    BY <1>6, <1>9, <1>11
  <1>20. OnePipeClose'
    BY <1>3, <1>19 DEF IInv, OnePipeClose, fileVars
  <1>21. Counted'
    BY <1>3, <1>13 DEF IInv, Counted, fileVars
  <1>22. /\ \A f \in File : pipe[f] = pi => writable[f] # w
         /\ \A q \in Procs \ {p} : pc[q] = "pipeclose" => ~(ff[q].pi = pi /\ ff[q].w = w)
    BY <1>1, <1>3, <1>4 DEF IInv, OnePipeClose
  <1>23. ASSUME NEW v \in BOOLEAN, NEW po
         PROVE  po \in Ends(v)' <=> po \in Ends(v) /\ ~(v = w /\ po = pi)
    <2>1. po \in Ends(v)' <=>
              \/ \E f \in File : pipe[f] = po /\ po # NoPipe /\ writable[f] = v
              \/ \E q \in Procs \ {p} : pc[q] = "pipeclose" /\ ff[q].w = v /\ ff[q].pi = po
      <3>1. po \in Ends(v)' <=>
              \/ \E f \in File : pipe[f] = po /\ po # NoPipe /\ writable[f] = v
              \/ \E q \in Procs : pc'[q] = "pipeclose" /\ ff'[q].w = v /\ ff'[q].pi = po
        BY <1>3, EndsAre DEF fileVars
      <3>2. (\E q \in Procs : pc'[q] = "pipeclose" /\ ff'[q].w = v /\ ff'[q].pi = po)
              <=> \E q \in Procs \ {p} : pc[q] = "pipeclose" /\ ff[q].w = v /\ ff[q].pi = po
        BY <1>6, <1>9, <1>11, <1>19
      <3> QED
        BY <3>1, <3>2
    <2>2. po \in Ends(v) <=>
              \/ \E f \in File : pipe[f] = po /\ po # NoPipe /\ writable[f] = v
              \/ \E q \in Procs : pc[q] = "pipeclose" /\ ff[q].w = v /\ ff[q].pi = po
      BY EndsAre
    <2> QED
      BY <1>1, <1>3, <1>4, <1>22, <2>1, <2>2
  <1>24. EndsOpen'
    <2>1. Ends(w)' = Ends(w) \ {pi} /\ \A v \in BOOLEAN : v # w => Ends(v)' = Ends(v)
      BY <1>23
    <2>2. pi \in Ends(w)
      BY <1>1, <1>3, <1>4, EndsAre
    <2>3. readopen' = Ends(FALSE)' /\ writeopen' = Ends(TRUE)'
      <3>1. CASE w = TRUE
        BY <1>5, <2>1, <3>1 DEF IInv, EndsOpen
      <3>2. CASE w = FALSE
        BY <1>5, <2>1, <3>2 DEF IInv, EndsOpen
      <3> QED
        BY <3>1, <3>2
    <2>4. pages' = Pages \ (readopen' \cup writeopen')
      <3>1. pages = Pages \ (readopen \cup writeopen) /\ pi \in readopen \cup writeopen
        BY <2>2 DEF IInv, EndsOpen
      <3>2. readopen' \cup writeopen' \subseteq readopen \cup writeopen
            /\ (readopen \cup writeopen) \ {pi} \subseteq readopen' \cup writeopen'
        BY <1>5
      <3> QED
        BY <1>7, <3>1, <3>2
    <2> QED
      BY <2>3, <2>4 DEF EndsOpen
  <1>25. CallsHold'
    <2> SUFFICES ASSUME NEW q \in Procs, pc'[q] \in InCall
                 PROVE  /\ \E fd \in Fds : ofile[q][fd] = arg[q].f
                        /\ arg[q].f \in File
                        /\ writable[arg[q].f] = (pc'[q] \in {"write", "write_sleep"})
      BY <1>3 DEF CallsHold, fileVars
    <2>1. q # p
      BY <1>6 DEF InCall
    <2>2. /\ pc[q] \in InCall
          /\ pc'[q] \in {"write", "write_sleep"} <=> pc[q] \in {"write", "write_sleep"}
      BY <1>11, <2>1
    <2> QED
      BY <2>2 DEF IInv, CallsHold
  <1>26. NoLostWakeup'
    <2> SUFFICES ASSUME NEW q \in Procs
                 PROVE  /\ pc'[q] = "read_sleep" =>
                             PipeOf(q)' \in writeopen' /\ (Empty(PipeOf(q))' \/ PipeOf(q)' \in abandoned')
                        /\ pc'[q] = "write_sleep" => PipeOf(q)' \in readopen' /\ Full(PipeOf(q))'
      BY DEF NoLostWakeup
    <2>1. CASE q = p
      BY <1>6, <2>1
    <2>2. CASE pc'[q] \notin {"read_sleep", "write_sleep"}
      BY <2>2
    <2>3. CASE q # p /\ pc'[q] \in {"read_sleep", "write_sleep"}
      <3>1. PipeOf(q)' = PipeOf(q)
        BY <1>3 DEF PipeOf, fileVars
      <3>2. pc'[q] = pc[q] /\ ~(pc[q] = from /\ PipeOf(q) = pi)
        BY <1>5, <1>6, <2>3
      <3>3. /\ pc[q] = "read_sleep" =>
                 PipeOf(q) \in writeopen /\ (Empty(PipeOf(q)) \/ PipeOf(q) \in abandoned)
            /\ pc[q] = "write_sleep" => PipeOf(q) \in readopen /\ Full(PipeOf(q))
        BY DEF IInv, NoLostWakeup
      <3>4. pc[q] \in InCall
        BY <2>3, <3>2 DEF InCall
      <3>5. PipeOf(q) \in Pages /\ arg[q].f \in File
        BY <3>4, InCallPipe DEF IInv, FInv
      <3>6. PipeOf(q) # pi
        <4>1. writable[arg[q].f] = (pc[q] \in {"write", "write_sleep"})
          BY <3>4 DEF IInv, CallsHold
        <4>2. PipeOf(q) = pi => writable[arg[q].f] # w
          BY <1>22, <3>5 DEF PipeOf
        <4>3. CASE w = TRUE
          BY <1>5, <2>3, <3>2, <4>1, <4>2, <4>3
        <4>4. CASE w = FALSE
          BY <1>5, <2>3, <3>2, <4>1, <4>2, <4>4
        <4> QED
          BY <4>3, <4>4
      <3>7. nread'[PipeOf(q)] = nread[PipeOf(q)] /\ nwrite'[PipeOf(q)] = nwrite[PipeOf(q)]
        BY <1>8, <3>5, <3>6
      <3>8. (Empty(PipeOf(q)) => Empty(PipeOf(q))') /\ (Full(PipeOf(q)) => Full(PipeOf(q))')
        BY <3>1, <3>7 DEF Empty, Full
      <3> QED
        BY <1>5, <3>1, <3>2, <3>3, <3>6, <3>8
    <2> QED
      BY <2>1, <2>2, <2>3
  <1> QED
    BY <1>10, <1>14, <1>15, <1>16, <1>17, <1>18, <1>20, <1>21, <1>24, <1>25, <1>26 DEF IInv

(***************************************************************************)
(* dup() and fork()                                                        *)
(***************************************************************************)

\* The first descriptor that is free.
LEMMA FdAllocFree ==
  ASSUME NEW p \in Procs, FreeFds(p) # {}
  PROVE  FdAlloc(p) \in Fds /\ ofile[p][FdAlloc(p)] = None
  <1>1. FreeFds(p) \subseteq Nat
    BY Constants DEF FreeFds
  <1>2. FdAlloc(p) \in FreeFds(p)
    BY <1>1, MinInSet DEF FdAlloc
  <1> QED
    BY <1>2 DEF FreeFds

LEMMA SysDupIInv == ASSUME IInv, NEW p \in Procs, NEW fd \in Fds, SysDup(p, fd) PROVE IInv'
  <1>1. PICK f \in File : f = ofile[p][fd]
    BY DEF IInv, TypeOK, SysDup
  <1>2. PICK d \in Fds : d = FdAlloc(p) /\ ofile[p][d] = None
    BY FdAllocFree DEF SysDup
  <1>3. /\ ofile' = [ofile EXCEPT ![p][d] = f] /\ ref' = [ref EXCEPT ![f] = @ + 1]
        /\ UNCHANGED <<pipe, writable, pipeVars, killed, pc, callVars, abandoned>>
        /\ pc[p] = "user"
    BY <1>1, <1>2 DEF SysDup
  <1>4. /\ ofile' \in [Procs -> [Fds -> File \cup {None}]]
        /\ \A q \in Procs \ {p} : ofile'[q] = ofile[q]
        /\ \A e \in Fds : ofile'[p][e] = IF e = d THEN f ELSE ofile[p][e]
    <2>1. ofile \in [Procs -> [Fds -> File \cup {None}]]
      BY DEF IInv, TypeOK
    <2> QED
      BY <1>3, <2>1
  <1>5. TypeOK'
    <2>1. ref' \in [File -> Nat]
      BY <1>3 DEF IInv, TypeOK
    <2> QED
      BY <1>3, <1>4, <2>1 DEF IInv, TypeOK, pipeVars, callVars
  <1>6. \A q \in Procs : Pending(q)' = Pending(q)
    BY <1>3 DEF Pending, callVars
  <1>7. PICK h : h = <<p, d>>
    OBVIOUS
  <1>8. \A g \in File : Holders(g)' = IF g = f THEN Holders(f) \cup {h} ELSE Holders(g)
    <2> TAKE g \in File
    <2>1. ASSUME NEW x PROVE x \in Holders(g)' <=> x \in Holders(g) \/ (g = f /\ x = h)
      <3>1. CASE x \notin Procs \X (Fds \cup {NOFILE})
        BY <1>7, <3>1 DEF Holders
      <3>2. ASSUME NEW q \in Procs, NEW s \in Fds \cup {NOFILE}, x = <<q, s>>
            PROVE  x \in Holders(g)' <=> x \in Holders(g) \/ (g = f /\ x = h)
        <4>1. CASE s = NOFILE
          <5>1. x # h
            BY <1>7, <3>2, <4>1, Constants
          <5> QED
            BY <1>6, <3>2, <4>1, <5>1 DEF Holders
        <4>2. CASE s # NOFILE
          <5>1. x \in Holders(g)' <=> ofile'[q][s] = g
            BY <3>2, <4>2 DEF Holders
          <5>2. x \in Holders(g) <=> ofile[q][s] = g
            BY <3>2, <4>2 DEF Holders
          <5>3. ofile'[q][s] = g <=> ofile[q][s] = g \/ (g = f /\ q = p /\ s = d)
            BY <1>2, <1>4, <3>2, <4>2, Constants
          <5>4. x = h <=> q = p /\ s = d
            BY <1>7, <3>2
          <5> QED
            BY <5>1, <5>2, <5>3, <5>4
        <4> QED
          BY <4>1, <4>2
      <3> QED
        BY <3>1, <3>2
    <2> QED
      BY <2>1
  <1>9. Counted'
    <2>1. h \notin Holders(f)
      BY <1>2, <1>7, Constants DEF Holders
    <2>2. IsFiniteSet(Holders(f)) /\ ref[f] = Cardinality(Holders(f))
      BY HoldersAre DEF IInv, Counted
    <2>3. Cardinality(Holders(f) \cup {h}) = Cardinality(Holders(f)) + 1
      BY <2>1, <2>2, FS_AddElement
    <2>4. ref'[f] = ref[f] + 1 /\ \A g \in File \ {f} : ref'[g] = ref[g]
      BY <1>3 DEF IInv, TypeOK
    <2>5. ref[f] \in Nat /\ pipe[f] # NoPipe
      BY <1>1, <1>3, Constants DEF IInv, TypeOK, OpenHavePipe
    <2>6. \A g \in File : ref'[g] = Cardinality(Holders(g)')
      BY <1>8, <2>2, <2>3, <2>4 DEF IInv, Counted
    <2>7. \A g \in File : ref'[g] = 0 => pipe'[g] = NoPipe
      BY <1>3, <2>4, <2>5 DEF IInv, Counted
    <2> QED
      BY <2>6, <2>7 DEF Counted
  <1>10. TodoOK' /\ OneFileAnEnd' /\ OnePipeClose' /\ EndsOpen'
    BY <1>3 DEF IInv, TodoOK, TodoAt, OneFileAnEnd, OnePipeClose, EndsOpen, Ends, pipeVars, callVars
  <1>11. UnusedClosed'
    BY <1>3, <1>4 DEF IInv, UnusedClosed
  <1>12. PendingOwn'
    <2>1. \A q \in Procs : f \notin Pending(q)
      BY <1>1 DEF IInv, PendingOwn
    <2> QED
      BY <1>4, <1>6, <2>1 DEF IInv, PendingOwn
  <1>13. OpenHavePipe'
    <2>1. pipe[f] # NoPipe
      BY <1>1, Constants DEF IInv, OpenHavePipe
    <2>2. \A q \in Procs : \A e \in Fds : ofile'[q][e] # None => pipe[ofile'[q][e]] # NoPipe
      BY <1>4, <2>1 DEF IInv, OpenHavePipe
    <2> QED
      BY <1>3, <1>6, <2>2 DEF IInv, OpenHavePipe
  <1>14. CallsHold' /\ NoLostWakeup'
    <2>1. \A q \in Procs : pc'[q] \in InCall => q # p
      BY <1>3 DEF InCall
    <2> QED
      BY <1>3, <1>4, <2>1, CallsGoOn DEF pipeVars, callVars
  <1> QED
    BY <1>5, <1>9, <1>10, <1>11, <1>12, <1>13, <1>14 DEF IInv

LEMMA ForkIInv == ASSUME IInv, NEW p \in Procs, NEW np \in Procs, Fork(p, np) PROVE IInv'
  <1>1. /\ pc[p] = "user" /\ pc[np] = "unused"
        /\ ref' = [f \in File |-> ref[f] + Cardinality({fd \in Fds : ofile[p][fd] = f})]
        /\ ofile' = [ofile EXCEPT ![np] = ofile[p]]
        /\ pc' = [pc EXCEPT ![np] = "user"]
        /\ UNCHANGED <<pipe, writable, pipeVars, killed, callVars, abandoned>>
    BY DEF Fork, FileDup, Goto
  <1>2. /\ ofile' \in [Procs -> [Fds -> File \cup {None}]]
        /\ \A q \in Procs \ {np} : ofile'[q] = ofile[q]
        /\ ofile'[np] = ofile[p]
        /\ \A fd \in Fds : ofile[np][fd] = None
    <2>1. ofile \in [Procs -> [Fds -> File \cup {None}]]
      BY DEF IInv, TypeOK
    <2>2. \A fd \in Fds : ofile[np][fd] = None
      BY <1>1 DEF IInv, UnusedClosed
    <2> QED
      BY <1>1, <2>1, <2>2
  <1>3. /\ pc' \in [Procs -> Labels] /\ pc'[np] = "user"
        /\ \A q \in Procs \ {np} : pc'[q] = pc[q]
    BY <1>1 DEF IInv, TypeOK, Labels
  <1>4. \A f \in File : /\ IsFiniteSet({fd \in Fds : ofile[p][fd] = f})
                        /\ Cardinality({fd \in Fds : ofile[p][fd] = f}) \in Nat
    <2> TAKE f \in File
    <2>1. IsFiniteSet({fd \in Fds : ofile[p][fd] = f})
      BY Constants, FS_Subset
    <2> QED
      BY <2>1, FS_CardinalityType
  <1>5. TypeOK'
    <2>1. ref' \in [File -> Nat]
      <3>1. \A f \in File : ref[f] + Cardinality({fd \in Fds : ofile[p][fd] = f}) \in Nat
        <4> TAKE f \in File
        <4>1. PICK c \in Nat : c = Cardinality({fd \in Fds : ofile[p][fd] = f})
          BY <1>4
        <4>2. ref[f] \in Nat
          BY DEF IInv, TypeOK
        <4> QED
          BY <4>1, <4>2
      <3> QED
        BY <1>1, <3>1
    <2> QED
      BY <1>1, <1>2, <1>3, <2>1 DEF IInv, TypeOK, pipeVars, callVars
  <1>6. \A q \in Procs : Pending(q)' = Pending(q)
    BY <1>1, <1>3 DEF Pending, callVars
  <1>7. Counted'
    <2> SUFFICES ASSUME NEW f \in File
                 PROVE  ref'[f] = Cardinality(Holders(f)') /\ (ref'[f] = 0 => pipe'[f] = NoPipe)
      BY DEF Counted
    <2>1. PICK D : D = {fd \in Fds : ofile[p][fd] = f}
      OBVIOUS
    <2>2. IsFiniteSet(D) /\ Cardinality(D) \in Nat
      BY <1>4, <2>1
    <2>3. PICK X : X = {np} \X D
      OBVIOUS
    <2>4. IsFiniteSet({np}) /\ Cardinality({np}) = 1
      BY FS_Singleton
    <2>5. IsFiniteSet(X) /\ Cardinality(X) = 1 * Cardinality(D)
      BY <2>2, <2>3, <2>4, FS_Product
    <2>6. Holders(f)' = Holders(f) \cup X /\ Holders(f) \cap X = {}
      <3>1. ASSUME NEW x PROVE /\ x \in Holders(f)' <=> x \in Holders(f) \/ x \in X
                               /\ ~(x \in Holders(f) /\ x \in X)
        <4>1. CASE x \notin Procs \X (Fds \cup {NOFILE})
          BY <2>1, <2>3, <4>1 DEF Holders
        <4>2. ASSUME NEW q \in Procs, NEW s \in Fds \cup {NOFILE}, x = <<q, s>>
              PROVE  /\ x \in Holders(f)' <=> x \in Holders(f) \/ x \in X
                     /\ ~(x \in Holders(f) /\ x \in X)
          <5>1. CASE s = NOFILE
            <6>1. x \notin X
              BY <2>1, <2>3, <4>2, <5>1, Constants
            <6> QED
              BY <1>6, <4>2, <5>1, <6>1 DEF Holders
          <5>2. CASE s # NOFILE
            <6>1. x \in Holders(f)' <=> ofile'[q][s] = f
              BY <4>2, <5>2 DEF Holders
            <6>2. x \in Holders(f) <=> ofile[q][s] = f
              BY <4>2, <5>2 DEF Holders
            <6>3. x \in X <=> q = np /\ ofile[p][s] = f
              BY <2>1, <2>3, <4>2, <5>2
            <6>4. CASE q = np
              BY <1>2, <4>2, <5>2, <6>1, <6>2, <6>3, <6>4, Constants
            <6>5. CASE q # np
              BY <1>2, <4>2, <5>2, <6>1, <6>2, <6>3, <6>5
            <6> QED
              BY <6>4, <6>5
          <5> QED
            BY <5>1, <5>2
        <4> QED
          BY <4>1, <4>2
      <3> QED
        BY <3>1
    <2>7. IsFiniteSet(Holders(f)) /\ ref[f] = Cardinality(Holders(f)) /\ ref[f] \in Nat
      BY HoldersAre DEF IInv, Counted, TypeOK
    <2>8. Cardinality(Holders(f) \cup X) = Cardinality(Holders(f)) + Cardinality(X) - Cardinality(Holders(f) \cap X)
      BY <2>5, <2>7, FS_Union
    <2>9. Cardinality(Holders(f) \cap X) = 0
      BY <2>6, FS_EmptySet
    <2>10. ref'[f] = ref[f] + Cardinality(D)
      BY <1>1, <2>1
    <2>11. ref'[f] = Cardinality(Holders(f)')
      BY <2>2, <2>5, <2>6, <2>7, <2>8, <2>9, <2>10
    <2>12. ref'[f] = 0 => ref[f] = 0
      BY <2>2, <2>7, <2>10
    <2> QED
      BY <1>1, <2>11, <2>12 DEF IInv, Counted
  <1>8. TodoOK'
    <2> SUFFICES ASSUME NEW q \in Procs PROVE TodoAt(q)'
      BY DEF TodoOK
    <2>1. TodoAt(q)
      BY DEF IInv, TodoOK
    <2>2. CASE q # np
      BY <1>1, <1>3, <2>1, <2>2 DEF TodoAt, callVars
    <2>3. CASE q = np
      BY <1>1, <1>3, <2>1, <2>3 DEF TodoAt, callVars
    <2> QED
      BY <2>2, <2>3
  <1>9. OneFileAnEnd'
    BY <1>1 DEF IInv, OneFileAnEnd
  <1>10. \A q \in Procs : pc'[q] = "pipeclose" <=> pc[q] = "pipeclose"
    BY <1>1, <1>3
  <1>11. OnePipeClose' /\ EndsOpen'
    BY <1>1, <1>10 DEF IInv, OnePipeClose, EndsOpen, Ends, pipeVars, callVars
  <1>12. UnusedClosed'
    BY <1>2, <1>3 DEF IInv, UnusedClosed
  <1>13. PendingOwn'
    <2>1. \A q \in Procs, fd \in Fds : \E r \in Procs : ofile'[q][fd] = ofile[r][fd]
      BY <1>2
    <2> QED
      BY <1>6, <2>1 DEF IInv, PendingOwn
  <1>14. OpenHavePipe'
    <2>1. \A q \in Procs, fd \in Fds : \E r \in Procs : ofile'[q][fd] = ofile[r][fd]
      BY <1>2
    <2>2. \A q \in Procs : pc'[q] \in {"second", "page"} => pc[q] \in {"second", "page"}
      BY <1>3
    <2> QED
      BY <1>1, <1>6, <2>1, <2>2 DEF IInv, OpenHavePipe
  <1>15. CallsHold' /\ NoLostWakeup'
    <2>1. \A q \in Procs : pc'[q] \in InCall => q # np
      BY <1>3 DEF InCall
    <2> QED
      BY <1>1, <1>2, <1>3, <2>1, CallsGoOn DEF pipeVars, callVars
  <1> QED
    BY <1>5, <1>7, <1>8, <1>9, <1>11, <1>12, <1>13, <1>14, <1>15 DEF IInv

(***************************************************************************)
(* pipealloc()                                                             *)
(***************************************************************************)

\* The first entry of ftable that is free.
LEMMA FileAllocFree ==
  ASSUME NEW f, FileAlloc(f)
  PROVE  f \in File /\ ref[f] = 0 /\ ref' = [ref EXCEPT ![f] = 1]
  <1>1. FreeFiles \subseteq Nat /\ FreeFiles # {}
    BY Constants DEF FreeFiles, FileAlloc
  <1>2. f \in FreeFiles
    BY <1>1, MinInSet DEF FileAlloc
  <1> QED
    BY <1>2 DEF FreeFiles, FileAlloc

\* An entry that filealloc() returns has one reference, which is pending.
LEMMA AllocCounted ==
  ASSUME IInv, NEW p \in Procs, NEW f \in File, ref[f] = 0,
         ref' = [ref EXCEPT ![f] = 1], UNCHANGED <<ofile, pipe>>,
         \A q \in Procs \ {p} : Pending(q)' = Pending(q),
         Pending(p)' = Pending(p) \cup {f}
  PROVE  /\ Counted' /\ PendingOwn'
         /\ f \notin Pending(p) /\ pipe[f] = NoPipe /\ ref' \in [File -> Nat]
  <1>1. Holders(f) = {} /\ pipe[f] = NoPipe
    BY SoleHolder DEF IInv, Counted
  <1>2. \A q \in Procs : f \notin Pending(q) /\ \A fd \in Fds : ofile[q][fd] # f
    BY <1>1, HoldersAre
  <1>3. PICK h : h = <<p, NOFILE>>
    OBVIOUS
  <1>4. \A g \in File : Holders(g)' = IF g = f THEN {h} ELSE Holders(g)
    <2> TAKE g \in File
    <2>1. ASSUME NEW x PROVE x \in Holders(g)' <=> x \in Holders(g) \/ (g = f /\ x = h)
      <3>1. CASE x \notin Procs \X (Fds \cup {NOFILE})
        BY <1>3, <3>1 DEF Holders
      <3>2. ASSUME NEW q \in Procs, NEW s \in Fds \cup {NOFILE}, x = <<q, s>>
            PROVE  x \in Holders(g)' <=> x \in Holders(g) \/ (g = f /\ x = h)
        <4>1. CASE s = NOFILE
          <5>1. x \in Holders(g)' <=> g \in Pending(q)'
            BY <3>2, <4>1 DEF Holders
          <5>2. x \in Holders(g) <=> g \in Pending(q)
            BY <3>2, <4>1 DEF Holders
          <5>3. x = h <=> q = p
            BY <1>3, <3>2, <4>1
          <5>4. g \in Pending(q)' <=> g \in Pending(q) \/ (g = f /\ q = p)
            BY <3>2
          <5> QED
            BY <5>1, <5>2, <5>3, <5>4
        <4>2. CASE s # NOFILE
          <5>1. x # h
            BY <1>3, <3>2, <4>2
          <5> QED
            BY <3>2, <4>2, <5>1 DEF Holders
        <4> QED
          BY <4>1, <4>2
      <3> QED
        BY <3>1, <3>2
    <2> QED
      BY <1>1, <2>1
  <1>5. ref' \in [File -> Nat] /\ ref'[f] = 1 /\ \A g \in File \ {f} : ref'[g] = ref[g]
    BY DEF IInv, TypeOK
  <1>6. Counted'
    <2>1. Cardinality({h}) = 1
      BY FS_Singleton
    <2>2. \A g \in File : ref'[g] = Cardinality(Holders(g)')
      BY <1>4, <1>5, <2>1 DEF IInv, Counted
    <2>3. \A g \in File : ref'[g] = 0 => pipe'[g] = NoPipe
      BY <1>5 DEF IInv, Counted
    <2> QED
      BY <2>2, <2>3 DEF Counted
  <1>7. PendingOwn'
    <2> SUFFICES ASSUME NEW q \in Procs, NEW r \in Procs, NEW g \in Pending(q)'
                 PROVE  /\ g \in Pending(r)' => q = r
                        /\ \A fd \in Fds : ofile[r][fd] # g
      BY DEF PendingOwn
    <2>1. CASE g = f
      BY <1>2, <2>1
    <2>2. CASE g # f
      <3>1. g \in Pending(q) /\ (g \in Pending(r)' => g \in Pending(r))
        BY <2>2
      <3> QED
        BY <3>1 DEF IInv, PendingOwn
    <2> QED
      BY <2>1, <2>2
  <1> QED
    BY <1>1, <1>2, <1>5, <1>6, <1>7

\* A step of p within pipealloc() that leaves pipes and descriptors alone.
LEMMA AllocStep ==
  ASSUME IInv, NEW p \in Procs,
         UNCHANGED <<pipe, writable, ofile, pipeVars, killed, ff, abandoned>>,
         ref' \in [File -> Nat], todo' \in [Procs -> Seq(File)],
         arg' \in [Procs -> [f : File \cup {None}, n : Nat]],
         \A q \in Procs \ {p} : arg'[q] = arg[q] /\ todo'[q] = todo[q],
         NEW to \in {"second", "page", "close"},
         pc[p] \in {"user", "second", "page"}, Goto(p, to),
         TodoAt(p)', Counted', PendingOwn',
         to \in {"second", "page"} => \A f \in Pending(p)' : pipe[f] = NoPipe
  PROVE  IInv'
  <1>1. /\ pc' \in [Procs -> Labels] /\ pc'[p] = to
        /\ \A q \in Procs \ {p} : pc'[q] = pc[q]
    <2>1. to \in Labels
      BY DEF Labels
    <2> QED
      BY <2>1 DEF IInv, TypeOK, Goto
  <1>2. TypeOK'
    BY <1>1 DEF IInv, TypeOK, pipeVars
  <1>3. TodoOK'
    <2> SUFFICES ASSUME NEW q \in Procs, q # p PROVE TodoAt(q)'
      BY DEF TodoOK
    <2>1. TodoAt(q)
      BY DEF IInv, TodoOK
    <2>2. arg'[q] = arg[q] /\ todo'[q] = todo[q] /\ pc'[q] = pc[q]
      BY <1>1
    <2> QED
      BY <2>1, <2>2 DEF TodoAt
  <1>4. UnusedClosed'
    BY <1>1 DEF IInv, UnusedClosed
  <1>5. \A q \in Procs \ {p} : Pending(q)' = Pending(q)
    BY <1>1 DEF Pending
  <1>6. OpenHavePipe'
    <2> SUFFICES ASSUME NEW q \in Procs
                 PROVE  /\ \A fd \in Fds : ofile[q][fd] # None => pipe[ofile[q][fd]] # NoPipe
                        /\ pc'[q] \in {"second", "page"} => \A f \in Pending(q)' : pipe[f] = NoPipe
      BY DEF OpenHavePipe
    <2>1. /\ \A fd \in Fds : ofile[q][fd] # None => pipe[ofile[q][fd]] # NoPipe
          /\ pc[q] \in {"second", "page"} => \A f \in Pending(q) : pipe[f] = NoPipe
      BY DEF IInv, OpenHavePipe
    <2>2. CASE q = p
      BY <1>1, <2>1, <2>2
    <2>3. CASE q # p
      BY <1>1, <1>5, <2>1, <2>3
    <2> QED
      BY <2>2, <2>3
  <1>7. OneFileAnEnd'
    BY DEF IInv, OneFileAnEnd
  <1>8. \A q \in Procs : pc'[q] = "pipeclose" <=> pc[q] = "pipeclose"
    BY <1>1
  <1>9. OnePipeClose' /\ EndsOpen'
    BY <1>8 DEF IInv, OnePipeClose, EndsOpen, Ends, pipeVars
  <1>10. CallsHold' /\ NoLostWakeup'
    <2>1. \A q \in Procs : pc'[q] \in InCall => q # p
      BY <1>1 DEF InCall
    <2>2. \A q \in Procs : pc'[q] \in InCall =>
            /\ pc'[q] = pc[q] /\ arg'[q] = arg[q] /\ ofile'[q] = ofile[q]
            /\ pipe'[arg[q].f] = pipe[arg[q].f] /\ writable'[arg[q].f] = writable[arg[q].f]
      BY <1>1, <2>1
    <2>3. UNCHANGED <<nread, nwrite, abandoned>> /\ readopen \subseteq readopen'
          /\ writeopen \subseteq writeopen'
      BY DEF pipeVars
    <2> QED
      BY <2>2, <2>3, CallsGoOn
  <1> QED
    BY <1>2, <1>3, <1>4, <1>6, <1>7, <1>9, <1>10 DEF IInv

\* pipealloc()'s files as a sequence.
LEMMA PairOf ==
  ASSUME NEW f \in File, NEW g \in File
  PROVE  /\ <<f, g>> \in Seq(File) /\ Len(<<f, g>>) = 2
         /\ <<f, g>>[1] = f /\ <<f, g>>[2] = g /\ Range(<<f, g>>) = {f, g}
         /\ <<f>> \in Seq(File) /\ Len(<<f>>) = 1 /\ Range(<<f>>) = {f}
  <1>1. /\ <<f, g>> \in Seq(File) /\ Len(<<f, g>>) = 2
        /\ <<f, g>>[1] = f /\ <<f, g>>[2] = g
    OBVIOUS
  <1>2. <<f>> \in Seq(File) /\ Len(<<f>>) = 1 /\ <<f>>[1] = f
    OBVIOUS
  <1>3. Range(<<f, g>>) = {f, g}
    <2>1. PICK s \in Seq(File) : s = <<f, g>> /\ Len(s) = 2 /\ s[1] = f /\ s[2] = g
      BY <1>1, Zenon
    <2>2. Len(s) <= 2
      BY <2>1
    <2>3. Len(s) = 2 => Range(s) = {s[1], s[2]}
      BY <2>2, TodoRange, Zenon
    <2> QED
      BY <2>1, <2>3, Zenon
  <1>4. Range(<<f>>) = {f}
    <2>1. PICK s \in Seq(File) : s = <<f>> /\ Len(s) = 1 /\ s[1] = f
      BY <1>2, Zenon
    <2>2. Len(s) <= 2
      BY <2>1
    <2>3. Len(s) = 1 => Range(s) = {s[1]}
      BY <2>2, TodoRange, Zenon
    <2> QED
      BY <2>1, <2>3, Zenon
  <1> QED
    BY <1>1, <1>2, <1>3, <1>4

LEMMA PipeAllocFirstIInv ==
  ASSUME IInv, NEW p \in Procs, NEW f \in File, PipeAllocFirst(p, f)
  PROVE  IInv'
  <1>1. /\ pc[p] = "user" /\ FileAlloc(f) /\ Goto(p, "second")
        /\ arg' = [arg EXCEPT ![p] = [f |-> f, n |-> 0]]
        /\ UNCHANGED <<pipe, writable, ofile, pipeVars, killed, todo, ff, abandoned>>
    BY DEF PipeAllocFirst
  <1>2. ref[f] = 0 /\ ref' = [ref EXCEPT ![f] = 1]
    BY <1>1, FileAllocFree
  <1>3. /\ arg' \in [Procs -> [f : File \cup {None}, n : Nat]] /\ arg'[p].f = f
        /\ \A q \in Procs \ {p} : arg'[q] = arg[q]
    <2>1. [f |-> f, n |-> 0] \in [f : File \cup {None}, n : Nat]
      OBVIOUS
    <2> QED
      BY <1>1, <2>1 DEF IInv, TypeOK
  <1>4. pc'[p] = "second" /\ \A q \in Procs \ {p} : pc'[q] = pc[q]
    BY <1>1 DEF Goto, IInv, TypeOK
  <1>5. todo[p] = << >> /\ Range(todo[p]) = {}
    <2>1. todo[p] = << >>
      BY <1>1 DEF IInv, TodoOK, TodoAt
    <2> QED
      BY <2>1 DEF Range
  <1>6. Pending(p) = {} /\ Pending(p)' = {f} /\ \A q \in Procs \ {p} : Pending(q)' = Pending(q)
    BY <1>1, <1>3, <1>4, <1>5 DEF Pending
  <1>7. Pending(p)' = Pending(p) \cup {f}
    BY <1>6
  <1>8. Counted' /\ PendingOwn' /\ pipe[f] = NoPipe /\ ref' \in [File -> Nat]
    BY <1>1, <1>2, <1>6, <1>7, AllocCounted
  <1>9. TodoAt(p)'
    BY <1>1, <1>3, <1>4, <1>5 DEF TodoAt
  <1>10. todo' \in [Procs -> Seq(File)] /\ \A q \in Procs \ {p} : todo'[q] = todo[q]
    BY <1>1 DEF IInv, TypeOK
  <1> QED
    BY <1>1, <1>3, <1>6, <1>8, <1>9, <1>10, AllocStep

LEMMA PipeAllocSecondIInv == ASSUME IInv, NEW p \in Procs, PipeAllocSecond(p) PROVE IInv'
  <1>1. /\ pc[p] = "second" /\ arg' = [arg EXCEPT ![p] = NoArg]
        /\ UNCHANGED <<pipe, writable, ofile, pipeVars, killed, ff, abandoned>>
    BY DEF PipeAllocSecond
  <1>2. PICK f0 \in File : f0 = arg[p].f
    BY <1>1 DEF IInv, TodoOK, TodoAt
  <1>3. Range(todo[p]) = {}
    <2>1. todo[p] = << >>
      BY <1>1 DEF IInv, TodoOK, TodoAt
    <2> QED
      BY <2>1 DEF Range
  <1>4. Pending(p) = {f0} /\ pipe[f0] = NoPipe
    <2>1. Pending(p) = {f0}
      BY <1>1, <1>2, <1>3 DEF Pending
    <2> QED
      BY <1>1, <2>1 DEF IInv, OpenHavePipe
  <1>5. /\ arg' \in [Procs -> [f : File \cup {None}, n : Nat]]
        /\ \A q \in Procs \ {p} : arg'[q] = arg[q]
    <2>1. NoArg \in [f : File \cup {None}, n : Nat]
      BY DEF NoArg
    <2> QED
      BY <1>1, <2>1 DEF IInv, TypeOK
  <1>6. ASSUME NEW s \in Seq(File), todo' = [todo EXCEPT ![p] = s],
               NEW to \in {"page", "close"}, Goto(p, to)
        PROVE  /\ todo' \in [Procs -> Seq(File)] /\ todo'[p] = s
               /\ \A q \in Procs \ {p} : todo'[q] = todo[q] /\ Pending(q)' = Pending(q)
               /\ pc'[p] = to /\ Pending(p)' = Range(s)
    <2>1. pc'[p] = to /\ \A q \in Procs \ {p} : pc'[q] = pc[q]
      BY <1>6 DEF Goto, IInv, TypeOK
    <2>2. /\ todo' \in [Procs -> Seq(File)] /\ todo'[p] = s
          /\ \A q \in Procs \ {p} : todo'[q] = todo[q]
      BY <1>6 DEF IInv, TypeOK
    <2> QED
      BY <1>5, <2>1, <2>2 DEF Pending
  <1>7. ASSUME NEW f \in File, FileAlloc(f), todo' = [todo EXCEPT ![p] = <<f0, f>>],
               Goto(p, "page")
        PROVE  IInv'
    <2>1. ref[f] = 0 /\ ref' = [ref EXCEPT ![f] = 1]
      BY <1>7, FileAllocFree
    <2>2. PICK s : s = <<f0, f>>
      OBVIOUS
    <2>3. s \in Seq(File) /\ Len(s) = 2 /\ s[1] = f0 /\ s[2] = f /\ Range(s) = {f0, f}
      BY <2>2, PairOf
    <2>4. /\ todo' \in [Procs -> Seq(File)] /\ todo'[p] = s
          /\ \A q \in Procs \ {p} : todo'[q] = todo[q] /\ Pending(q)' = Pending(q)
          /\ pc'[p] = "page" /\ Pending(p)' = {f0, f}
      BY <1>6, <1>7, <2>2, <2>3
    <2>5. Pending(p)' = Pending(p) \cup {f}
      BY <1>4, <2>4
    <2>6. Counted' /\ PendingOwn' /\ f \notin Pending(p) /\ pipe[f] = NoPipe /\ ref' \in [File -> Nat]
      BY <1>1, <2>1, <2>4, <2>5, AllocCounted
    <2>7. TodoAt(p)'
      <3>1. Len(todo'[p]) = 2 /\ todo'[p][1] # todo'[p][2] /\ pc'[p] = "page"
        BY <1>4, <2>3, <2>4, <2>6
      <3> QED
        BY <3>1 DEF TodoAt
    <2>8. \A g \in Pending(p)' : pipe[g] = NoPipe
      BY <1>4, <2>4, <2>6
    <2> QED
      BY <1>1, <1>5, <1>7, <2>4, <2>6, <2>7, <2>8, AllocStep
  <1>8. ASSUME todo' = [todo EXCEPT ![p] = <<f0>>], Goto(p, "close"), UNCHANGED ref
        PROVE  IInv'
    <2>1. PICK s : s = <<f0>>
      OBVIOUS
    <2>2. s \in Seq(File) /\ Len(s) = 1 /\ Range(s) = {f0}
      BY <2>1, PairOf
    <2>3. /\ todo' \in [Procs -> Seq(File)] /\ todo'[p] = s
          /\ \A q \in Procs \ {p} : todo'[q] = todo[q] /\ Pending(q)' = Pending(q)
          /\ pc'[p] = "close" /\ Pending(p)' = {f0}
      BY <1>6, <1>8, <2>1, <2>2
    <2>4. \A q \in Procs : Pending(q)' = Pending(q)
      BY <1>4, <2>3
    <2>5. PendingOwn'
      BY <1>1, <2>4 DEF IInv, PendingOwn
    <2>6. \A g \in File : Holders(g)' = Holders(g)
      BY <1>1, <2>4 DEF Holders
    <2>7. Counted'
      BY <1>1, <1>8, <2>6 DEF IInv, Counted
    <2>8. TodoAt(p)' /\ ref' \in [File -> Nat]
      BY <1>8, <2>2, <2>3 DEF TodoAt, IInv, TypeOK
    <2> QED
      BY <1>1, <1>5, <1>8, <2>3, <2>5, <2>7, <2>8, AllocStep
  <1> QED
    BY <1>2, <1>7, <1>8 DEF PipeAllocSecond

LEMMA PipeAllocFailsIInv == ASSUME IInv, NEW p \in Procs, PipeAllocFails(p) PROVE IInv'
  <1>1. /\ pc[p] = "page" /\ Goto(p, "close")
        /\ UNCHANGED <<fileVars, pipeVars, killed, callVars, abandoned>>
    BY DEF PipeAllocFails
  <1>2. pc'[p] = "close" /\ \A q \in Procs \ {p} : pc'[q] = pc[q]
    BY <1>1 DEF Goto, IInv, TypeOK
  <1>3. \A q \in Procs : Pending(q)' = Pending(q)
    BY <1>1, <1>2 DEF Pending, callVars
  <1>4. PendingOwn'
    BY <1>1, <1>3 DEF IInv, PendingOwn, fileVars
  <1>5. \A g \in File : Holders(g)' = Holders(g)
    BY <1>1, <1>3 DEF Holders, fileVars
  <1>6. Counted'
    BY <1>1, <1>5 DEF IInv, Counted, fileVars
  <1>7. TodoAt(p)'
    BY <1>1, <1>2 DEF IInv, TodoOK, TodoAt, callVars
  <1>8. /\ UNCHANGED <<pipe, writable, ofile, pipeVars, killed, ff, abandoned>>
        /\ ref' \in [File -> Nat] /\ todo' \in [Procs -> Seq(File)]
        /\ arg' \in [Procs -> [f : File \cup {None}, n : Nat]]
        /\ \A q \in Procs \ {p} : arg'[q] = arg[q] /\ todo'[q] = todo[q]
    BY <1>1 DEF IInv, TypeOK, fileVars, callVars
  <1> QED
    BY <1>1, <1>4, <1>6, <1>7, <1>8, AllocStep

\* What is pending is an open file.
LEMMA PendingFiles == ASSUME IInv, NEW q \in Procs PROVE Pending(q) \subseteq File
  <1>1. TodoAt(q) /\ todo[q] \in Seq(File)
    BY DEF IInv, TodoOK, TypeOK
  <1>2. Range(todo[q]) \subseteq File
    BY <1>1 DEF Range
  <1> QED
    BY <1>1, <1>2 DEF TodoAt, Pending

\* pipealloc() gets its page: p's two pending files become the ends of a pipe,
\* and stay pending or go behind descriptors of p.
LEMMA NewPipeIInv ==
  ASSUME IInv, NEW p \in Procs, NEW pi \in Pages, NEW f0 \in File, NEW f1 \in File,
         f0 # f1, f0 \in Pending(p), f1 \in Pending(p), pc[p] = "page",
         NewPipe(pi, f0, f1),
         UNCHANGED <<ref, nread, nwrite, data, killed, arg, ff, abandoned>>,
         NEW to \in {"user", "close"}, Goto(p, to),
         ofile' \in [Procs -> [Fds -> File \cup {None}]],
         todo' \in [Procs -> Seq(File)],
         \A q \in Procs \ {p} : ofile'[q] = ofile[q] /\ todo'[q] = todo[q],
         \A fd \in Fds : ofile'[p][fd] \in {ofile[p][fd], f0, f1},
         TodoAt(p)', PendingOwn',
         \A g \in File : ref[g] = Cardinality(Holders(g)')
  PROVE  IInv'
  <1>1. /\ pi \in pages /\ pages' = pages \ {pi}
        /\ readopen' = readopen \cup {pi} /\ writeopen' = writeopen \cup {pi}
        /\ pipe' = [pipe EXCEPT ![f0] = pi, ![f1] = pi]
        /\ writable' = [writable EXCEPT ![f0] = FALSE, ![f1] = TRUE]
    BY DEF NewPipe
  <1>2. /\ pc' \in [Procs -> Labels] /\ pc'[p] = to
        /\ \A q \in Procs \ {p} : pc'[q] = pc[q]
    <2>1. to \in Labels
      BY DEF Labels
    <2> QED
      BY <2>1 DEF IInv, TypeOK, Goto
  <1>3. /\ pipe' \in [File -> Pages \cup {NoPipe}]
        /\ \A g \in File : pipe'[g] = IF g \in {f0, f1} THEN pi ELSE pipe[g]
    BY <1>1 DEF IInv, TypeOK
  <1>4. /\ writable' \in [File -> BOOLEAN] /\ writable'[f0] = FALSE /\ writable'[f1] = TRUE
        /\ \A g \in File \ {f0, f1} : writable'[g] = writable[g]
    <2>1. writable \in [File -> BOOLEAN]
      BY DEF IInv, TypeOK
    <2> QED
      BY <1>1, <2>1
  <1>5. TypeOK'
    <2>1. readopen' \subseteq Pages /\ writeopen' \subseteq Pages /\ pages' \subseteq Pages
      BY <1>1 DEF IInv, TypeOK
    <2> QED
      BY <1>2, <1>3, <1>4, <2>1 DEF IInv, TypeOK
  <1>6. TodoOK'
    <2> SUFFICES ASSUME NEW q \in Procs, q # p PROVE TodoAt(q)'
      BY DEF TodoOK
    <2>1. TodoAt(q)
      BY DEF IInv, TodoOK
    <2>2. todo'[q] = todo[q] /\ pc'[q] = pc[q]
      BY <1>2
    <2> QED
      BY <2>1, <2>2 DEF TodoAt
  <1>7. UnusedClosed'
    BY <1>2 DEF IInv, UnusedClosed
  <1>8. \A q \in Procs \ {p} : Pending(q)' = Pending(q)
    BY <1>2 DEF Pending
  <1>9. pipe[f0] = NoPipe /\ pipe[f1] = NoPipe
    BY DEF IInv, OpenHavePipe
  <1>10. \A q \in Procs, fd \in Fds : ofile[q][fd] \notin {f0, f1}
    BY DEF IInv, PendingOwn
  <1>11. OpenHavePipe'
    <2> SUFFICES ASSUME NEW q \in Procs
                 PROVE  /\ \A fd \in Fds : ofile'[q][fd] # None => pipe'[ofile'[q][fd]] # NoPipe
                        /\ pc'[q] \in {"second", "page"} => \A f \in Pending(q)' : pipe'[f] = NoPipe
      BY DEF OpenHavePipe
    <2>1. /\ \A fd \in Fds : ofile[q][fd] # None => pipe[ofile[q][fd]] # NoPipe
          /\ pc[q] \in {"second", "page"} => \A f \in Pending(q) : pipe[f] = NoPipe
      BY DEF IInv, OpenHavePipe
    <2>2. \A fd \in Fds : ofile'[q][fd] # None => pipe'[ofile'[q][fd]] # NoPipe
      <3> SUFFICES ASSUME NEW fd \in Fds, ofile'[q][fd] # None
                   PROVE  pipe'[ofile'[q][fd]] # NoPipe
        OBVIOUS
      <3>1. ofile'[q][fd] \in File
        OBVIOUS
      <3>2. CASE ofile'[q][fd] \in {f0, f1}
        BY <1>3, <3>1, <3>2, Constants
      <3>3. CASE ofile'[q][fd] \notin {f0, f1}
        <4>1. ofile'[q][fd] = ofile[q][fd]
          BY <3>3
        <4> QED
          BY <1>3, <2>1, <3>1, <3>3, <4>1
      <3> QED
        BY <3>2, <3>3
    <2>3. pc'[q] \in {"second", "page"} => \A f \in Pending(q)' : pipe'[f] = NoPipe
      <3> SUFFICES ASSUME pc'[q] \in {"second", "page"}, NEW f \in Pending(q)'
                   PROVE  pipe'[f] = NoPipe
        OBVIOUS
      <3>1. q # p /\ pc[q] \in {"second", "page"} /\ f \in Pending(q)
        BY <1>2, <1>8
      <3>2. f \in File \ {f0, f1}
        BY <3>1, PendingFiles DEF IInv, PendingOwn
      <3> QED
        BY <1>3, <2>1, <3>1, <3>2
    <2> QED
      BY <2>2, <2>3
  <1>12. /\ \A f \in File : pipe[f] # pi
         /\ \A q \in Procs : pc[q] = "pipeclose" => ff[q].pi # pi
    <2>1. \A v \in BOOLEAN : pi \notin Ends(v)
      BY <1>1 DEF IInv, EndsOpen
    <2>2. ASSUME NEW f \in File, pipe[f] = pi PROVE FALSE
      <3>1. writable[f] \in BOOLEAN /\ pi # NoPipe
        BY Constants DEF IInv, TypeOK
      <3> QED
        BY <2>1, <2>2, <3>1, EndsAre
    <2>3. ASSUME NEW q \in Procs, pc[q] = "pipeclose", ff[q].pi = pi PROVE FALSE
      <3>1. ff[q].w \in BOOLEAN
        BY DEF IInv, TypeOK
      <3> QED
        BY <2>1, <2>3, <3>1, EndsAre
    <2> QED
      BY <2>2, <2>3
  <1>13. OneFileAnEnd'
    <2> SUFFICES ASSUME NEW f \in File, NEW g \in File, pipe'[f] = pipe'[g],
                        pipe'[f] # NoPipe, writable'[f] = writable'[g]
                 PROVE  f = g
      BY DEF OneFileAnEnd
    <2>1. CASE f \in {f0, f1} \/ g \in {f0, f1}
      BY <1>3, <1>4, <1>12, <2>1
    <2>2. CASE f \notin {f0, f1} /\ g \notin {f0, f1}
      <3>1. /\ pipe[f] = pipe'[f] /\ pipe[g] = pipe'[g]
            /\ writable[f] = writable'[f] /\ writable[g] = writable'[g]
        BY <1>3, <1>4, <2>2
      <3> QED
        BY <3>1 DEF IInv, OneFileAnEnd
    <2> QED
      BY <2>1, <2>2
  <1>14. \A q \in Procs : pc'[q] = "pipeclose" <=> pc[q] = "pipeclose"
    BY <1>2
  <1>15. OnePipeClose'
    <2> SUFFICES ASSUME NEW q \in Procs, pc[q] = "pipeclose"
                 PROVE  /\ \A f \in File : pipe'[f] = ff[q].pi => writable'[f] # ff[q].w
                        /\ \A r \in Procs : pc[r] = "pipeclose" /\ ff[r].pi = ff[q].pi /\ ff[r].w = ff[q].w
                             => r = q
      BY <1>14 DEF OnePipeClose
    <2>1. /\ \A f \in File : pipe[f] = ff[q].pi => writable[f] # ff[q].w
          /\ \A r \in Procs : pc[r] = "pipeclose" /\ ff[r].pi = ff[q].pi /\ ff[r].w = ff[q].w
               => r = q
      BY DEF IInv, OnePipeClose
    <2>2. ASSUME NEW f \in File, pipe'[f] = ff[q].pi PROVE writable'[f] # ff[q].w
      <3>1. f \notin {f0, f1}
        BY <1>3, <1>12, <2>2
      <3>2. pipe[f] = ff[q].pi /\ writable'[f] = writable[f]
        BY <1>3, <1>4, <2>2, <3>1
      <3> QED
        BY <2>1, <3>2
    <2> QED
      BY <2>1, <2>2
  <1>16. ASSUME NEW v \in BOOLEAN, NEW po
         PROVE  po \in Ends(v)' <=> po \in Ends(v) \/ po = pi
    <2>1. po \in Ends(v)' <=>
              \/ \E f \in File : pipe'[f] = po /\ po # NoPipe /\ writable'[f] = v
              \/ \E q \in Procs : pc[q] = "pipeclose" /\ ff[q].w = v /\ ff[q].pi = po
      BY <1>14, EndsAre
    <2>2. po \in Ends(v) <=>
              \/ \E f \in File : pipe[f] = po /\ po # NoPipe /\ writable[f] = v
              \/ \E q \in Procs : pc[q] = "pipeclose" /\ ff[q].w = v /\ ff[q].pi = po
      BY EndsAre
    <2>3. (\E f \in File : pipe'[f] = po /\ po # NoPipe /\ writable'[f] = v)
            <=> \/ po = pi
                \/ \E f \in File : pipe[f] = po /\ po # NoPipe /\ writable[f] = v
      <3>1. CASE po = pi
        <4>1. pi # NoPipe
          BY Constants
        <4>2. CASE v = TRUE
          BY <1>3, <1>4, <3>1, <4>1, <4>2
        <4>3. CASE v = FALSE
          BY <1>3, <1>4, <3>1, <4>1, <4>3
        <4> QED
          BY <4>2, <4>3
      <3>2. CASE po # pi
        BY <1>3, <1>4, <1>9, <3>2
      <3> QED
        BY <3>1, <3>2
    <2> QED
      BY <2>1, <2>2, <2>3
  <1>17. EndsOpen'
    <2>1. \A v \in BOOLEAN : Ends(v)' = Ends(v) \cup {pi}
      BY <1>16
    <2>2. readopen' = Ends(FALSE)' /\ writeopen' = Ends(TRUE)'
      BY <1>1, <2>1 DEF IInv, EndsOpen
    <2>3. pages' = Pages \ (readopen' \cup writeopen')
      BY <1>1 DEF IInv, EndsOpen
    <2> QED
      BY <2>2, <2>3 DEF EndsOpen
  <1>18. Counted'
    <2>1. ASSUME NEW g \in File, ref[g] = 0 PROVE pipe'[g] = NoPipe
      <3>1. pipe[g] = NoPipe /\ Holders(g) = {}
        BY <2>1, SoleHolder DEF IInv, Counted
      <3>2. g \notin Pending(p)
        BY <3>1, HoldersAre
      <3> QED
        BY <1>3, <3>1, <3>2
    <2> QED
      BY <2>1 DEF Counted
  <1>19. CallsHold' /\ NoLostWakeup'
    <2>1. ASSUME NEW q \in Procs, pc'[q] \in InCall
          PROVE  /\ pc'[q] = pc[q] /\ arg'[q] = arg[q] /\ ofile'[q] = ofile[q]
                 /\ pipe'[arg[q].f] = pipe[arg[q].f] /\ writable'[arg[q].f] = writable[arg[q].f]
      <3>1. q # p /\ pc[q] \in InCall /\ pc'[q] = pc[q]
        BY <1>2, <2>1 DEF InCall
      <3>2. arg[q].f \in File /\ arg[q].f \notin {f0, f1}
        BY <1>10, <3>1 DEF IInv, CallsHold
      <3> QED
        BY <1>3, <1>4, <3>1, <3>2
    <2>2. UNCHANGED <<nread, nwrite, abandoned>> /\ readopen \subseteq readopen'
          /\ writeopen \subseteq writeopen'
      BY <1>1
    <2> QED
      BY <2>1, <2>2, CallsGoOn
  <1> QED
    BY <1>5, <1>6, <1>7, <1>11, <1>13, <1>15, <1>17, <1>18, <1>19 DEF IInv

LEMMA SysPipeIInv == ASSUME IInv, NEW p \in Procs, NEW pi \in Pages, SysPipe(p, pi) PROVE IInv'
  <1>1. PICK f0 \in File, f1 \in File :
          /\ f0 = todo[p][1] /\ f1 = todo[p][2] /\ f0 # f1 /\ Range(todo[p]) = {f0, f1}
          /\ Len(todo[p]) = 2
    <2>1. Len(todo[p]) = 2 /\ todo[p][1] # todo[p][2] /\ todo[p] \in Seq(File)
      BY DEF SysPipe, IInv, TodoOK, TodoAt, TypeOK
    <2>2. Len(todo[p]) <= 2
      BY <2>1
    <2>3. Range(todo[p]) = {todo[p][1], todo[p][2]}
      BY <2>1, <2>2, TodoRange, Zenon
    <2>4. todo[p][1] \in File /\ todo[p][2] \in File
      BY <2>1
    <2> QED
      BY <2>1, <2>3, <2>4, Zenon
  <1>2. /\ pc[p] = "page" /\ NewPipe(pi, f0, f1)
        /\ UNCHANGED <<ref, nread, nwrite, data, killed, arg, ff, abandoned>>
    BY <1>1 DEF SysPipe
  <1>3. Pending(p) = {f0, f1}
    BY <1>1, <1>2 DEF Pending
  <1>4. \A q \in Procs : \A fd \in Fds : ofile[q][fd] \notin {f0, f1}
    BY <1>3 DEF IInv, PendingOwn
  <1>5. \A q \in Procs \ {p} : f0 \notin Pending(q) /\ f1 \notin Pending(q)
    BY <1>3 DEF IInv, PendingOwn
  <1>6. ASSUME NEW g \in File PROVE ref[g] = Cardinality(Holders(g))
    BY DEF IInv, Counted
  <1>7. ASSUME NEW to, Goto(p, to)
        PROVE  /\ pc'[p] = to /\ \A q \in Procs \ {p} : pc'[q] = pc[q]
    BY <1>7 DEF Goto, IInv, TypeOK
  <1>8. ASSUME Goto(p, "close"), UNCHANGED <<ofile, todo>>
        PROVE  IInv'
    <2>1. \A q \in Procs : Pending(q)' = Pending(q)
      BY <1>2, <1>7, <1>8 DEF Pending
    <2>2. \A g \in File : Holders(g)' = Holders(g)
      BY <1>8, <2>1 DEF Holders
    <2>3. PendingOwn'
      BY <1>8, <2>1 DEF IInv, PendingOwn
    <2>4. TodoAt(p)'
      <3>1. pc'[p] = "close" /\ Len(todo'[p]) = 2 /\ todo'[p][1] # todo'[p][2]
        BY <1>1, <1>7, <1>8
      <3> QED
        BY <3>1 DEF TodoAt
    <2>5. /\ ofile' \in [Procs -> [Fds -> File \cup {None}]] /\ todo' \in [Procs -> Seq(File)]
          /\ \A q \in Procs \ {p} : ofile'[q] = ofile[q] /\ todo'[q] = todo[q]
          /\ \A fd \in Fds : ofile'[p][fd] \in {ofile[p][fd], f0, f1}
      BY <1>8 DEF IInv, TypeOK
    <2>6. \A g \in File : ref[g] = Cardinality(Holders(g)')
      BY <1>6, <2>2
    <2>7. f0 \in Pending(p) /\ f1 \in Pending(p) /\ f0 # f1
      BY <1>1, <1>3
    <2> QED
      BY <1>2, <1>8, <2>3, <2>4, <2>5, <2>6, <2>7, NewPipeIInv
  <1>9. ASSUME NEW d0 \in Fds, NEW d1 \in Fds, d0 # d1,
               ofile[p][d0] = None, ofile[p][d1] = None,
               ofile' = [ofile EXCEPT ![p][d0] = f0, ![p][d1] = f1],
               todo' = [todo EXCEPT ![p] = << >>], Goto(p, "user")
        PROVE  IInv'
    <2>1. /\ ofile' \in [Procs -> [Fds -> File \cup {None}]]
          /\ \A q \in Procs \ {p} : ofile'[q] = ofile[q]
          /\ \A fd \in Fds : ofile'[p][fd] =
               IF fd = d0 THEN f0 ELSE IF fd = d1 THEN f1 ELSE ofile[p][fd]
      <3>1. ofile \in [Procs -> [Fds -> File \cup {None}]]
        BY DEF IInv, TypeOK
      <3>2. ofile[p] \in [Fds -> File \cup {None}]
        BY <3>1
      <3>3. PICK o : o = [[ofile[p] EXCEPT ![d0] = f0] EXCEPT ![d1] = f1]
        OBVIOUS
      <3>4. /\ o \in [Fds -> File \cup {None}]
            /\ \A fd \in Fds : o[fd] =
                 IF fd = d0 THEN f0 ELSE IF fd = d1 THEN f1 ELSE ofile[p][fd]
        BY <1>9, <3>2, <3>3
      <3>5. ofile' = [ofile EXCEPT ![p] = o]
        BY <1>9, <3>1, <3>2, <3>3
      <3> QED
        BY <3>1, <3>4, <3>5
    <2>2. /\ todo' \in [Procs -> Seq(File)] /\ todo'[p] = << >>
          /\ \A q \in Procs \ {p} : todo'[q] = todo[q]
      BY <1>9 DEF IInv, TypeOK
    <2>3. Range(todo'[p]) = {} /\ Len(todo'[p]) = 0
      BY <2>2 DEF Range
    <2>4. Pending(p)' = {} /\ \A q \in Procs \ {p} : Pending(q)' = Pending(q)
      BY <1>2, <1>7, <1>9, <2>2, <2>3 DEF Pending
    <2>5. PendingOwn'
      <3> SUFFICES ASSUME NEW q \in Procs, NEW r \in Procs, NEW g \in Pending(q)'
                   PROVE  /\ g \in Pending(r)' => q = r
                          /\ \A fd \in Fds : ofile'[r][fd] # g
        BY DEF PendingOwn
      <3>1. q # p /\ g \in Pending(q) /\ g \notin {f0, f1}
        BY <1>5, <2>4
      <3>2. (g \in Pending(r) => q = r) /\ \A fd \in Fds : ofile[r][fd] # g
        BY <3>1 DEF IInv, PendingOwn
      <3>3. g \in Pending(r)' => g \in Pending(r)
        BY <2>4
      <3> QED
        BY <2>1, <3>1, <3>2, <3>3
    <2>6. TodoAt(p)'
      BY <1>7, <1>9, <2>2, <2>3 DEF TodoAt
    <2>7. ASSUME NEW g \in File, g \notin {f0, f1} PROVE Holders(g)' = Holders(g)
      <3>1. ASSUME NEW x PROVE x \in Holders(g)' <=> x \in Holders(g)
        <4>1. CASE x \notin Procs \X (Fds \cup {NOFILE})
          BY <4>1 DEF Holders
        <4>2. ASSUME NEW q \in Procs, NEW s \in Fds \cup {NOFILE}, x = <<q, s>>
              PROVE  x \in Holders(g)' <=> x \in Holders(g)
          <5>1. CASE s = NOFILE
            <6>1. g \in Pending(q)' <=> g \in Pending(q)
              BY <1>3, <2>4, <2>7
            <6> QED
              BY <4>2, <5>1, <6>1 DEF Holders
          <5>2. CASE s # NOFILE
            <6>1. ofile'[q][s] = g <=> ofile[q][s] = g
              BY <1>9, <2>1, <2>7, <4>2, <5>2, Constants
            <6> QED
              BY <4>2, <5>2, <6>1 DEF Holders
          <5> QED
            BY <5>1, <5>2
        <4> QED
          BY <4>1, <4>2
      <3> QED
        BY <3>1
    <2>8. ASSUME NEW f \in {f0, f1}
          PROVE  Holders(f) = {<<p, NOFILE>>} /\ \E d \in Fds : Holders(f)' = {<<p, d>>}
      <3>1. ASSUME NEW x PROVE x \in Holders(f) <=> x = <<p, NOFILE>>
        <4>1. CASE x \notin Procs \X (Fds \cup {NOFILE})
          BY <4>1 DEF Holders
        <4>2. ASSUME NEW q \in Procs, NEW s \in Fds \cup {NOFILE}, x = <<q, s>>
              PROVE  x \in Holders(f) <=> x = <<p, NOFILE>>
          <5>1. CASE s = NOFILE
            <6>1. x \in Holders(f) <=> f \in Pending(q)
              BY <4>2, <5>1 DEF Holders
            <6> QED
              BY <1>3, <1>5, <4>2, <5>1, <6>1
          <5>2. CASE s # NOFILE
            <6>1. x \notin Holders(f)
              BY <1>4, <4>2, <5>2 DEF Holders
            <6> QED
              BY <4>2, <5>2, <6>1
          <5> QED
            BY <5>1, <5>2
        <4> QED
          BY <4>1, <4>2
      <3>2. PICK d \in Fds : \A fd \in Fds : ofile'[p][fd] = f <=> fd = d
        <4>1. \A fd \in Fds : ofile[p][fd] # f0 /\ ofile[p][fd] # f1
          BY <1>4
        <4>2. CASE f = f0
          BY <1>1, <2>1, <4>1, <4>2
        <4>3. CASE f = f1
          BY <1>1, <1>9, <2>1, <4>1, <4>3
        <4> QED
          BY <4>2, <4>3
      <3>3. ASSUME NEW x PROVE x \in Holders(f)' <=> x = <<p, d>>
        <4>1. CASE x \notin Procs \X (Fds \cup {NOFILE})
          BY <4>1 DEF Holders
        <4>2. ASSUME NEW q \in Procs, NEW s \in Fds \cup {NOFILE}, x = <<q, s>>
              PROVE  x \in Holders(f)' <=> x = <<p, d>>
          <5>1. CASE s = NOFILE
            <6>1. x \in Holders(f)' <=> f \in Pending(q)'
              BY <4>2, <5>1 DEF Holders
            <6>2. f \notin Pending(q)'
              BY <1>5, <2>4
            <6> QED
              BY <4>2, <5>1, <6>1, <6>2, Constants
          <5>2. CASE s # NOFILE
            <6>1. x \in Holders(f)' <=> ofile'[q][s] = f
              BY <4>2, <5>2 DEF Holders
            <6>2. ofile'[q][s] = f <=> q = p /\ s = d
              <7>1. CASE q = p
                BY <3>2, <5>2, <7>1
              <7>2. CASE q # p
                BY <1>4, <2>1, <5>2, <7>2
              <7> QED
                BY <7>1, <7>2
            <6> QED
              BY <4>2, <6>1, <6>2
          <5> QED
            BY <5>1, <5>2
        <4> QED
          BY <4>1, <4>2
      <3>4. Holders(f) = {<<p, NOFILE>>}
        BY <3>1
      <3>5. Holders(f)' = {<<p, d>>}
        BY <3>3
      <3> QED
        BY <3>4, <3>5
    <2>9. ASSUME NEW g \in File PROVE ref[g] = Cardinality(Holders(g)')
      <3>1. CASE g \notin {f0, f1}
        BY <1>6, <2>7, <3>1
      <3>2. CASE g \in {f0, f1}
        <4>1. Holders(g) = {<<p, NOFILE>>}
          BY <2>8, <3>2
        <4>2. PICK d \in Fds : Holders(g)' = {<<p, d>>}
          BY <2>8, <3>2
        <4>3. Cardinality({<<p, NOFILE>>}) = 1 /\ Cardinality({<<p, d>>}) = 1
          BY FS_Singleton
        <4> QED
          BY <1>6, <4>1, <4>2, <4>3
      <3> QED
        BY <3>1, <3>2
    <2>10. /\ f0 \in Pending(p) /\ f1 \in Pending(p) /\ f0 # f1
           /\ \A fd \in Fds : ofile'[p][fd] \in {ofile[p][fd], f0, f1}
           /\ \A q \in Procs \ {p} : ofile'[q] = ofile[q] /\ todo'[q] = todo[q]
      BY <1>1, <1>3, <2>1, <2>2
    <2> QED
      BY <1>2, <1>9, <2>1, <2>2, <2>5, <2>6, <2>9, <2>10, NewPipeIInv
  <1>10. ASSUME Cardinality(FreeFds(p)) >= 2
         PROVE  /\ FdAlloc(p) \in Fds /\ ofile[p][FdAlloc(p)] = None
                /\ Min(FreeFds(p) \ {FdAlloc(p)}) \in Fds
                /\ ofile[p][Min(FreeFds(p) \ {FdAlloc(p)})] = None
                /\ Min(FreeFds(p) \ {FdAlloc(p)}) # FdAlloc(p)
    <2>1. IsFiniteSet(FreeFds(p)) /\ FreeFds(p) \subseteq Nat
      BY Constants, FS_Subset DEF FreeFds
    <2>2. FreeFds(p) # {}
      BY <1>10, FS_EmptySet
    <2>3. FdAlloc(p) \in FreeFds(p)
      BY <2>1, <2>2, MinInSet DEF FdAlloc
    <2>4. Cardinality(FreeFds(p) \ {FdAlloc(p)}) = Cardinality(FreeFds(p)) - 1
      BY <2>1, <2>3, FS_RemoveElement
    <2>5. FreeFds(p) \ {FdAlloc(p)} # {}
      <3>1. Cardinality({}) = 0 /\ Cardinality(FreeFds(p)) \in Nat
        BY <2>1, FS_EmptySet, FS_CardinalityType
      <3> QED
        BY <1>10, <2>4, <3>1
    <2>6. Min(FreeFds(p) \ {FdAlloc(p)}) \in FreeFds(p) \ {FdAlloc(p)}
      BY <2>1, <2>5, MinInSet
    <2> QED
      BY <2>3, <2>6 DEF FreeFds
  <1>11. CASE Goto(p, "close") /\ UNCHANGED <<ofile, todo>>
    BY <1>8, <1>11
  <1>12. CASE /\ Cardinality(FreeFds(p)) >= 2
              /\ ofile' = [ofile EXCEPT ![p][FdAlloc(p)] = f0,
                                        ![p][Min(FreeFds(p) \ {FdAlloc(p)})] = f1]
              /\ todo' = [todo EXCEPT ![p] = << >>]
              /\ Goto(p, "user")
    BY <1>9, <1>10, <1>12
  <1> QED
    BY <1>1, <1>11, <1>12 DEF SysPipe

(***************************************************************************)
(* The theorems.                                                           *)
(***************************************************************************)

LEMMA InitIInv == ASSUME Init PROVE IInv
  <1>1. PICK p0 \in Procs : pc = [q \in Procs |-> IF q = p0 THEN "user" ELSE "unused"]
    BY DEF Init
  <1>2. \A q \in Procs : pc[q] \in {"user", "unused"}
    BY <1>1
  <1>3. \A q \in Procs : todo[q] = << >> /\ Range(todo[q]) = {}
    BY DEF Init, Range
  <1>4. \A q \in Procs : Pending(q) = {}
    BY <1>2, <1>3 DEF Pending
  <1>5. \A q \in Procs, fd \in Fds : ofile[q][fd] = None
    BY DEF Init
  <1>6. \A f \in File : ref[f] = 0 /\ pipe[f] = NoPipe
    BY DEF Init
  <1>7. TypeOK
    <2>1. ref \in [File -> Nat] /\ pipe \in [File -> Pages \cup {NoPipe}]
          /\ ofile \in [Procs -> [Fds -> File \cup {None}]]
      BY DEF Init
    <2>2. nread \in [Pages -> 0..(WRAP - 1)] /\ nwrite \in [Pages -> 0..(WRAP - 1)]
      BY Constants DEF Init
    <2>3. data \in [Pages -> [0..(PIPESIZE - 1) -> Bytes]]
      BY JunkType DEF Init
    <2>4. pc \in [Procs -> Labels]
      BY <1>1 DEF Labels
    <2>5. arg \in [Procs -> [f : File \cup {None}, n : Nat]] /\ todo \in [Procs -> Seq(File)]
      BY DEF Init, NoArg
    <2>6. /\ ff \in [Procs -> [pi : Pages \cup {NoPipe}, w : BOOLEAN, next : Labels]]
          /\ writable \in [File -> BOOLEAN]
      BY DEF Init, NoFf, Labels
    <2>7. /\ readopen \subseteq Pages /\ writeopen \subseteq Pages
          /\ pages \subseteq Pages /\ abandoned \subseteq Pages /\ killed \subseteq Procs
      BY DEF Init
    <2> QED
      BY <2>1, <2>2, <2>3, <2>4, <2>5, <2>6, <2>7 DEF TypeOK
  <1>8. TodoOK
    <2> SUFFICES ASSUME NEW q \in Procs PROVE TodoAt(q)
      BY DEF TodoOK
    <2>1. todo[q] = << >> /\ Len(todo[q]) = 0
      BY <1>3
    <2>2. pc[q] \in {"user", "unused"}
      BY <1>2
    <2> QED
      BY <2>1, <2>2 DEF TodoAt
  <1>9. UnusedClosed /\ PendingOwn /\ OpenHavePipe /\ OneFileAnEnd
    BY <1>2, <1>4, <1>5, <1>6 DEF UnusedClosed, PendingOwn, OpenHavePipe, OneFileAnEnd
  <1>10. OnePipeClose /\ CallsHold /\ NoLostWakeup
    BY <1>2 DEF OnePipeClose, CallsHold, NoLostWakeup, InCall
  <1>11. Counted
    <2> SUFFICES ASSUME NEW f \in File PROVE ref[f] = Cardinality(Holders(f))
      BY <1>6 DEF Counted
    <2>1. \A h : h \notin Holders(f)
      BY <1>4, <1>5, HoldersAre, Constants
    <2>2. Holders(f) = {}
      BY <2>1
    <2> QED
      BY <1>6, <2>2, FS_EmptySet
  <1>12. EndsOpen
    <2>1. Ends(TRUE) = {} /\ Ends(FALSE) = {}
      BY <1>2, <1>6 DEF Ends
    <2> QED
      BY <2>1 DEF EndsOpen, Init
  <1> QED
    BY <1>7, <1>8, <1>9, <1>10, <1>11, <1>12 DEF IInv

LEMMA StutterIInv == ASSUME IInv, UNCHANGED vars PROVE IInv'
  <1>1. UNCHANGED <<ref, pipe, writable, ofile, nread, nwrite, data, readopen, writeopen,
                    pages, killed, pc, arg, todo, ff, abandoned>>
    BY DEF vars, fileVars, pipeVars, callVars
  <1>2. TypeOK' /\ TodoOK' /\ UnusedClosed' /\ OneFileAnEnd' /\ OnePipeClose' /\ CallsHold'
    BY <1>1 DEF IInv, TypeOK, TodoOK, TodoAt, UnusedClosed, OneFileAnEnd, OnePipeClose, CallsHold
  <1>3. \A q \in Procs : Pending(q)' = Pending(q)
    BY <1>1 DEF Pending
  <1>4. PendingOwn' /\ OpenHavePipe'
    BY <1>1, <1>3 DEF IInv, PendingOwn, OpenHavePipe
  <1>5. \A f \in File : Holders(f)' = Holders(f)
    BY <1>1, <1>3 DEF Holders
  <1>6. Counted' /\ EndsOpen'
    BY <1>1, <1>5 DEF IInv, Counted, EndsOpen, Ends
  <1>7. NoLostWakeup'
    BY <1>1 DEF IInv, NoLostWakeup, PipeOf, Empty, Full
  <1> QED
    BY <1>2, <1>4, <1>6, <1>7 DEF IInv

LEMMA NextIInv == ASSUME IInv, [Next]_vars PROVE IInv'
  <1>1. CASE UNCHANGED vars
    BY <1>1, StutterIInv
  <1>2. ASSUME NEW p \in Procs,
               \/ \E f \in File : PipeAllocFirst(p, f)
               \/ PipeAllocSecond(p) \/ PipeAllocFails(p)
               \/ \E pi \in Pages : SysPipe(p, pi)
        PROVE  IInv'
    BY <1>2, PipeAllocFirstIInv, PipeAllocSecondIInv, PipeAllocFailsIInv, SysPipeIInv
  <1>3. ASSUME NEW p \in Procs, CloseNext(p) \/ PipeClose(p) \/ WriteFails(p) \/ Exit(p) \/ Kill(p)
        PROVE  IInv'
    BY <1>3, CloseNextIInv, PipeCloseIInv, WriteFailsIInv, ExitIInv, KillIInv
  <1>4. ASSUME NEW p \in Procs, NEW fd \in Fds, SysDup(p, fd) \/ SysClose(p, fd) \/ ExitClose(p, fd)
        PROVE  IInv'
    BY <1>4, SysDupIInv, SysCloseIInv, ExitCloseIInv
  <1>5. ASSUME NEW p \in Procs, NEW c \in Calls(p, TRUE), NEW k \in 0..PIPESIZE,
               NEW hit \in BOOLEAN, PipeWrite(p, c, k, hit)
        PROVE  IInv'
    BY <1>5, PipeWriteIInv
  <1>6. ASSUME NEW p \in Procs, NEW c \in Calls(p, FALSE), NEW hit \in BOOLEAN,
               ReadEmpty(p, c, hit)
        PROVE  IInv'
    BY <1>6, ReadEmptyIInv
  <1>7. ASSUME NEW p \in Procs, NEW c \in Calls(p, FALSE), NEW k \in 0..PIPESIZE,
               ReadCopy(p, c, k)
        PROVE  IInv'
    BY <1>7, ReadCopyIInv
  <1>8. ASSUME NEW p \in Procs, NEW np \in Procs, Fork(p, np) PROVE IInv'
    BY <1>8, ForkIInv
  <1> QED
    BY <1>1, <1>2, <1>3, <1>4, <1>5, <1>6, <1>7, <1>8 DEF Next

\* Every step of every call on files, pipes and descriptors keeps the invariant
\* above.
THEOREM Invariance == Spec => []IInv
  <1>1. Init => IInv
    BY InitIInv
  <1>2. IInv /\ [Next]_vars => IInv'
    BY NextIInv
  <1> QED
    BY <1>1, <1>2, PTL DEF Spec

LEMMA ExactFromIInv == ASSUME IInv PROVE FilesExact
  <1>1. \A p, q \in Procs :
          /\ pc[p] = "pipeclose" /\ pc[q] = "pipeclose" /\ p # q => ff[p] # ff[q]
          /\ pc[p] = "pipeclose" =>
               \A f \in File : pipe[f] = ff[p].pi => writable[f] # ff[p].w
    BY DEF IInv, OnePipeClose
  <1>2. ASSUME NEW p \in Procs, pc[p] \in InCall
        PROVE  pipe[arg[p].f] # NoPipe /\ \E fd \in Fds : ofile[p][fd] = arg[p].f
    <2>1. PipeOf(p) \in Pages
      BY <1>2, InCallPipe DEF IInv, FInv
    <2> QED
      BY <1>2, <2>1, Constants DEF IInv, CallsHold, PipeOf
  <1> QED
    BY <1>1, <1>2 DEF IInv, Counted, EndsOpen, FilesExact

\* With any number of processes that open, share, close and are killed on pipes
\* in any order, filedup(), fileclose(), pipeclose() and the error paths of
\* pipealloc() and sys_pipe() neither leak an entry of ftable or a page nor free
\* one twice, and no call uses an entry that was reused.
THEOREM FilesCounted == Spec => []FilesExact
  <1>1. IInv => FilesExact
    BY ExactFromIInv
  <1> QED
    BY <1>1, Invariance, PTL

\* Whatever the sizes of the ring and of the calls, a process that sleeps in
\* piperead() has nothing to read, or only bytes of a writer that was killed
\* before its wakeup(), and one that sleeps in pipewrite() has no room, each
\* with its other end open.
THEOREM WakeupsReach == Spec => []NoLostWakeup
  <1>1. IInv => NoLostWakeup
    BY DEF IInv
  <1> QED
    BY <1>1, Invariance, PTL

(***************************************************************************)
(* A pipe is a queue: the arithmetic of its ring.                          *)
(***************************************************************************)

LEMMA DivMod ==
  ASSUME NEW s \in Nat, NEW b \in Nat, b > 0
  PROVE  /\ s % b \in 0..(b - 1)
         /\ \E q \in Nat : s = b * q + (s % b)
  <1>1. s % b \in 0..(b - 1)
    OBVIOUS
  <1>2. s \div b \in Int
    OBVIOUS
  <1>3. s = b * (s \div b) + (s % b)
    OBVIOUS
  <1>4. PICK q \in Int : q = s \div b
    BY <1>2
  <1>5. PICK x \in 0..(b - 1) : x = s % b
    BY <1>1
  <1>6. s = b * q + x
    BY <1>3, <1>4, <1>5
  <1>7. ASSUME q < 0 PROVE FALSE
    <2>1. PICK d \in Nat : q = -1 - d
      BY <1>7
    <2>2. b * q = -b - b * d /\ b * d \in Nat
      BY <2>1
    <2> QED
      BY <1>6, <2>2
  <1> QED
    BY <1>1, <1>5, <1>6, <1>7

\* Quotient and remainder are unique.
LEMMA Remainder ==
  ASSUME NEW b \in Nat, b > 0, NEW q \in Int, NEW u \in Int,
         NEW x \in 0..(b - 1), NEW y \in 0..(b - 1), b * q + x = b * u + y
  PROVE  x = y
  <1>1. b * (q - u) = y - x /\ b * (u - q) = x - y
    OBVIOUS
  <1>2. ASSUME q > u PROVE FALSE
    <2>1. PICK d \in Nat : q - u = d + 1
      BY <1>2
    <2>2. b * (d + 1) = b * d + b /\ b * d \in Nat
      OBVIOUS
    <2> QED
      BY <1>1, <2>1, <2>2
  <1>3. ASSUME u > q PROVE FALSE
    <2>1. PICK d \in Nat : u - q = d + 1
      BY <1>3
    <2>2. b * (d + 1) = b * d + b /\ b * d \in Nat
      OBVIOUS
    <2> QED
      BY <1>1, <2>1, <2>2
  <1> QED
    BY <1>1, <1>2, <1>3

\* A counter that wraps at a multiple of the ring's size keeps its place.
LEMMA WrapKeepsPlace ==
  ASSUME NEW s \in Nat, NEW v \in Nat, NEW b \in Nat, b > 0, v % b = 0
  PROVE  (s + v) % b = s % b
  <1>1. PICK m \in Nat : v = b * m
    <2>1. PICK m \in Nat : v = b * m + (v % b)
      BY DivMod
    <2> QED
      BY <2>1
  <1>2. PICK q \in Nat : s = b * q + (s % b)
    BY DivMod
  <1>3. PICK x \in 0..(b - 1) : x = s % b
    BY DivMod
  <1>4. PICK t \in Nat : t = s + v
    OBVIOUS
  <1>5. PICK u \in Nat : t = b * u + (t % b)
    BY DivMod
  <1>6. PICK y \in 0..(b - 1) : y = t % b
    BY DivMod
  <1>7. b * (q + m) = b * q + b * m
    OBVIOUS
  <1>8. b * (q + m) + x = b * u + y
    BY <1>1, <1>2, <1>3, <1>4, <1>5, <1>6, <1>7
  <1>9. x = y
    BY <1>8, Remainder
  <1> QED
    BY <1>3, <1>4, <1>6, <1>9

\* Counters less than a ring apart have different places.
LEMMA PlacesDiffer ==
  ASSUME NEW s \in Nat, NEW t \in Nat, NEW b \in Nat, b > 0, s < t, t < s + b
  PROVE  s % b # t % b
  <1> SUFFICES ASSUME s % b = t % b PROVE FALSE
    OBVIOUS
  <1>1. PICK q \in Nat : s = b * q + (s % b)
    BY DivMod
  <1>2. PICK u \in Nat : t = b * u + (t % b)
    BY DivMod
  <1>3. PICK x \in 0..(b - 1) : x = s % b
    BY DivMod
  <1>4. PICK d \in 0..(b - 1) : d = t - s
    OBVIOUS
  <1>5. b * u + 0 = b * q + d
    BY <1>1, <1>2, <1>3, <1>4
  <1>6. 0 \in 0..(b - 1)
    OBVIOUS
  <1>7. 0 = d
    BY <1>5, <1>6, Remainder
  <1> QED
    BY <1>4, <1>7

\* The place of what comes j after a counter that may have wrapped.
LEMMA PlaceAfter ==
  ASSUME NEW s \in Nat, s < 2 * WRAP, NEW j \in Nat
  PROVE  ((s % WRAP) + j) % PIPESIZE = (s + j) % PIPESIZE
  <1>1. /\ PIPESIZE \in Nat /\ PIPESIZE > 0 /\ WRAP \in Nat /\ WRAP > 0
        /\ WRAP % PIPESIZE = 0
    BY Constants, PipeAssumption
  <1>2. CASE s < WRAP
    BY <1>1, <1>2, Wraps
  <1>3. CASE ~(s < WRAP)
    <2>1. PICK v \in Nat : v = s % WRAP /\ s = v + WRAP
      BY <1>1, <1>3, Wraps
    <2>2. PICK t \in Nat : t = v + j
      OBVIOUS
    <2>3. (t + WRAP) % PIPESIZE = t % PIPESIZE
      BY <1>1, WrapKeepsPlace, Zenon
    <2>4. s + j = t + WRAP
      BY <1>1, <2>1, <2>2
    <2> QED
      BY <2>1, <2>2, <2>3, <2>4
  <1> QED
    BY <1>2, <1>3

-----------------------------------------------------------------------------

\* n bytes of a ring d, from counter r on.
FromRing(d, r, n) == [i \in 1..n |-> d[(r + i - 1) % PIPESIZE]]

\* q is such a sequence.
IsRun(q, d, r, n) ==
  /\ q \in Seq(Bytes) /\ q \in [1..n -> Bytes] /\ Len(q) = n
  /\ \A i \in 1..n : q[i] = d[(r + i - 1) % PIPESIZE]

\* Counter w is n ahead of counter r, up to wraps of both.
Ahead(w, r, n) == \A j \in Nat : (w + j) % PIPESIZE = (r + n + j) % PIPESIZE

LEMMA AheadIs ==
  ASSUME NEW r \in 0..(WRAP - 1), NEW n \in 0..PIPESIZE, NEW w, w = (r + n) % WRAP
  PROVE  w \in 0..(WRAP - 1) /\ Ahead(w, r, n)
  <1>1. /\ WRAP \in Nat /\ WRAP > PIPESIZE
        /\ PIPESIZE \in Nat /\ PIPESIZE > 0
    BY Constants
  <1>2. PICK s \in Nat : s = r + n /\ s < 2 * WRAP
    BY <1>1
  <1>3. s % WRAP \in 0..(WRAP - 1)
    BY <1>1, Wraps
  <1>4. ASSUME NEW j \in Nat PROVE (w + j) % PIPESIZE = (r + n + j) % PIPESIZE
    <2>1. ((s % WRAP) + j) % PIPESIZE = (s + j) % PIPESIZE
      BY <1>2, PlaceAfter
    <2> QED
      BY <1>2, <2>1
  <1> QED
    BY <1>2, <1>3, <1>4 DEF Ahead

LEMMA FromRingIs ==
  ASSUME NEW d \in [0..(PIPESIZE - 1) -> Bytes], NEW r \in Nat, NEW n \in Nat
  PROVE  IsRun(FromRing(d, r, n), d, r, n)
  <1>1. ASSUME NEW i \in 1..n PROVE d[(r + i - 1) % PIPESIZE] \in Bytes
    <2>1. PICK s \in Nat : s = r + i - 1
      OBVIOUS
    <2>2. s % PIPESIZE \in 0..(PIPESIZE - 1)
      BY Wraps, Constants
    <2> QED
      BY <2>1, <2>2
  <1>2. FromRing(d, r, n) \in [1..n -> Bytes]
    BY <1>1 DEF FromRing
  <1>3. FromRing(d, r, n) \in Seq(Bytes)
    BY <1>2
  <1>4. Len(FromRing(d, r, n)) = n
    <2>1. DOMAIN FromRing(d, r, n) = 1..n
      BY <1>2
    <2> QED
      BY <1>3, <2>1, LenProperties
  <1>5. \A i \in 1..n : FromRing(d, r, n)[i] = d[(r + i - 1) % PIPESIZE]
    BY DEF FromRing
  <1> QED
    BY <1>2, <1>3, <1>4, <1>5 DEF IsRun

Dropped(q, k) == SubSeq(q, k + 1, Len(q))

\* What is left of the bytes of a ring when the first k are taken.
LEMMA RingTake ==
  ASSUME NEW d \in [0..(PIPESIZE - 1) -> Bytes], NEW r \in Nat, NEW v \in Nat,
         NEW n \in Nat, NEW k \in Nat, k <= n, Ahead(v, r, k), NEW left \in Nat, left = n - k
  PROVE  FromRing(d, v, left) = Dropped(FromRing(d, r, n), k)
  <1> DEFINE q == FromRing(d, r, n)
             s == FromRing(d, v, left)
             t == SubSeq(q, k + 1, n)
  <1>1. IsRun(q, d, r, n) /\ IsRun(s, d, v, left)
    BY FromRingIs
  <1> HIDE DEF q, s
  <1>2. /\ q \in [1..n -> Bytes] /\ Len(q) = n
        /\ \A i \in 1..n : q[i] = d[(r + i - 1) % PIPESIZE]
    BY <1>1 DEF IsRun
  <1>3. /\ s \in Seq(Bytes) /\ Len(s) = left
        /\ \A i \in 1..left : s[i] = d[(v + i - 1) % PIPESIZE]
    BY <1>1 DEF IsRun
  <1>4. /\ t \in Seq(Bytes) /\ Len(t) = left
        /\ \A i \in 1..left : t[i] = q[k + i]
    <2>1. PICK m \in Int : m = k + 1
      OBVIOUS
    <2>2. n \in Int /\ \A i \in m..n : q[i] \in Bytes
      BY <1>2, <2>1
    <2>3. /\ SubSeq(q, m, n) \in Seq(Bytes)
          /\ Len(SubSeq(q, m, n)) = IF m <= n THEN n - m + 1 ELSE 0
          /\ \A i \in 1..(n - m + 1) : SubSeq(q, m, n)[i] = q[m + i - 1]
      BY <2>2, SubSeqProperties
    <2>4. t = SubSeq(q, m, n)
      BY <2>1
    <2> HIDE DEF t
    <2>5. n - m + 1 = left /\ (IF m <= n THEN n - m + 1 ELSE 0) = left
      BY <2>1
    <2>6. \A i \in 1..left : m + i - 1 = k + i
      BY <2>1
    <2> QED
      BY <2>3, <2>4, <2>5, <2>6
  <1> HIDE DEF t
  <1>5. ASSUME NEW i \in 1..left PROVE s[i] = t[i]
    <2>1. PICK j \in Nat : j = i - 1
      OBVIOUS
    <2>2. (v + j) % PIPESIZE = (r + k + j) % PIPESIZE
      BY DEF Ahead
    <2>3. k + i \in 1..n /\ v + i - 1 = v + j /\ r + (k + i) - 1 = r + k + j
      BY <2>1
    <2>4. s[i] = d[(v + j) % PIPESIZE]
      BY <1>3, <2>3
    <2>5. t[i] = d[(r + k + j) % PIPESIZE]
      BY <1>2, <1>4, <2>3
    <2> QED
      BY <2>2, <2>4, <2>5
  <1>6. s = t
    BY <1>3, <1>4, <1>5, SeqEqual
  <1>7. t = Dropped(q, k)
    BY <1>2 DEF t, Dropped
  <1> QED
    BY <1>6, <1>7 DEF q, s

\* The k bytes that pipewrite() stores when nwrite is w.
Written(w, k) == [i \in 1..k |-> Stream[(w + i - 1) % WRAP]]

LEMMA WrittenIs ==
  ASSUME NEW w \in Nat, NEW k \in Nat
  PROVE  /\ Written(w, k) \in Seq(Bytes) /\ Written(w, k) \in [1..k -> Bytes]
         /\ Len(Written(w, k)) = k
         /\ \A i \in 1..k : Written(w, k)[i] = Stream[(w + i - 1) % WRAP]
  <1>1. ASSUME NEW i \in 1..k PROVE Stream[(w + i - 1) % WRAP] \in Bytes
    <2>1. PICK s \in Nat : s = w + i - 1
      OBVIOUS
    <2>2. s % WRAP \in 0..(WRAP - 1)
      BY Wraps, Constants
    <2> QED
      BY <2>1, <2>2, PipeAssumption
  <1>2. Written(w, k) \in [1..k -> Bytes]
    BY <1>1 DEF Written
  <1>3. Written(w, k) \in Seq(Bytes)
    BY <1>2
  <1>4. Len(Written(w, k)) = k
    <2>1. DOMAIN Written(w, k) = 1..k
      BY <1>2
    <2> QED
      BY <1>3, <2>1, LenProperties
  <1>5. \A i \in 1..k : Written(w, k)[i] = Stream[(w + i - 1) % WRAP]
    BY DEF Written
  <1> QED
    BY <1>2, <1>3, <1>4, <1>5

LEMMA RingPlaces ==
  /\ \A a, b \in Nat : a < b /\ b < a + PIPESIZE => a % PIPESIZE # b % PIPESIZE
  /\ \A a \in Nat : a % PIPESIZE \in 0..(PIPESIZE - 1)
  <1>1. PIPESIZE \in Nat /\ PIPESIZE > 0
    BY Constants
  <1>2. ASSUME NEW a \in Nat, NEW b \in Nat, a < b, b < a + PIPESIZE
        PROVE  a % PIPESIZE # b % PIPESIZE
    BY <1>1, <1>2, PlacesDiffer, Zenon
  <1>3. ASSUME NEW a \in Nat
        PROVE  a % PIPESIZE \in 0..(PIPESIZE - 1)
    BY <1>1, Wraps
  <1> QED
    BY <1>2, <1>3

\* Which of the k bytes stored at counter w go to place x.
NewAt(w, k, x) == {j \in 0..(k - 1) : (w + j) % PIPESIZE = x}

\* Ring d1 is ring d with k bytes stored at counter w, as Store() leaves it ...
IsStored(d, d1, w, k) ==
  \A x \in 0..(PIPESIZE - 1) :
    d1[x] = IF NewAt(w, k, x) = {} THEN d[x]
            ELSE Stream[(w + Min(NewAt(w, k, x))) % WRAP]

\* ... and as piperead() finds it: n old bytes from counter r on, then k new ones.
IsAppended(d, d1, r, n, w, k) ==
  /\ \A i \in 1..n : d1[(r + i - 1) % PIPESIZE] = d[(r + i - 1) % PIPESIZE]
  /\ \A m \in 0..(k - 1) : d1[(r + n + m) % PIPESIZE] = Stream[(w + m) % WRAP]

\* k bytes stored behind the n bytes of a ring that has room for them overwrite
\* none of these, and each other neither.
LEMMA StoredApart ==
  ASSUME NEW d \in [0..(PIPESIZE - 1) -> Bytes], NEW d1, NEW r \in Nat, NEW w \in Nat,
         NEW n \in Nat, NEW k \in Nat, n + k <= PIPESIZE, Ahead(w, r, n),
         IsStored(d, d1, w, k)
  PROVE  IsAppended(d, d1, r, n, w, k)
  <1>1. PIPESIZE \in Nat /\ PIPESIZE > 0
    BY Constants
  <1>2. ASSUME NEW j \in Nat PROVE (w + j) % PIPESIZE = (r + n + j) % PIPESIZE
    BY DEF Ahead
  <1>3. ASSUME NEW a \in Nat, NEW b \in Nat, a < b, b < a + PIPESIZE
        PROVE  a % PIPESIZE # b % PIPESIZE
    BY <1>3, RingPlaces, Zenon
  <1>4. ASSUME NEW a \in Nat
        PROVE  a % PIPESIZE \in 0..(PIPESIZE - 1)
    BY RingPlaces, Zenon
  <1>5. ASSUME NEW i \in 1..n
        PROVE  d1[(r + i - 1) % PIPESIZE] = d[(r + i - 1) % PIPESIZE]
    <2>1. PICK a \in Nat : a = r + i - 1
      BY <1>1
    <2>2. PICK x \in 0..(PIPESIZE - 1) : x = a % PIPESIZE
      BY <1>4
    <2>3. ASSUME NEW j \in 0..(k - 1) PROVE (w + j) % PIPESIZE # x
      <3>1. PICK b \in Nat : b = r + n + j
        BY <1>1
      <3>2. a < b /\ b < a + PIPESIZE
        BY <1>1, <2>1, <3>1
      <3>3. a % PIPESIZE # b % PIPESIZE
        BY <1>3, <3>2
      <3> QED
        BY <1>2, <2>2, <3>1, <3>3
    <2>4. NewAt(w, k, x) = {}
      BY <2>3 DEF NewAt
    <2>5. d1[x] = d[x]
      BY <2>4 DEF IsStored
    <2> QED
      BY <2>1, <2>2, <2>5
  <1>6. ASSUME NEW m \in 0..(k - 1)
        PROVE  d1[(r + n + m) % PIPESIZE] = Stream[(w + m) % WRAP]
    <2>1. PICK a \in Nat : a = r + n + m
      BY <1>1
    <2>2. PICK x \in 0..(PIPESIZE - 1) : x = a % PIPESIZE
      BY <1>4
    <2>3. NewAt(w, k, x) = {j \in 0..(k - 1) : (w + j) % PIPESIZE = x}
      BY DEF NewAt
    <2>4. m \in NewAt(w, k, x)
      <3>1. m \in Nat
        OBVIOUS
      <3>2. (w + m) % PIPESIZE = (r + n + m) % PIPESIZE
        BY <1>2, <3>1, Zenon
      <3>3. (w + m) % PIPESIZE = x
        BY <2>1, <2>2, <3>2
      <3> QED
        BY <2>3, <3>3
    <2>5. NewAt(w, k, x) \subseteq Nat
      BY <2>3
    <2>6. PICK j \in NewAt(w, k, x) : j = Min(NewAt(w, k, x))
      BY <2>4, <2>5, MinInSet
    <2>7. j \in 0..(k - 1) /\ (w + j) % PIPESIZE = x
      BY <2>3
    <2>8. j = m
      <3>1. PICK b \in Nat : b = r + n + j
        BY <1>1, <2>7
      <3>2. b % PIPESIZE = a % PIPESIZE
        BY <1>2, <2>2, <2>7, <3>1
      <3>3. a < b + PIPESIZE /\ b < a + PIPESIZE
        BY <1>1, <2>1, <2>7, <3>1
      <3>4. ~(a < b)
        BY <1>3, <3>2, <3>3
      <3>5. ~(b < a)
        BY <1>3, <3>2, <3>3
      <3> QED
        BY <1>1, <2>1, <2>7, <3>1, <3>4, <3>5
    <2>9. d1[x] = Stream[(w + m) % WRAP]
      BY <2>4, <2>6, <2>8 DEF IsStored
    <2> QED
      BY <2>1, <2>2, <2>9
  <1> QED
    BY <1>5, <1>6 DEF IsAppended

Joined(q, z) == q \o z

LEMMA RingInsert ==
  ASSUME NEW d \in [0..(PIPESIZE - 1) -> Bytes], NEW d1 \in [0..(PIPESIZE - 1) -> Bytes],
         NEW r \in Nat, NEW w \in Nat, NEW n \in Nat, NEW k \in Nat,
         IsAppended(d, d1, r, n, w, k), NEW nk \in Nat, nk = n + k
  PROVE  FromRing(d1, r, nk) = Joined(FromRing(d, r, n), Written(w, k))
  <1> DEFINE q == FromRing(d, r, n)
             z == Written(w, k)
             s == FromRing(d1, r, nk)
             t == q \o z
  <1>1. /\ q \in Seq(Bytes) /\ Len(q) = n
        /\ \A i \in 1..n : q[i] = d[(r + i - 1) % PIPESIZE]
    <2>1. IsRun(q, d, r, n)
      BY FromRingIs
    <2> QED
      BY <2>1, Zenon DEF IsRun
  <1>2. /\ z \in Seq(Bytes) /\ Len(z) = k
        /\ \A i \in 1..k : z[i] = Stream[(w + i - 1) % WRAP]
    BY WrittenIs, Zenon
  <1>3. /\ s \in Seq(Bytes) /\ Len(s) = nk
        /\ \A i \in 1..nk : s[i] = d1[(r + i - 1) % PIPESIZE]
    <2>1. IsRun(s, d1, r, nk)
      BY FromRingIs
    <2> QED
      BY <2>1, Zenon DEF IsRun
  <1> HIDE DEF q, z, s
  <1>4. /\ t \in Seq(Bytes) /\ Len(t) = Len(q) + Len(z)
        /\ \A i \in 1..(Len(q) + Len(z)) :
             t[i] = IF i <= Len(q) THEN q[i] ELSE z[i - Len(q)]
    BY <1>1, <1>2, ConcatProperties, Zenon
  <1> HIDE DEF t
  <1>5. /\ Len(t) = nk
        /\ \A i \in 1..nk : t[i] = IF i <= n THEN q[i] ELSE z[i - n]
    BY <1>1, <1>2, <1>4
  <1>6. ASSUME NEW i \in 1..nk PROVE s[i] = t[i]
    <2>1. s[i] = d1[(r + i - 1) % PIPESIZE]
      BY <1>3
    <2>2. CASE i <= n
      <3>1. i \in 1..n
        BY <2>2
      <3> QED
        BY <1>1, <1>5, <2>1, <2>2, <3>1 DEF IsAppended
    <2>3. CASE ~(i <= n)
      <3>1. PICK m \in 0..(k - 1) : m = i - n - 1
        BY <2>3
      <3>2. i - n \in 1..k /\ w + (i - n) - 1 = w + m /\ r + i - 1 = r + n + m
        BY <2>3, <3>1
      <3>3. t[i] = Stream[(w + m) % WRAP]
        BY <1>2, <1>5, <2>3, <3>2
      <3>4. s[i] = Stream[(w + m) % WRAP]
        BY <2>1, <3>2 DEF IsAppended
      <3> QED
        BY <3>3, <3>4
    <2> QED
      BY <2>2, <2>3
  <1>7. s = t
    BY <1>3, <1>4, <1>5, <1>6, SeqEqual
  <1> QED
    BY <1>7 DEF q, z, s, t, Joined

(***************************************************************************)
(* A pipe is a queue: each step.                                           *)
(***************************************************************************)

\* A pipe never holds more than it has room for.
Bounded == \A pi \in Pages : Count(pi) <= PIPESIZE

ContentOf == [pi \in Pages |-> Content(pi)]

\* What a call finds in the ring, as a queue.
LEMMA ContentIs ==
  ASSUME TypeOK, NEW pi \in Pages
  PROVE  /\ Content(pi) = FromRing(data[pi], nread[pi], Count(pi))
         /\ Len(Content(pi)) = Count(pi) /\ Count(pi) \in Nat
         /\ data[pi] \in [0..(PIPESIZE - 1) -> Bytes]
         /\ nread[pi] \in 0..(WRAP - 1) /\ nwrite[pi] \in 0..(WRAP - 1)
         /\ nread[pi] \in Nat /\ nwrite[pi] \in Nat
  <1>1. Content(pi) = FromRing(data[pi], nread[pi], Count(pi))
    BY DEF Content, FromRing
  <1>2. /\ nread[pi] \in 0..(WRAP - 1) /\ nwrite[pi] \in 0..(WRAP - 1)
        /\ Count(pi) \in 0..(WRAP - 1)
    BY Counting
  <1>3. data[pi] \in [0..(PIPESIZE - 1) -> Bytes]
    BY DEF TypeOK
  <1>4. Count(pi) \in Nat /\ nread[pi] \in Nat /\ nwrite[pi] \in Nat
    BY <1>2, Constants
  <1>5. Len(Content(pi)) = Count(pi)
    BY <1>1, <1>3, <1>4, FromRingIs DEF IsRun
  <1> QED
    BY <1>1, <1>2, <1>3, <1>4, <1>5

\* A step that leaves the pipes alone.
LEMMA PipesFrame ==
  ASSUME UNCHANGED <<nread, nwrite, data>>
  PROVE  ContentOf' = ContentOf /\ (Bounded => Bounded')
  BY DEF ContentOf, Content, Count, Bounded

\* The other pipes.
LEMMA OtherPipe ==
  ASSUME NEW o \in Pages, nread'[o] = nread[o], nwrite'[o] = nwrite[o], data'[o] = data[o]
  PROVE  Content(o)' = Content(o) /\ Count(o)' = Count(o)
  BY DEF Content, Count

\* piperead() takes the first k bytes.
LEMMA TakeContent ==
  ASSUME TypeOK, Bounded, NEW pi \in Pages, NEW k \in Nat, k <= Count(pi),
         nread' = [nread EXCEPT ![pi] = (@ + k) % WRAP], UNCHANGED <<nwrite, data>>
  PROVE  /\ Bounded'
         /\ ContentOf' = [ContentOf EXCEPT ![pi] =
                            SubSeq(ContentOf[pi], k + 1, Len(ContentOf[pi]))]
  <1>1. /\ Content(pi) = FromRing(data[pi], nread[pi], Count(pi))
        /\ Len(Content(pi)) = Count(pi) /\ Count(pi) \in Nat
        /\ data[pi] \in [0..(PIPESIZE - 1) -> Bytes]
        /\ nread[pi] \in 0..(WRAP - 1) /\ nwrite[pi] \in 0..(WRAP - 1)
    BY ContentIs
  <1>2. PICK n \in Nat : n = Count(pi) /\ k \in 0..n /\ n <= PIPESIZE
    BY <1>1 DEF Bounded
  <1>3. nread'[pi] = (nread[pi] + k) % WRAP /\ \A o \in Pages \ {pi} : nread'[o] = nread[o]
    BY DEF TypeOK
  <1>4. Count(pi)' = n - k
    <2>1. n = (nwrite[pi] + WRAP - nread[pi]) % WRAP
      BY <1>2 DEF Count
    <2>2. (nwrite[pi] + WRAP - nread'[pi]) % WRAP = n - k
      BY <1>1, <1>2, <1>3, <2>1, CountAfter
    <2> QED
      BY <2>2 DEF Count
  <1>5. PICK v : v = nread'[pi]
    OBVIOUS
  <1>6. Content(pi)' = Dropped(Content(pi), k)
    <2> PICK left \in Nat : left = n - k
      BY <1>2
    <2>1. Content(pi)' = FromRing(data[pi], v, left)
      BY <1>4, <1>5 DEF Content, FromRing
    <2>2. k \in 0..PIPESIZE
      BY <1>2, Constants
    <2>3. v \in 0..(WRAP - 1) /\ Ahead(v, nread[pi], k)
      BY <1>1, <1>3, <1>5, <2>2, AheadIs
    <2>4. nread[pi] \in Nat /\ v \in Nat /\ k <= n
      BY <1>1, <1>2, <2>3, Constants
    <2>5. PICK d \in [0..(PIPESIZE - 1) -> Bytes], r \in Nat, u \in Nat :
            d = data[pi] /\ r = nread[pi] /\ u = v
      BY <1>1, <2>4
    <2>6. Ahead(u, r, k)
      BY <2>3, <2>5
    <2>7. FromRing(d, u, left) = Dropped(FromRing(d, r, n), k)
      BY <2>4, <2>6, RingTake
    <2> QED
      BY <1>1, <1>2, <2>1, <2>5, <2>7
  <1>7. \A o \in Pages \ {pi} : Content(o)' = Content(o) /\ Count(o)' = Count(o)
    BY <1>3, OtherPipe
  <1>8. Bounded'
    <2> SUFFICES ASSUME NEW o \in Pages PROVE Count(o)' <= PIPESIZE
      BY DEF Bounded
    <2>1. CASE o = pi
      BY <1>2, <1>4, <2>1, Constants
    <2>2. CASE o # pi
      BY <1>7, <2>2 DEF Bounded
    <2> QED
      BY <2>1, <2>2
  <1>9. ContentOf' = [ContentOf EXCEPT ![pi] = SubSeq(@, k + 1, Len(@))]
    BY <1>6, <1>7 DEF ContentOf, Dropped
  <1> QED
    BY <1>8, <1>9

\* pipewrite() adds k bytes at the end.
LEMMA InsertContent ==
  ASSUME TypeOK, Bounded, NEW pi \in Pages, NEW k \in Nat, Count(pi) + k <= PIPESIZE,
         Store(pi, k), UNCHANGED nread
  PROVE  /\ Bounded'
         /\ ContentOf' = [ContentOf EXCEPT ![pi] = ContentOf[pi] \o Written(nwrite[pi], k)]
  <1>1. /\ Content(pi) = FromRing(data[pi], nread[pi], Count(pi))
        /\ data[pi] \in [0..(PIPESIZE - 1) -> Bytes]
        /\ nread[pi] \in 0..(WRAP - 1) /\ nwrite[pi] \in 0..(WRAP - 1)
        /\ nread[pi] \in Nat /\ nwrite[pi] \in Nat
        /\ Count(pi) \in Nat
    BY ContentIs
  <1>2. PICK n \in Nat : n = Count(pi) /\ n + k <= PIPESIZE
    BY <1>1
  <1>3. /\ data' \in [Pages -> [0..(PIPESIZE - 1) -> Bytes]]
        /\ nwrite'[pi] = (nwrite[pi] + k) % WRAP
        /\ \A o \in Pages \ {pi} : nwrite'[o] = nwrite[o] /\ data'[o] = data[o]
    BY StoreTypes
  <1>4. Count(pi)' = n + k
    <2>1. n = (nwrite[pi] + WRAP - nread[pi]) % WRAP
      BY <1>2 DEF Count
    <2>2. (nwrite'[pi] + WRAP - nread[pi]) % WRAP = n + k
      BY <1>1, <1>2, <1>3, <2>1, CountAfter
    <2> QED
      BY <2>2 DEF Count
  <1>5. nwrite[pi] = (nread[pi] + n) % WRAP
    <2>1. n = IF nread[pi] <= nwrite[pi] THEN nwrite[pi] - nread[pi]
              ELSE nwrite[pi] + WRAP - nread[pi]
      BY <1>2, Counting
    <2>2. PICK s \in Nat : s = nread[pi] + n
      BY <1>1
    <2>3. /\ s < WRAP => s % WRAP = s
          /\ s >= WRAP /\ s < 2 * WRAP => s % WRAP = s - WRAP
      BY Wraps, Constants
    <2>4. CASE nread[pi] <= nwrite[pi]
      <3>1. s = nwrite[pi] /\ s < WRAP
        BY <1>1, <2>1, <2>2, <2>4, Constants
      <3> QED
        BY <2>2, <2>3, <3>1
    <2>5. CASE ~(nread[pi] <= nwrite[pi])
      <3>1. PICK a \in Nat, b \in Nat : a = nread[pi] /\ b = nwrite[pi] /\ b < WRAP
        BY <1>1, Constants
      <3>2. s = a + (b + WRAP - a) /\ WRAP \in Nat
        BY <2>1, <2>2, <2>5, <3>1, Constants
      <3>3. s - WRAP = nwrite[pi] /\ s >= WRAP /\ s < 2 * WRAP
        BY <3>1, <3>2
      <3> QED
        BY <2>2, <2>3, <3>3
    <2> QED
      BY <2>4, <2>5
  <1>6. PICK row : row = [x \in 0..(PIPESIZE - 1) |->
                            IF NewAt(nwrite[pi], k, x) = {} THEN data[pi][x]
                            ELSE Stream[(nwrite[pi] + Min(NewAt(nwrite[pi], k, x))) % WRAP]]
    OBVIOUS
  <1>7. data'[pi] = row
    <2>1. DOMAIN data[pi] = 0..(PIPESIZE - 1)
      BY <1>1
    <2>2. data' = [data EXCEPT ![pi] = row]
      BY <1>6, <2>1 DEF Store, TypeOK, NewAt
    <2> QED
      BY <2>2 DEF TypeOK
  <1>8. PICK d1 \in [0..(PIPESIZE - 1) -> Bytes] : d1 = data'[pi]
    BY <1>3
  <1>9. PICK r \in 0..(WRAP - 1), w \in 0..(WRAP - 1), d \in [0..(PIPESIZE - 1) -> Bytes] :
          r = nread[pi] /\ w = nwrite[pi] /\ d = data[pi] /\ r \in Nat /\ w \in Nat
    BY <1>1
  <1>10. IsStored(d, d1, w, k)
    BY <1>6, <1>7, <1>8, <1>9 DEF IsStored
  <1>11. FromRing(d1, r, n + k) = Joined(FromRing(d, r, n), Written(w, k))
    <2>1. n + k <= PIPESIZE /\ Ahead(w, r, n)
      <3>1. n \in 0..PIPESIZE /\ w = (r + n) % WRAP
        BY <1>2, <1>5, <1>9, Constants
      <3> QED
        BY <1>2, <3>1, AheadIs
    <2>2. PICK nk \in Nat : nk = n + k
      OBVIOUS
    <2>3. r \in Nat /\ w \in Nat
      BY <1>9
    <2>4. IsAppended(d, d1, r, n, w, k)
      BY <1>10, <2>1, <2>3, StoredApart
    <2>5. FromRing(d1, r, nk) = Joined(FromRing(d, r, n), Written(w, k))
      BY <2>2, <2>3, <2>4, RingInsert
    <2> QED
      BY <2>2, <2>5
  <1>12. Content(pi)' = FromRing(d1, r, n + k)
    BY <1>4, <1>8, <1>9 DEF Content, FromRing
  <1>13. Content(pi)' = Joined(Content(pi), Written(nwrite[pi], k))
    BY <1>1, <1>2, <1>9, <1>11, <1>12
  <1>14. \A o \in Pages \ {pi} : Content(o)' = Content(o) /\ Count(o)' = Count(o)
    BY <1>3, OtherPipe
  <1>15. Bounded'
    <2> SUFFICES ASSUME NEW o \in Pages PROVE Count(o)' <= PIPESIZE
      BY DEF Bounded
    <2>1. CASE o = pi
      BY <1>2, <1>4, <2>1
    <2>2. CASE o # pi
      BY <1>14, <2>2 DEF Bounded
    <2> QED
      BY <2>1, <2>2
  <1>16. ContentOf' = [ContentOf EXCEPT ![pi] = ContentOf[pi] \o Written(nwrite[pi], k)]
    BY <1>13, <1>14 DEF ContentOf, Joined
  <1> QED
    BY <1>15, <1>16

\* The page of a pipe that goes back to kalloc() holds nothing.
LEMMA ClearContent ==
  ASSUME TypeOK, Bounded, NEW pi \in Pages,
         nread' = [nread EXCEPT ![pi] = 0], nwrite' = [nwrite EXCEPT ![pi] = 0],
         data' = [data EXCEPT ![pi] = Junk]
  PROVE  Bounded' /\ ContentOf' = [ContentOf EXCEPT ![pi] = << >>]
  <1>1. nread'[pi] = 0 /\ nwrite'[pi] = 0
    BY DEF TypeOK
  <1>2. (0 + WRAP - 0) % WRAP = 0
    <2>1. 0 \in 0..(WRAP - 1)
      BY Constants
    <2> QED
      BY <2>1, Distance
  <1>3. Count(pi)' = 0
    BY <1>1, <1>2 DEF Count
  <1>4. Content(pi)' = << >>
    BY <1>3 DEF Content
  <1>5. \A o \in Pages \ {pi} : Content(o)' = Content(o) /\ Count(o)' = Count(o)
    <2> TAKE o \in Pages \ {pi}
    <2>1. nread'[o] = nread[o] /\ nwrite'[o] = nwrite[o] /\ data'[o] = data[o]
      BY DEF TypeOK
    <2> QED
      BY <2>1, OtherPipe
  <1>6. Bounded'
    BY <1>3, <1>5, Constants DEF Bounded
  <1>7. ContentOf' = [ContentOf EXCEPT ![pi] = << >>]
    BY <1>4, <1>5 DEF ContentOf
  <1> QED
    BY <1>6, <1>7

QueueStep == [Queue!Next]_Queue!vars

LEMMA OthersRefine ==
  ASSUME Bounded, UNCHANGED <<nread, nwrite, data, readopen, writeopen>>
  PROVE  Bounded' /\ QueueStep
  <1>1. Bounded' /\ ContentOf' = ContentOf
    BY PipesFrame
  <1>2. UNCHANGED Queue!vars
    BY <1>1 DEF ContentOf, Queue!vars
  <1> QED
    BY <1>1, <1>2 DEF QueueStep

LEMMA SysPipeRefines ==
  ASSUME IInv, Bounded, NEW p \in Procs, NEW pi \in Pages, SysPipe(p, pi)
  PROVE  Bounded' /\ QueueStep
  <1>1. /\ pi \in pages /\ UNCHANGED <<nread, nwrite, data>>
        /\ readopen' = readopen \cup {pi} /\ writeopen' = writeopen \cup {pi}
    BY DEF SysPipe, NewPipe
  <1>2. pi \notin readopen \cup writeopen
    BY <1>1 DEF IInv, EndsOpen
  <1>3. Bounded' /\ ContentOf' = ContentOf
    BY <1>1, PipesFrame
  <1>4. Queue!Create(pi)
    BY <1>1, <1>2, <1>3 DEF Queue!Create, Queue!Open, ContentOf
  <1> QED
    BY <1>3, <1>4 DEF QueueStep, Queue!Next

LEMMA PipeWriteRefines ==
  ASSUME IInv, Bounded, NEW p \in Procs, NEW c \in Calls(p, TRUE), NEW k \in 0..PIPESIZE,
         NEW hit \in BOOLEAN, PipeWrite(p, c, k, hit)
  PROVE  Bounded' /\ QueueStep
  <1>1. c.f \in File /\ pipe[c.f] \in Pages /\ writable[c.f] = TRUE
    BY CallFacts DEF IInv, FInv
  <1>2. PICK pi \in Pages : pi = pipe[c.f]
    BY <1>1
  <1>3. /\ pi \in readopen /\ Count(pi) + k <= PIPESIZE /\ Store(pi, k)
        /\ UNCHANGED <<nread, readopen, writeopen>>
    BY <1>2 DEF PipeWrite
  <1>4. pi \in writeopen
    BY <1>1, <1>2, Constants DEF IInv, EndsOpen, Ends
  <1>5. k \in Nat /\ TypeOK
    BY Constants DEF IInv
  <1>6. /\ Bounded'
        /\ ContentOf' = [ContentOf EXCEPT ![pi] = ContentOf[pi] \o Written(nwrite[pi], k)]
    BY <1>3, <1>5, InsertContent
  <1>7. Len(Content(pi)) = Count(pi) /\ nwrite[pi] \in Nat
    BY <1>5, ContentIs
  <1>8. Written(nwrite[pi], k) \in [1..k -> Bytes] /\ Len(Written(nwrite[pi], k)) = k
    BY <1>5, <1>7, WrittenIs
  <1>9. Written(nwrite[pi], k) \in BoundedSeq(Bytes, PIPESIZE)
    BY <1>8 DEF BoundedSeq, SeqOf
  <1>10. Queue!Insert(pi, Written(nwrite[pi], k))
    <2>1. ContentOf[pi] = Content(pi)
      BY DEF ContentOf
    <2>2. Len(ContentOf[pi]) + Len(Written(nwrite[pi], k)) <= PIPESIZE
      BY <1>3, <1>7, <1>8, <2>1
    <2> QED
      BY <1>3, <1>4, <1>6, <2>2 DEF Queue!Insert, ContentOf
  <1>11. Queue!Next
    BY <1>9, <1>10, Zenon DEF Queue!Next, Queue!BoundedSeq, Queue!SeqOf, BoundedSeq, SeqOf
  <1> QED
    BY <1>6, <1>11 DEF QueueStep

LEMMA ReadCopyRefines ==
  ASSUME IInv, Bounded, NEW p \in Procs, NEW c \in Calls(p, FALSE), NEW k \in 0..PIPESIZE,
         ReadCopy(p, c, k)
  PROVE  Bounded' /\ QueueStep
  <1>1. c.f \in File /\ pipe[c.f] \in Pages /\ writable[c.f] = FALSE
    BY CallFacts DEF IInv, FInv
  <1>2. PICK pi \in Pages : pi = pipe[c.f]
    BY <1>1
  <1>3. /\ k <= Count(pi) /\ nread' = [nread EXCEPT ![pi] = (@ + k) % WRAP]
        /\ UNCHANGED <<nwrite, data, readopen, writeopen>>
    BY <1>2 DEF ReadCopy
  <1>4. pi \in readopen
    BY <1>1, <1>2, Constants DEF IInv, EndsOpen, Ends
  <1>5. k \in Nat /\ TypeOK
    BY Constants DEF IInv
  <1>6. /\ Bounded'
        /\ ContentOf' = [ContentOf EXCEPT ![pi] =
                           SubSeq(ContentOf[pi], k + 1, Len(ContentOf[pi]))]
    BY <1>3, <1>5, TakeContent
  <1>7. Len(Content(pi)) = Count(pi) /\ Count(pi) \in Nat /\ nread[pi] \in 0..(WRAP - 1)
    BY <1>5, ContentIs
  <1>8. CASE k = 0
    <2>1. nread[pi] \in Nat /\ nread[pi] < WRAP
      BY <1>7, Constants
    <2>2. (nread[pi] + k) % WRAP = nread[pi]
      BY <1>8, <2>1, Wraps, Constants
    <2>3. nread' = nread
      BY <1>3, <1>5, <2>2 DEF TypeOK
    <2> QED
      BY <1>3, <2>3, OthersRefine
  <1>9. CASE k > 0
    <2>1. k \in 1..Len(ContentOf[pi]) /\ k \in 1..PIPESIZE
      BY <1>3, <1>5, <1>7, <1>9 DEF ContentOf
    <2>2. Queue!Take(pi, k)
      BY <1>3, <1>4, <1>6, <2>1 DEF Queue!Take, ContentOf
    <2> QED
      BY <1>6, <2>1, <2>2 DEF QueueStep, Queue!Next
  <1> QED
    BY <1>5, <1>8, <1>9

LEMMA PipeCloseRefines ==
  ASSUME IInv, Bounded, NEW p \in Procs, PipeClose(p)
  PROVE  Bounded' /\ QueueStep
  <1>1. pc[p] = "pipeclose" /\ TypeOK
    BY DEF PipeClose, IInv
  <1>2. PICK pi \in Pages : pi = ff[p].pi
    BY <1>1 DEF IInv, TodoOK, TodoAt
  <1>3. /\ ff[p].w => pi \in writeopen
        /\ ~ff[p].w => pi \in readopen
    <2>1. ff[p].w \in BOOLEAN
      BY <1>1 DEF TypeOK
    <2> QED
      BY <1>1, <1>2, <2>1 DEF IInv, EndsOpen, Ends
  <1>4. /\ Bounded'
        /\ ContentOf' = IF pi \in readopen' \cup writeopen' THEN ContentOf
                        ELSE [ContentOf EXCEPT ![pi] = << >>]
    <2>1. CASE pi \in readopen' \cup writeopen'
      <3>1. UNCHANGED <<nread, nwrite, data>>
        BY <1>2, <2>1 DEF PipeClose
      <3> QED
        BY <2>1, <3>1, PipesFrame
    <2>2. CASE pi \notin readopen' \cup writeopen'
      <3>1. /\ nread' = [nread EXCEPT ![pi] = 0] /\ nwrite' = [nwrite EXCEPT ![pi] = 0]
            /\ data' = [data EXCEPT ![pi] = Junk]
        BY <1>2, <2>2 DEF PipeClose
      <3> QED
        BY <1>1, <2>2, <3>1, ClearContent
    <2> QED
      BY <2>1, <2>2
  <1>5. CASE ff[p].w
    <2>1. writeopen' = writeopen \ {pi} /\ readopen' = readopen
      BY <1>2, <1>5 DEF PipeClose
    <2>2. ContentOf' = IF pi \in readopen THEN ContentOf
                       ELSE [ContentOf EXCEPT ![pi] = << >>]
      BY <1>4, <2>1
    <2>3. Queue!Close(pi, writeopen, readopen, writeopen')
      BY <1>3, <1>5, <2>1, <2>2 DEF Queue!Close, ContentOf
    <2> QED
      BY <1>4, <2>1, <2>3 DEF QueueStep, Queue!Next
  <1>6. CASE ~ff[p].w
    <2>1. readopen' = readopen \ {pi} /\ writeopen' = writeopen
      BY <1>2, <1>6 DEF PipeClose
    <2>2. ContentOf' = IF pi \in writeopen THEN ContentOf
                       ELSE [ContentOf EXCEPT ![pi] = << >>]
      BY <1>4, <2>1
    <2>3. Queue!Close(pi, readopen, writeopen, readopen')
      BY <1>3, <1>6, <2>1, <2>2 DEF Queue!Close, ContentOf
    <2> QED
      BY <1>4, <2>1, <2>3 DEF QueueStep, Queue!Next
  <1> QED
    BY <1>5, <1>6

LEMMA NextRefines == ASSUME IInv, Bounded, [Next]_vars PROVE Bounded' /\ QueueStep
  <1>1. CASE UNCHANGED vars
    BY <1>1, OthersRefine DEF vars, pipeVars
  <1>2. ASSUME NEW p \in Procs,
               \/ \E f \in File : PipeAllocFirst(p, f)
               \/ PipeAllocSecond(p) \/ PipeAllocFails(p) \/ CloseNext(p)
               \/ WriteFails(p) \/ Exit(p) \/ Kill(p)
               \/ \E np \in Procs : Fork(p, np)
               \/ \E fd \in Fds : SysDup(p, fd) \/ SysClose(p, fd) \/ ExitClose(p, fd)
               \/ \E c \in Calls(p, FALSE), hit \in BOOLEAN : ReadEmpty(p, c, hit)
        PROVE  Bounded' /\ QueueStep
    <2>1. UNCHANGED <<nread, nwrite, data, readopen, writeopen>>
      BY <1>2 DEF PipeAllocFirst, PipeAllocSecond, PipeAllocFails, CloseNext, WriteFails,
                  Exit, Kill, Fork, SysDup, SysClose, ExitClose, ReadEmpty, pipeVars
    <2> QED
      BY <2>1, OthersRefine
  <1>3. ASSUME NEW p \in Procs, NEW pi \in Pages, SysPipe(p, pi)
        PROVE  Bounded' /\ QueueStep
    BY <1>3, SysPipeRefines
  <1>4. ASSUME NEW p \in Procs, PipeClose(p) PROVE Bounded' /\ QueueStep
    BY <1>4, PipeCloseRefines
  <1>5. ASSUME NEW p \in Procs, NEW c \in Calls(p, TRUE), NEW k \in 0..PIPESIZE,
               NEW hit \in BOOLEAN, PipeWrite(p, c, k, hit)
        PROVE  Bounded' /\ QueueStep
    BY <1>5, PipeWriteRefines
  <1>6. ASSUME NEW p \in Procs, NEW c \in Calls(p, FALSE), NEW k \in 0..PIPESIZE,
               ReadCopy(p, c, k)
        PROVE  Bounded' /\ QueueStep
    BY <1>6, ReadCopyRefines
  <1> QED
    BY <1>1, <1>2, <1>3, <1>4, <1>5, <1>6 DEF Next

LEMMA InitRefines == ASSUME Init PROVE Bounded /\ Queue!Init
  <1>1. (0 + WRAP - 0) % WRAP = 0
    <2>1. 0 \in 0..(WRAP - 1)
      BY Constants
    <2> QED
      BY <2>1, Distance
  <1>2. \A pi \in Pages : Count(pi) = 0
    BY <1>1 DEF Init, Count
  <1>3. \A pi \in Pages : Content(pi) = << >>
    BY <1>2 DEF Content
  <1>4. Bounded
    BY <1>2, Constants DEF Bounded
  <1> QED
    BY <1>3, <1>4 DEF Init, Queue!Init

\* For every size of the ring, every width of the counters that the ring's size
\* divides and any number of pipes, readers and writers, pipewrite() and
\* piperead() implement a bounded queue (pipe.c:59-130): every byte that a read()
\* takes is the oldest that no read() has taken, none is overwritten while it
\* waits, and pipeclose() drops what is left only with the last end.
THEOREM BytesInOrder == Spec => IsByteQueue
  <1>1. Init => IInv /\ Bounded /\ Queue!Init
    BY InitIInv, InitRefines
  <1>2. IInv /\ Bounded /\ [Next]_vars => Bounded' /\ [Queue!Next]_Queue!vars
    BY NextRefines DEF QueueStep
  <1> QED
    BY <1>1, <1>2, Invariance, PTL DEF Spec, IsByteQueue, Queue!Spec
=============================================================================
