-------------------------------- MODULE Log --------------------------------
(***************************************************************************)
(* The redo log of the xv6 file system (kernel/log.c) over a buffer cache  *)
(* (kernel/bio.c, abstracted to contents, locks and pins) and a disk that  *)
(* writes one block atomically.  Processes run file system calls between   *)
(* begin_op() and end_op(); the last one out commits; the machine may      *)
(* crash between any two disk writes and recovers on the next boot.        *)
(*                                                                         *)
(* Code under log.lock is one step.  commit() runs without the lock: each  *)
(* of its disk writes is a step of its own.                                *)
(***************************************************************************)
EXTENDS Naturals, Sequences, FiniteSets

CONSTANTS Proc,         \* processes that make file system calls
          Block,        \* home block numbers
          Val,          \* block contents
          NoBlock,      \* "no buffer is held"
          NotCached,    \* "the block has no buffer"
          MAXOPBLOCKS,  \* log space that begin_op() reserves for one call
          LOGSIZE,      \* log space that begin_op() shares out
          LogBlocks,    \* sb.nlog, the blocks of the on-disk log area
          OpBlocks,     \* distinct blocks that one call really writes
          MaxCrashes    \* bound on the crashes of a behaviour

ASSUME LogAssumption ==
  /\ NoBlock \notin Block
  /\ NotCached \notin Val
  /\ MAXOPBLOCKS \in Nat \ {0}
  /\ LOGSIZE \in Nat /\ MAXOPBLOCKS <= LOGSIZE
  /\ LogBlocks \in Nat \ {0}
  /\ OpBlocks \in Nat
  /\ MaxCrashes \in Nat

VARIABLES
  home,         \* on disk: contents of the home blocks
  logdata,      \* on disk: contents of the log's data blocks
  hdr,          \* on disk: the log header, its block numbers in order
  cache,        \* buffer cache: contents of the cached home blocks
  pins,         \* buffer cache: references that bpin() took, per block
  lh,           \* log.lh: block numbers of the running transaction
  outstanding,  \* log.outstanding
  committing,   \* log.committing
  pc,           \* per process: "user", "woken", "sleep", "op", "commit"
  hold,         \* per process: the buffer whose lock it holds
  dirty,        \* per process: it changed that buffer, log_write() is due
  wrote,        \* per process: blocks log_write()n in its current call
  phase,        \* what commit() or recover_from_log() does next
  tail,         \* loop index of write_log() and install_trans()
  panicked,     \* a panic() was reached
  crashes       \* crashes so far

diskVars == <<home, logdata, hdr>>
bufVars  == <<cache, pins, hold, dirty>>
logVars  == <<lh, outstanding, committing>>
vars == <<home, logdata, hdr, cache, pins, lh, outstanding, committing, pc,
          hold, dirty, wrote, phase, tail, panicked, crashes>>

\* Data blocks that fit after the header block of the log area.
LogSlots == LogBlocks - 1

Recovering == {"read_head", "recover", "rclear"}
Committing == {"write_log", "write_head", "install", "clear", "end"}
Phases == {"idle"} \cup Committing \cup Recovering

TypeOK ==
  /\ home \in [Block -> Val]
  /\ logdata \in [1..LogSlots -> Val]
  /\ hdr \in Seq(Block)
  /\ cache \in [Block -> Val \cup {NotCached}]
  /\ pins \in [Block -> Nat]
  /\ lh \in Seq(Block)
  /\ outstanding \in Nat
  /\ committing \in BOOLEAN
  /\ pc \in [Proc -> {"user", "woken", "sleep", "op", "commit"}]
  /\ hold \in [Proc -> Block \cup {NoBlock}]
  /\ dirty \in [Proc -> BOOLEAN]
  /\ wrote \in [Proc -> SUBSET Block]
  /\ phase \in Phases
  /\ tail \in Nat
  /\ panicked \in BOOLEAN
  /\ crashes \in 0..MaxCrashes

\* A disk that mkfs has just written: the log header is empty.  The machine
\* boots into recovery.
Init ==
  /\ \E v \in Val : home = [b \in Block |-> v]
  /\ \E v \in Val : logdata = [i \in 1..LogSlots |-> v]
  /\ hdr = <<>>
  /\ cache = [b \in Block |-> NotCached]
  /\ pins = [b \in Block |-> 0]
  /\ lh = <<>>
  /\ outstanding = 0
  /\ committing = FALSE
  /\ pc = [p \in Proc |-> "user"]
  /\ hold = [p \in Proc |-> NoBlock]
  /\ dirty = [p \in Proc |-> FALSE]
  /\ wrote = [p \in Proc |-> {}]
  /\ phase = "read_head"
  /\ tail = 0
  /\ panicked = FALSE
  /\ crashes = 0

(***************************************************************************)
(* Buffer cache.                                                           *)
(***************************************************************************)

\* The contents bread() returns: the buffer if the block has one, else disk.
Contents(b) == IF cache[b] = NotCached THEN home[b] ELSE cache[b]

Unlocked(b) == \A q \in Proc : hold[q] # b

\* bread(): lock the block's buffer, filling it from disk if need be.  A call
\* in a transaction does so to change the block, one outside only to read it.
Bread(p, b) ==
  /\ phase \notin Recovering
  /\ pc[p] \in {"user", "op"}
  /\ hold[p] = NoBlock
  /\ Unlocked(b)
  /\ hold' = [hold EXCEPT ![p] = b]
  /\ cache' = [cache EXCEPT ![b] = Contents(b)]
  /\ UNCHANGED <<diskVars, pins, logVars, pc, dirty, wrote, phase, tail,
                 panicked, crashes>>

\* The caller changes b->data.  A call writes at most OpBlocks distinct blocks.
Modify(p, v) ==
  /\ pc[p] = "op"
  /\ hold[p] # NoBlock
  /\ Cardinality(wrote[p] \cup {hold[p]}) <= OpBlocks
  /\ cache' = [cache EXCEPT ![hold[p]] = v]
  /\ dirty' = [dirty EXCEPT ![p] = TRUE]
  /\ UNCHANGED <<diskVars, pins, hold, logVars, pc, wrote, phase, tail,
                 panicked, crashes>>

\* brelse(); every caller that changed the buffer called log_write() first.
Brelse(p) ==
  /\ hold[p] # NoBlock
  /\ ~dirty[p]
  /\ hold' = [hold EXCEPT ![p] = NoBlock]
  /\ UNCHANGED <<diskVars, cache, pins, logVars, pc, dirty, wrote, phase,
                 tail, panicked, crashes>>

\* bget() recycles a buffer that nobody references for another block.
Recycle(b) ==
  /\ cache[b] # NotCached
  /\ pins[b] = 0
  /\ Unlocked(b)
  /\ cache' = [cache EXCEPT ![b] = NotCached]
  /\ UNCHANGED <<diskVars, pins, hold, dirty, logVars, pc, wrote, phase, tail,
                 panicked, crashes>>

(***************************************************************************)
(* begin_op(), log_write(), end_op(): one step each, under log.lock.       *)
(***************************************************************************)

\* Mutant: the sleepers are forgotten.
WakeAll_None == pc

\* wakeup(&log): everyone who sleeps in begin_op() tests the conditions anew.
WakeAll == [q \in Proc |-> IF pc[q] = "sleep" THEN "woken" ELSE pc[q]]

\* Mutant: the space of the calls already admitted is not reserved.
MayExhaustLog_OneOp == Len(lh) + MAXOPBLOCKS > LOGSIZE

MayExhaustLog == Len(lh) + (outstanding + 1) * MAXOPBLOCKS > LOGSIZE

\* begin_op(): sleep while a commit runs or log space might run out.
BeginOp(p) ==
  /\ phase \notin Recovering
  /\ pc[p] \in {"user", "woken"}
  /\ hold[p] = NoBlock
  /\ \/ /\ committing \/ MayExhaustLog
        /\ pc' = [pc EXCEPT ![p] = "sleep"]
        /\ UNCHANGED outstanding
     \/ /\ ~committing /\ ~MayExhaustLog
        /\ pc' = [pc EXCEPT ![p] = "op"]
        /\ outstanding' = outstanding + 1
  /\ UNCHANGED <<diskVars, bufVars, lh, committing, wrote, phase, tail,
                 panicked, crashes>>

\* The panics of log_write().
LogWritePanics ==
  \/ Len(lh) >= LOGSIZE
  \/ Len(lh) >= LogBlocks - 1
  \/ outstanding < 1

\* Mutant: no absorption.
InLog_Never(b) == FALSE

InLog(b) == \E i \in 1..Len(lh) : lh[i] = b

\* log_write(): a block already in the transaction is absorbed, a new one is
\* recorded and its buffer pinned.  The caller keeps the buffer's lock.
LogWrite(p) ==
  LET b == hold[p]
      added == ~LogWritePanics /\ ~InLog(b)
  IN /\ dirty[p]
     /\ panicked' = LogWritePanics
     /\ lh' = IF added THEN Append(lh, b) ELSE lh
     /\ pins' = IF added THEN [pins EXCEPT ![b] = @ + 1] ELSE pins
     /\ wrote' = [wrote EXCEPT ![p] = @ \cup {b}]
     /\ dirty' = [dirty EXCEPT ![p] = FALSE]
     /\ UNCHANGED <<diskVars, cache, hold, outstanding, committing, pc, phase,
                    tail, crashes>>

\* Mutant: every end_op() commits.
LastOut_Always == TRUE

LastOut == outstanding = 1

\* end_op(), first critical section: the last call out commits, any other
\* wakes those who wait for the log space it gives back.
EndOp(p) ==
  /\ pc[p] = "op"
  /\ hold[p] = NoBlock
  /\ panicked' = committing
  /\ outstanding' = outstanding - 1
  /\ wrote' = [wrote EXCEPT ![p] = {}]
  /\ \/ /\ LastOut
        /\ committing' = TRUE
        /\ pc' = [pc EXCEPT ![p] = "commit"]
        /\ phase' = IF lh = <<>> THEN "end" ELSE "write_log"
        /\ tail' = 0
     \/ /\ ~LastOut
        /\ pc' = [WakeAll EXCEPT ![p] = "user"]
        /\ UNCHANGED <<committing, phase, tail>>
  /\ UNCHANGED <<diskVars, bufVars, lh, crashes>>

(***************************************************************************)
(* commit(), by the last call out, with log.committing set and no lock.    *)
(***************************************************************************)

\* Mutant: the loop stops one block early.
Turn_Short(next) ==
  /\ tail' = IF tail + 2 < Len(lh) THEN tail + 1 ELSE 0
  /\ phase' = IF tail + 2 < Len(lh) THEN phase ELSE next

\* Mutant: the index is not advanced.
Turn_Stuck(next) == UNCHANGED <<tail, phase>>

\* One turn of a loop over log.lh: stay in the phase or go on to the next.
Turn(next) ==
  /\ tail' = IF tail + 1 < Len(lh) THEN tail + 1 ELSE 0
  /\ phase' = IF tail + 1 < Len(lh) THEN phase ELSE next

\* write_log(): copy one changed block from the cache to the log.
WriteLog ==
  LET b == lh[tail + 1]
  IN /\ phase = "write_log"
     /\ Unlocked(b)
     /\ logdata' = [logdata EXCEPT ![tail + 1] = Contents(b)]
     /\ cache' = [cache EXCEPT ![b] = Contents(b)]
     /\ Turn("write_head")
     /\ UNCHANGED <<home, hdr, pins, hold, dirty, logVars, pc, wrote,
                    panicked, crashes>>

\* write_head(): the commit point.
WriteHead ==
  /\ phase = "write_head"
  /\ hdr' = lh
  /\ phase' = "install"
  /\ UNCHANGED <<home, logdata, bufVars, logVars, pc, wrote, tail, panicked,
                 crashes>>

\* Write the log's copy of block lh[tail + 1] to its home location.
InstallBlock ==
  LET b == lh[tail + 1]
  IN /\ Unlocked(b)
     /\ home' = [home EXCEPT ![b] = logdata[tail + 1]]
     /\ cache' = [cache EXCEPT ![b] = logdata[tail + 1]]
     /\ UNCHANGED <<logdata, hdr, hold, dirty>>

\* install_trans(0): install one block and drop the pin log_write() took.
Install ==
  /\ phase = "install"
  /\ InstallBlock
  /\ pins' = [pins EXCEPT ![lh[tail + 1]] = @ - 1]
  /\ Turn("clear")
  /\ UNCHANGED <<logVars, pc, wrote, panicked, crashes>>

\* log.lh.n = 0; write_head(): erase the transaction from the log.
ClearLog ==
  /\ lh' = <<>>
  /\ hdr' = <<>>
  /\ UNCHANGED <<home, logdata, bufVars, outstanding, committing, wrote, tail,
                 panicked, crashes>>

Clear ==
  /\ phase = "clear"
  /\ phase' = "end"
  /\ ClearLog
  /\ UNCHANGED pc

\* Mutant: the wakeup after the commit is missing.
EndCommit_NoWakeup(p) ==
  /\ pc[p] = "commit"
  /\ phase = "end"
  /\ phase' = "idle"
  /\ committing' = FALSE
  /\ pc' = [pc EXCEPT ![p] = "user"]
  /\ UNCHANGED <<diskVars, bufVars, lh, outstanding, wrote, tail, panicked,
                 crashes>>

\* end_op(), second critical section.
EndCommit(p) ==
  /\ pc[p] = "commit"
  /\ phase = "end"
  /\ phase' = "idle"
  /\ committing' = FALSE
  /\ pc' = [WakeAll EXCEPT ![p] = "user"]
  /\ UNCHANGED <<diskVars, bufVars, lh, outstanding, wrote, tail, panicked,
                 crashes>>

(***************************************************************************)
(* Crash, and recover_from_log() on the next boot, before any process can  *)
(* use the file system.                                                    *)
(***************************************************************************)

\* Power fails: the disk survives, memory does not.
Crash ==
  /\ crashes < MaxCrashes
  /\ crashes' = crashes + 1
  /\ cache' = [b \in Block |-> NotCached]
  /\ pins' = [b \in Block |-> 0]
  /\ lh' = <<>>
  /\ outstanding' = 0
  /\ committing' = FALSE
  /\ pc' = [p \in Proc |-> "user"]
  /\ hold' = [p \in Proc |-> NoBlock]
  /\ dirty' = [p \in Proc |-> FALSE]
  /\ wrote' = [p \in Proc |-> {}]
  /\ phase' = "read_head"
  /\ tail' = 0
  /\ panicked' = FALSE
  /\ UNCHANGED diskVars

\* Mutant: a committed transaction is dropped at boot.
ReadHead_NoReplay ==
  /\ phase = "read_head"
  /\ lh' = hdr
  /\ phase' = "rclear"
  /\ UNCHANGED <<diskVars, bufVars, outstanding, committing, pc, wrote, tail,
                 panicked, crashes>>

\* read_head()
ReadHead ==
  /\ phase = "read_head"
  /\ lh' = hdr
  /\ phase' = IF hdr = <<>> THEN "rclear" ELSE "recover"
  /\ UNCHANGED <<diskVars, bufVars, outstanding, committing, pc, wrote, tail,
                 panicked, crashes>>

\* Mutant: recovery drops pins that nobody took.
Recover_Unpins ==
  /\ phase = "recover"
  /\ InstallBlock
  /\ pins' = [pins EXCEPT ![lh[tail + 1]] = @ - 1]
  /\ Turn("rclear")
  /\ UNCHANGED <<logVars, pc, wrote, panicked, crashes>>

\* Mutant: the recovery loop does not advance.
Recover_Stuck ==
  /\ phase = "recover"
  /\ InstallBlock
  /\ UNCHANGED <<pins, logVars, pc, wrote, phase, tail, panicked, crashes>>

\* install_trans(1): nothing was pinned in this boot.
Recover ==
  /\ phase = "recover"
  /\ InstallBlock
  /\ Turn("rclear")
  /\ UNCHANGED <<pins, logVars, pc, wrote, panicked, crashes>>

RClear ==
  /\ phase = "rclear"
  /\ phase' = "idle"
  /\ ClearLog
  /\ UNCHANGED pc

-----------------------------------------------------------------------------

\* A panic stops everything but a reboot.
Next ==
  \/ /\ ~panicked
     /\ \/ \E p \in Proc, b \in Block : Bread(p, b)
        \/ \E p \in Proc, v \in Val : Modify(p, v)
        \/ \E p \in Proc : Brelse(p)
        \/ \E b \in Block : Recycle(b)
        \/ \E p \in Proc : BeginOp(p)
        \/ \E p \in Proc : LogWrite(p)
        \/ \E p \in Proc : EndOp(p)
        \/ WriteLog
        \/ WriteHead
        \/ Install
        \/ Clear
        \/ \E p \in Proc : EndCommit(p)
        \/ ReadHead
        \/ Recover
        \/ RClear
  \/ Crash

Spec == Init /\ [][Next]_vars

(***************************************************************************)
(* What the code's scheduling gives: a process that can go on does so in   *)
(* the end (weak fairness); a system call makes finitely many changes and  *)
(* then ends, and a commit that waits for a buffer which readers hold and  *)
(* release gets it in the end (strong fairness).                           *)
(***************************************************************************)
ProcFairness(p) ==
  /\ WF_vars(pc[p] = "woken" /\ BeginOp(p))
  /\ WF_vars(LogWrite(p))
  /\ SF_vars(Brelse(p))
  /\ SF_vars(EndOp(p))
  /\ WF_vars(EndCommit(p))

Fairness ==
  /\ \A p \in Proc : ProcFairness(p)
  /\ SF_vars(WriteLog) /\ WF_vars(WriteHead) /\ SF_vars(Install) /\ WF_vars(Clear)
  /\ WF_vars(ReadHead) /\ WF_vars(Recover) /\ WF_vars(RClear)

FairSpec == Spec /\ Fairness

-----------------------------------------------------------------------------
(***************************************************************************)
(* Properties.                                                             *)
(***************************************************************************)

Active == {p \in Proc : pc[p] = "op"}

\* Where the on-disk header puts block b, if it names it.
HdrSlots(b) == {i \in 1..Len(hdr) : hdr[i] = b}

\* The home contents after a replay of the on-disk log.
Durable ==
  [b \in Block |-> IF HdrSlots(b) = {} THEN home[b]
                   ELSE logdata[CHOOSE i \in HdrSlots(b) : TRUE]]

\* The contents that running system calls see.
Visible ==
  [b \in Block |-> IF phase \in Recovering THEN Durable[b] ELSE Contents(b)]

D == INSTANCE TxnDisk WITH durable <- Durable, current <- Visible,
                           active <- Active

\* The log implements transactions that are atomic and durable: the disk that
\* recover_from_log() rebuilds changes only at write_head(), all at once, to
\* what all ended calls have written, whatever the interleaving and wherever
\* the crash ("the true point at which the current transaction commits",
\* log.c:99-101).
AtomicTransactions == D!Spec

\* "The logging system only commits when there are no FS system calls active"
\* (log.c:12-14): while commit() runs without log.lock nobody is inside a
\* transaction, nobody owes a log_write(), and only one process commits.
CommitsAlone ==
  committing =>
    /\ Active = {} /\ outstanding = 0
    /\ \A p \in Proc : ~dirty[p]
    /\ \A p, q \in Proc : pc[p] = "commit" /\ pc[q] = "commit" => p = q

\* No panic of log.c is reached: begin_op()'s reservation leaves room in the
\* log for every admitted call (log.c:133, 153, 220, 222).
NoPanic == ~panicked

\* No wakeup is lost: whenever a process sleeps in begin_op() some other
\* process is in a transaction or commits, and so will wake it (log.c:162, 172).
SleeperHasWaker ==
  (\E p \in Proc : pc[p] = "sleep") =>
    committing \/ \E q \in Proc : pc[q] = "op"

\* Blocks of the transaction whose home copy is still to be written.
ToInstall ==
  {lh[i] : i \in {j \in 1..Len(lh) : /\ phase # "clear"
                                     /\ phase = "install" => j > tail}}

\* Exactly the buffers of the transaction that are not yet installed are
\* pinned, once each: absorption takes no second pin, install_trans(0) drops
\* every pin, recovery neither takes nor drops one (log.c:78, 226-231).
PinnedExactly ==
  \A b \in Block :
    pins[b] = IF phase \notin Recovering /\ b \in ToInstall THEN 1 ELSE 0

\* A process that comes back from the end_op() that committed finds everything
\* that calls have written so far at home on disk and the log empty.
CommitReturnsDurable ==
  [][ committing /\ ~committing' /\ phase' = "idle" =>
        hdr = <<>> /\ home = Visible ]_vars

\* Every process that sleeps in begin_op() is woken.
SleeperWakes == \A p \in Proc : pc[p] = "sleep" ~> pc[p] # "sleep"

\* Every commit ends and every recovery ends.
CommitEnds == committing ~> ~committing
RecoveryEnds == phase \in Recovering ~> phase = "idle"

=============================================================================
