-------------------------------- MODULE Disk --------------------------------
(***************************************************************************)
(* The buffer cache (kernel/bio.c), its sleep locks (kernel/sleeplock.c)   *)
(* and the virtio disk driver below it (kernel/virtio_disk.c), used by     *)
(* several processes the way kernel/log.c uses them, with the device       *)
(* completing requests in any order.                                       *)
(*                                                                         *)
(* A kernel function has up to two buffers at a time, one in each of two   *)
(* local variables: bmap() and itrunc() of fs.c read the bitmap or a new   *)
(* block while they hold an indirect block, write_log() and                *)
(* install_trans() of log.c copy between two buffers.  The steps are those *)
(* of such a variable, a "hand" of the process; the process is in one      *)
(* function at a time, so that one of its hands is at rest.                *)
(*                                                                         *)
(* A block's contents are abstracted to whether a copy is the latest       *)
(* version of the block.  The rings hold the entries that the other side   *)
(* has not looked at yet, and the LRU list only the buffers that bget()    *)
(* would consider.  What runs under one spin lock is one step, except      *)
(* virtio_disk_intr(), which races with the device.                        *)
(***************************************************************************)
EXTENDS Naturals, Sequences, FiniteSets, SequencesExt

CONSTANTS Procs,     \* processes
          Blocks,    \* block numbers
          Under,     \* <<j, k>>: who holds block j may ask for block k
          NBUF,      \* buffers in the cache
          NUM,       \* descriptors of the virtio queue
          MaxPins    \* most blocks the log keeps pinned at once

None == 0
NoBlock == "none"
Nobody == << >>

\* The `struct buf *' variables of the processes.
Hand == Procs \X {1, 2}
Other(h) == <<h[1], 3 - h[2]>>

ASSUME DiskAssumption ==
  /\ NBUF \in Nat \ {0}
  /\ NUM \in Nat /\ NUM >= 3
  /\ MaxPins \in Nat
  /\ IsFiniteSet(Procs)
  /\ Nobody \notin Hand /\ NoBlock \notin Blocks
  /\ Under \subseteq Blocks \X Blocks /\ \A k \in Blocks : <<k, k>> \notin Under

Buffer == 1..NBUF
Desc == 0..(NUM - 1)

VARIABLES
  blockno, valid, refcnt,  \* the fields of a struct buf
  locked,      \* b->lock: the hand that holds it, or Nobody
  disk,        \* b->disk: does the disk own the buffer?
  latest,      \* buffers whose data is the latest version of their block
  lru,         \* bcache.head: the unused buffers, most recently used first
  free,        \* disk.free
  info,        \* disk.info, ops and the chain: per head descriptor in flight
  avail, used, \* entries the device, the driver has not looked at
  isr,         \* the device asks for an interrupt
  vdisk_lock,  \* virtio_disk_intr() is running
  platter,     \* blocks whose copy on the disk is the latest version
  pinned,      \* blocks that the log has pinned
  pc, buf,     \* per hand: where it is, and its struct buf *b
  write,       \* per hand: virtio_disk_rw()'s argument
  chain,       \* per hand: idx[] of its request
  panicked

bufVars  == <<blockno, valid, refcnt, locked, latest, lru>>
devVars  == <<free, info, avail, used, isr, vdisk_lock, platter, disk>>
procVars == <<buf, write, chain>>
vars == <<bufVars, devVars, pinned, pc, procVars, panicked>>

Asleep == {"lock_sleep", "desc_sleep", "rw_sleep"}
Labels == Asleep \cup {"idle", "lock", "rw", "rw_woken", "held", "written",
                       "done", "deref"}

\* A request in flight: its buffer, its direction, and info[].status.
Request == [b : Buffer, write : BOOLEAN, status : {"pending", "ok"}]

\* Counts stay in range and every index stays inside its table.
TypeOK ==
  /\ blockno \in [Buffer -> Blocks \cup {NoBlock}]
  /\ valid \in [Buffer -> BOOLEAN] /\ disk \in [Buffer -> BOOLEAN]
  /\ refcnt \in [Buffer -> 0..(2 * Cardinality(Procs) + 1)]
  /\ locked \in [Buffer -> Hand \cup {Nobody}]
  /\ latest \subseteq Buffer
  /\ lru \in Seq(Buffer) /\ Range(lru) = {b \in Buffer : refcnt[b] = 0} /\ IsInjective(lru)
  /\ free \subseteq Desc
  /\ \A d \in DOMAIN info : d \in Desc /\ info[d] \in Request
  /\ avail \subseteq Desc /\ used \in Seq(Desc)
  /\ isr \in BOOLEAN /\ vdisk_lock \in BOOLEAN
  /\ platter \subseteq Blocks /\ pinned \subseteq Blocks
  /\ pc \in [Hand -> Labels]
  /\ buf \in [Hand -> Buffer \cup {None}]
  /\ write \in [Hand -> BOOLEAN]
  /\ chain \in [Hand -> Seq(Desc)]
  /\ panicked \in BOOLEAN

\* binit(): no buffer caches anything; the list ends with the first buffer.
BInit ==
  /\ blockno = [b \in Buffer |-> NoBlock]
  /\ valid = [b \in Buffer |-> FALSE]
  /\ refcnt = [b \in Buffer |-> 0]
  /\ locked = [b \in Buffer |-> Nobody]
  /\ latest = {}
  /\ lru = [i \in Buffer |-> NBUF + 1 - i]

\* virtio_disk_init(): all descriptors free, both rings empty.
VirtioInit ==
  /\ disk = [b \in Buffer |-> FALSE]
  /\ free = Desc
  /\ info = << >> /\ avail = {} /\ used = << >>
  /\ isr = FALSE /\ vdisk_lock = FALSE
  /\ platter = Blocks

Init ==
  /\ BInit /\ VirtioInit
  /\ pinned = {}
  /\ pc = [p \in Hand |-> "idle"]
  /\ buf = [p \in Hand |-> None]
  /\ write = [p \in Hand |-> FALSE]
  /\ chain = [p \in Hand |-> << >>]
  /\ panicked = FALSE

-----------------------------------------------------------------------------

Goto(p, to) == pc' = [pc EXCEPT ![p] = to]

\* wakeup(chan), for the processes in sleepers, which then run at label to.
Wake(sleepers, to) == [q \in Hand |-> IF q \in sleepers THEN to ELSE pc[q]]

LockSleepers(b) == {q \in Hand : pc[q] = "lock_sleep" /\ buf[q] = b}
DescSleepers == {q \in Hand : pc[q] = "desc_sleep"}

(***************************************************************************)
(* bio.c                                                                   *)
(***************************************************************************)

\* Buffers that hold block k.
Cached(k) == {b \in Buffer : blockno[b] = k}

\* The process is not in a function of the cache or the driver with hand p.
Resting(p) == pc[p] \in {"idle", "held", "done"}

\* The caller asks for its first block with its first hand, and for a second one
\* while it holds a block that it may hold meanwhile.
MayBget(p, k) ==
  /\ pc[p] = "idle" /\ Resting(Other(p))
  /\ IF buf[Other(p)] = None THEN p[2] = 1
     ELSE <<blockno[buf[Other(p)]], k>> \in Under

\* A buffer that gets its first reference is no longer a candidate.
Without(b) == RemoveFirst(lru, b)

\* bget(): the block is cached.
BgetHit(p, k) ==
  /\ MayBget(p, k)
  /\ \E b \in Cached(k) :
       /\ refcnt' = [refcnt EXCEPT ![b] = @ + 1]
       /\ lru' = Without(b)
       /\ buf' = [buf EXCEPT ![p] = b]
  /\ Goto(p, "lock")
  /\ UNCHANGED <<blockno, valid, locked, latest, devVars, pinned, write,
                 chain, panicked>>

\* bget(): the block is not cached, the least recently used unused buffer is
\* recycled.
BgetMiss(p, k) ==
  /\ MayBget(p, k)
  /\ Cached(k) = {}
  /\ lru # << >>
  /\ LET b == Last(lru)
     IN /\ blockno' = [blockno EXCEPT ![b] = k]
        /\ valid' = [valid EXCEPT ![b] = FALSE]
        /\ refcnt' = [refcnt EXCEPT ![b] = 1]
        /\ latest' = latest \ {b}
        /\ lru' = Without(b)
        /\ buf' = [buf EXCEPT ![p] = b]
  /\ Goto(p, "lock")
  /\ UNCHANGED <<locked, devVars, pinned, write, chain, panicked>>

\* bget(): panic("bget: no buffers").
BgetPanic(p, k) ==
  /\ MayBget(p, k)
  /\ Cached(k) = {}
  /\ lru = << >>
  /\ panicked' = TRUE
  /\ UNCHANGED <<bufVars, devVars, pinned, pc, procVars>>

\* acquiresleep(&b->lock), and bread()'s test of b->valid.
AcquireSleep(p) ==
  /\ pc[p] = "lock"
  /\ LET b == buf[p]
     IN IF locked[b] # Nobody
        THEN Goto(p, "lock_sleep") /\ UNCHANGED locked
        ELSE /\ locked' = [locked EXCEPT ![b] = p]
             /\ Goto(p, IF valid[b] THEN "held" ELSE "rw")
  /\ UNCHANGED <<blockno, valid, refcnt, latest, lru, devVars, pinned,
                 procVars, panicked>>

\* log_write(): the holder changes the block and, unless it is absorbed, pins
\* its buffer with bpin().
BpinModified(p) ==
  /\ pc[p] = "held" /\ Resting(Other(p))
  /\ LET b == buf[p]  k == blockno[b]
     IN /\ k \in pinned \/ Cardinality(pinned) < MaxPins
        /\ refcnt' = [refcnt EXCEPT ![b] = IF k \in pinned THEN @ ELSE @ + 1]
        /\ latest' = latest \cup {b}
        /\ platter' = platter \ {k}
        /\ pinned' = pinned \cup {k}
  /\ Goto(p, "done")
  /\ UNCHANGED <<blockno, valid, locked, lru, free, info, avail, used, isr,
                 vdisk_lock, disk, procVars, panicked>>

\* bwrite(): of a pinned block (install_trans()), or of a block its holder has
\* just changed (write_log(), write_head()).
Bwrite(p) ==
  /\ pc[p] = "held" /\ Resting(Other(p))
  /\ LET b == buf[p]
     IN /\ panicked' = (locked[b] # p)
        /\ IF blockno[b] \in pinned
           THEN UNCHANGED <<latest, platter>>
           ELSE /\ latest' = latest \cup {b}
                /\ platter' = platter \ {blockno[b]}
  /\ write' = [write EXCEPT ![p] = TRUE]
  /\ Goto(p, "rw")
  /\ UNCHANGED <<blockno, valid, refcnt, locked, lru, free, info, avail, used,
                 isr, vdisk_lock, disk, pinned, buf, chain>>

\* Mutant: the reference is never given back.
Bunpin_Leaks(p) ==
  /\ pc[p] = "written"
  /\ pinned' = pinned \ {blockno[buf[p]]}
  /\ Goto(p, "done")
  /\ UNCHANGED <<bufVars, devVars, procVars, panicked>>

\* bunpin(), after the block has been written in place.
Bunpin(p) ==
  /\ pc[p] = "written"
  /\ refcnt' = [refcnt EXCEPT ![buf[p]] = @ - 1]
  /\ pinned' = pinned \ {blockno[buf[p]]}
  /\ Goto(p, "done")
  /\ UNCHANGED <<blockno, valid, locked, latest, lru, devVars, procVars,
                 panicked>>

\* brelse(): releasesleep() wakes everybody who waits for the lock.
Brelse(p) ==
  /\ pc[p] \in {"held", "done"} /\ Resting(Other(p))
  /\ LET b == buf[p]
     IN IF locked[b] # p
        THEN panicked' = TRUE /\ UNCHANGED <<locked, pc>>
        ELSE /\ locked' = [locked EXCEPT ![b] = Nobody]
             /\ pc' = [Wake(LockSleepers(b), "lock") EXCEPT ![p] = "deref"]
             /\ UNCHANGED panicked
  /\ UNCHANGED <<blockno, valid, refcnt, latest, lru, devVars, pinned,
                 procVars>>

\* brelse(): under bcache.lock, the last reference moves b to the list's head.
BrelseDeref(p) ==
  /\ pc[p] = "deref"
  /\ LET b == buf[p]
     IN /\ refcnt' = [refcnt EXCEPT ![b] = @ - 1]
        /\ lru' = IF refcnt[b] = 1
                  THEN <<b>> \o lru ELSE lru
  /\ buf' = [buf EXCEPT ![p] = None]
  /\ Goto(p, "idle")
  /\ UNCHANGED <<blockno, valid, locked, latest, devVars, pinned, write, chain,
                 panicked>>

(***************************************************************************)
(* virtio_disk.c                                                           *)
(***************************************************************************)

\* alloc3_desc(): three times the first free descriptor.
Alloc3 ==
  LET i == Min(free)
      j == Min(free \ {i})
  IN <<i, j, Min(free \ {i, j})>>

\* virtio_disk_rw(): alloc3_desc() gets its chain; the request is formatted,
\* published to the device, and p waits for it.
StartRequest(p) ==
  /\ pc[p] = "rw" /\ ~vdisk_lock
  /\ Cardinality(free) >= 3
  /\ LET idx == Alloc3
         head == idx[1]
     IN /\ free' = free \ Range(idx)
        /\ chain' = [chain EXCEPT ![p] = idx]
        /\ info' = [d \in DOMAIN info \cup {head} |->
                      IF d = head
                      THEN [b |-> buf[p], write |-> write[p],
                            status |-> "pending"]
                      ELSE info[d]]
        /\ avail' = avail \cup {head}
  /\ disk' = [disk EXCEPT ![buf[p]] = TRUE]
  /\ Goto(p, "rw_sleep")
  /\ UNCHANGED <<bufVars, used, isr, vdisk_lock, platter, pinned, buf, write,
                 panicked>>

\* virtio_disk_rw(): alloc3_desc() gives back what it got, which wakes the
\* other processes that wait for descriptors, and p waits with them.
NoDescriptors(p) ==
  /\ pc[p] = "rw" /\ ~vdisk_lock
  /\ Cardinality(free) < 3
  /\ pc' = [Wake(IF free = {} THEN {} ELSE DescSleepers, "rw")
              EXCEPT ![p] = "desc_sleep"]
  /\ UNCHANGED <<bufVars, devVars, pinned, procVars, panicked>>

\* Mutant: `if' instead of `while' around the sleep.
RequestDone_If(p) == TRUE

\* The condition of virtio_disk_rw()'s last loop.
RequestDone(p) == ~disk[buf[p]]

\* Where the caller of virtio_disk_rw() goes on: behind bread() or bwrite().
Caller(p) == IF ~write[p] THEN "held"
             ELSE IF blockno[buf[p]] \in pinned THEN "written" ELSE "done"

\* Mutant: nobody is told that descriptors are free.
FreeChain_Silent(p) ==
  /\ free' = free \cup Range(chain[p])
  /\ Goto(p, Caller(p))

\* free_chain(): the descriptors are free and whoever waits for them is woken.
FreeChain(p) ==
  /\ free' = free \cup Range(chain[p])
  /\ pc' = [Wake(DescSleepers, "rw") EXCEPT ![p] = Caller(p)]

\* virtio_disk_rw() after a wakeup, and `b->valid = 1' of bread().
EndRequest(p) ==
  /\ pc[p] = "rw_woken" /\ ~vdisk_lock
  /\ RequestDone(p)
  /\ panicked' = (Range(chain[p]) \cap free # {})
  /\ FreeChain(p)
  /\ info' = [d \in DOMAIN info \ {chain[p][1]} |-> info[d]]
  /\ chain' = [chain EXCEPT ![p] = << >>]
  /\ write' = [write EXCEPT ![p] = FALSE]
  /\ valid' = [valid EXCEPT ![buf[p]] = TRUE]
  /\ UNCHANGED <<blockno, refcnt, locked, latest, lru, avail, used, isr,
                 vdisk_lock, platter, disk, pinned, buf>>

\* virtio_disk_rw() woken for nothing.
SleepAgain(p) ==
  /\ pc[p] = "rw_woken" /\ ~vdisk_lock
  /\ ~RequestDone(p)
  /\ Goto(p, "rw_sleep")
  /\ UNCHANGED <<bufVars, devVars, pinned, procVars, panicked>>

\* kill() makes a sleeper RUNNABLE, whatever it waits for.
KillWakes(p) ==
  /\ pc[p] \in Asleep
  /\ Goto(p, CASE pc[p] = "lock_sleep" -> "lock"
               [] pc[p] = "desc_sleep" -> "rw"
               [] pc[p] = "rw_sleep"   -> "rw_woken")
  /\ UNCHANGED <<bufVars, devVars, pinned, procVars, panicked>>

\* virtio_disk_intr(): take the lock and acknowledge the interrupt.
IntrAck ==
  /\ isr /\ ~vdisk_lock
  /\ vdisk_lock' = TRUE
  /\ isr' = FALSE
  /\ UNCHANGED <<bufVars, free, info, avail, used, platter, disk, pinned, pc,
                 procVars, panicked>>

\* One turn of virtio_disk_intr()'s loop over the used ring.
IntrTurn ==
  /\ vdisk_lock /\ used # << >>
  /\ LET b == info[Head(used)].b
     IN /\ disk' = [disk EXCEPT ![b] = FALSE]
        /\ pc' = [q \in Hand |-> IF pc[q] = "rw_sleep" /\ buf[q] = b
                                  THEN "rw_woken" ELSE pc[q]]
  /\ panicked' = (info[Head(used)].status # "ok")
  /\ used' = Tail(used)
  /\ UNCHANGED <<bufVars, free, info, avail, isr, vdisk_lock, platter, pinned,
                 procVars>>

\* virtio_disk_intr() has seen the whole used ring.
IntrDone ==
  /\ vdisk_lock /\ used = << >>
  /\ vdisk_lock' = FALSE
  /\ UNCHANGED <<bufVars, free, info, avail, used, isr, platter, disk, pinned,
                 pc, procVars, panicked>>

\* The device carries out any published request, puts it on the used ring and
\* raises an interrupt.
DeviceCompletes(d) ==
  /\ d \in avail
  /\ avail' = avail \ {d}
  /\ LET b == info[d].b  k == blockno[b]
     IN IF info[d].write
        THEN /\ platter' = IF b \in latest THEN platter \cup {k}
                          ELSE platter \ {k}
             /\ UNCHANGED latest
        ELSE /\ latest' = IF k \in platter THEN latest \cup {b}
                         ELSE latest \ {b}
             /\ UNCHANGED platter
  /\ info' = [info EXCEPT ![d].status = "ok"]
  /\ used' = Append(used, d)
  /\ isr' = TRUE
  /\ UNCHANGED <<blockno, valid, refcnt, locked, lru, free, vdisk_lock, disk,
                 pinned, pc, procVars, panicked>>

-----------------------------------------------------------------------------

\* A step of p that is not its own choice.
Continue(p) ==
  \/ AcquireSleep(p) \/ Bunpin(p) \/ BrelseDeref(p)
  \/ StartRequest(p) \/ NoDescriptors(p) \/ EndRequest(p) \/ SleepAgain(p)

Interrupt == IntrAck \/ IntrTurn \/ IntrDone
Device == \E d \in Desc : DeviceCompletes(d)

Next ==
  /\ ~panicked
  /\ \/ \E p \in Hand, k \in Blocks :
          BgetHit(p, k) \/ BgetMiss(p, k) \/ BgetPanic(p, k)
     \/ \E p \in Hand : Continue(p) \/ BpinModified(p) \/ Bwrite(p)
                         \/ Brelse(p) \/ KillWakes(p)
     \/ Interrupt
     \/ Device

Spec == Init /\ [][Next]_vars

-----------------------------------------------------------------------------

\* One block is never cached in two buffers: two processes in bget() for the
\* same block end up with the same buffer and so with the same lock.
OneBufferPerBlock ==
  \A b, c \in Buffer : blockno[b] = blockno[c] /\ blockno[b] # NoBlock => b = c

\* Whoever holds a buffer behind bread() holds its lock and sees the latest
\* version of the block, through recycling, re-reading, spurious wakeups,
\* absorption and write-back.
HolderSeesLatest ==
  \A p \in Hand : pc[p] \in {"held", "written", "done"} =>
    locked[buf[p]] = p /\ valid[buf[p]] /\ buf[p] \in latest

\* A block whose latest version is not on the disk is in the cache, in a
\* buffer that bget() cannot recycle.
UnwrittenIsKept ==
  \A k \in Blocks \ platter : \E b \in Buffer :
    blockno[b] = k /\ b \in latest /\ refcnt[b] > 0

\* Every reference is accounted for: one per process that uses the buffer and
\* one for a pin.  A leak would make the cache shrink until bget() panics.
References ==
  \A b \in Buffer :
    refcnt[b] = Cardinality({p \in Hand : buf[p] = b})
                + (IF blockno[b] \in pinned THEN 1 ELSE 0)

\* The only panic there is comes from bget() when every buffer is really in
\* use by a process or pinned, and no assertion of bwrite(), brelse(),
\* free_desc() or virtio_disk_intr() fails: with two buffers for every process
\* and one for every pinned block the kernel does not stop (bio.c:88).
PanicsOnlyWhenFull ==
  panicked => NBUF < Cardinality(pinned) + 2 * Cardinality(Procs)
              /\ \A b \in Buffer : blockno[b] \in pinned \/ b \in Range(buf)

\* Every descriptor is free or in exactly one chain of a request.
DescriptorsOwned ==
  /\ \A p \in Hand : Range(chain[p]) \cap free = {}
  /\ \A p, q \in Hand : p # q => Range(chain[p]) \cap Range(chain[q]) = {}
  /\ free \cup UNION {Range(chain[p]) : p \in Hand} = Desc

\* No completion is lost: a request that the driver still waits for is with
\* the device, or on the used ring with an interrupt to come.
CompletionNotLost ==
  \A p \in Hand : chain[p] # << >> /\ disk[buf[p]] =>
    \/ chain[p][1] \in avail
    \/ chain[p][1] \in Range(used) /\ (isr \/ vdisk_lock)

\* Nobody waits for a wakeup that will not come: a sleeper of acquiresleep()
\* waits for a lock that another process holds, a sleeper of alloc3_desc() for a
\* request in flight, and one of virtio_disk_rw() for a request that is not
\* complete.
SleepersHaveWaker ==
  \A p \in Hand :
    /\ pc[p] = "lock_sleep" => locked[buf[p]] \notin {Nobody, p, Other(p)}
    /\ pc[p] = "desc_sleep" => \E q \in Hand : chain[q] # << >>
    /\ pc[p] = "rw_sleep" => chain[p] # << >> /\ disk[buf[p]]

\* The cache is coherent: one buffer per block, its holder alone with the
\* latest version, and nothing unwritten recycled (bget(), bread(), bpin()).
CacheCoherent == OneBufferPerBlock /\ HolderSeesLatest /\ UnwrittenIsKept

\* Buffers and descriptors are neither leaked nor used twice, and no assertion
\* of bio.c and virtio_disk.c fails as long as there are enough buffers.
ResourcesAccounted ==
  TypeOK /\ References /\ PanicsOnlyWhenFull /\ DescriptorsOwned

\* No wakeup and no completion is lost, though the device, the interrupt
\* handler and the sleeping processes race (virtio_disk_intr(),
\* virtio_disk_rw(), acquiresleep(), kill()).
NothingLost == CompletionNotLost /\ SleepersHaveWaker
=============================================================================
