# Verification of OSN: TLA+ models, model checking and proofs

The repository holds an operating systems course's work: xv6 for RISC-V with
three added schedulers and a few system calls (`Assignment 4`), three
multi-threaded programs (`Assignment 5`: a course simulation, a stadium
simulation, a dictionary server) and some file tools (`Assignment-1`). This
directory models the parts in which threads, interrupts and crashes meet, checks
them with TLC on small instances, and proves the central ones with TLAPS.

## The system

| Part | State | Operations | Meets others through | What is hard |
|---|---|---|---|---|
| Write-ahead log, `kernel/log.c` | `log.lh`, `outstanding`, `committing`; header and data blocks on disk | `begin_op`, `log_write`, `end_op`, `commit`, `recover_from_log` | buffer cache, disk, `sleep`/`wakeup` | crash between any two writes; commit without the lock; waiting for space |
| Buffer cache, `kernel/bio.c`, and sleep locks | `NBUF` buffers with contents, reference counts, sleep locks, LRU list | `bread`, `bwrite`, `brelse`, `bpin`, `bunpin` | log, file system, disk driver | recycling a buffer that is still needed; running out of buffers |
| Disk driver, `kernel/virtio_disk.c` | `NUM` descriptors, two rings, `disk.info` | `virtio_disk_rw`, `virtio_disk_intr` | buffer cache, device, interrupts | completion before the sleep, wakeup by `kill()`, too few descriptors |
| Inodes and directories, `kernel/fs.c`, `sysfile.c` | inode table with `ref`, `valid`, `nlink`; directories; bitmap | path lookup, open, create, mkdir, link, unlink, chdir, read, write, close | log, buffer cache, sleep locks | counts on error paths, freeing with the last reference, lock order |
| Open files and pipes, `kernel/file.c`, `pipe.c` | `ftable`, descriptors, ring of bytes | pipe, dup, close, read, write, fork, exit | process table, `sleep`/`wakeup`, `kill` | shared ends, last close, lost wakeups, wrapping counters |
| Memory, `kernel/kalloc.c`, `vm.c`, `exec.c` | free list, page tables, `p->sz` | fork, exit, wait, sbrk, exec | free list | `kalloc()` failing anywhere; undoing what was built |
| Console and UART, `kernel/console.c`, `uart.c` | two rings | read, write, interrupt handler | PLIC, device, `sleep`/`wakeup` | full rings, echo without the lock, lost interrupts |
| Process table, `kernel/proc.c` | `proc[NPROC]`, `wait_lock`, one lock per slot | `fork`, `exit`, `wait`, `sleep`, `wakeup`, `kill`, `yield`, `sched` | everything that sleeps | lost wakeups, freeing a slot in use, orphans |
| MLFQ scheduler, `kernel/proc.c`, `trap.c` | five rings, `level`, `timeinQ`, `inQ`, `qEnter` | `scheduler`, `ageing`, the ring operations, the clock interrupt | process table, clock | flag, level and ring must agree; starvation |
| PBS and FCFS schedulers, `kernel/proc.c` | priorities, run and sleep times | `scheduler`, `_setpriority` | process table, clock | unsigned arithmetic; interrupts in the idle loop |
| Dictionary, `Q3/server.cpp`, `client.cpp` | request queue, condition variable, 100 strings with a mutex and a flag each; threads of the client | main thread, `WorkerThread`, `LockedString` methods; `thread_handler` | sockets | check-then-act, lost signals, two mutexes, an end of the client |
| Stadium simulation, `Q2/main.c` | zones, seats, goals | spectator, zone and goal threads, `main` | timed condition waits, semaphores | timeout against signal |
| Course simulation, `Q1/main.c` | courses, labs, tutor quotas | course, lab and student threads | condition variables | waits without a predicate |
| Boot, traps, system call tables, user programs, mkfs, `Assignment-1` | | | | sequential |

The properties that make each part correct are the ones under "Modules" below.

## Modules

**TxnDisk** states what the log promises: a disk whose contents change
atomically, at a commit, when no system call is active, and which a crash takes
back to the last commit. It has no log, no cache and no header.

**Log** models `log.c` over a buffer cache reduced to contents, buffer locks and
pins. Everything under `log.lock` is one action: `BeginOp`, `LogWrite` (with its
panics, absorption and `bpin`), `EndOp`, `EndCommit`. `commit()` holds no lock, so
each of its disk writes is an action: `WriteLog` and `Install` once per block,
`WriteHead`, `Clear`. `Crash` keeps the disk and resets memory in any state;
`ReadHead`, `Recover`, `RClear` are `recover_from_log()`. `Bread`, `Modify`,
`Brelse` and `Recycle` are what system calls and the cache do with buffers. A disk
block is written atomically, which is what `virtio_disk_rw` is used for.

- `AtomicTransactions`: Log implements TxnDisk. The mapping reads `durable` off the
  disk as recovery would (`Durable`), `current` from cache and disk (`Visible`).
- `CommitsAlone`, `SleeperHasWaker`, `PinnedExactly`, `NoPanic`: invariants.
- `CommitReturnsDurable`: what holds when an `end_op()` that committed returns.
- `SleeperWakes`, `CommitEnds`, `RecoveryEnds`: liveness.

**Log_proofs** holds the invariance proofs about Log and the proof that it implements
TxnDisk.

**Proc** models the process table at the granularity of its locks. A critical
section that takes and gives back one lock is one action; `wait_lock` and the
`p->lock` that a process carries into `sched()` are held over several. `oncpu` is the
set of processes whose kernel stack a CPU runs on, which is what makes it visible
that `wait()` could free a slot too early. The loops of `reparent()`, `wakeup()` and
`wait()` take one action per slot. `Run` is the round-robin scheduler; memory is in
Vm, files are in Pipe and Inode. `yield()` is one action: that it enters `sched()` with
no lock but its own is taken from its three lines.

- `NoLostExit`, `FreedIsOffCpu`, `ParentsLive`, `SchedCallable`: invariants.
- `OrphansCollected`: liveness.

**Mlfq** models the multi-level feedback queues on one CPU: the ring operations as
pure operators with the code's index arithmetic (the empty ring is `front = -1`, and
`pq_init()` leaves a null element in slot 0), one action per turn of the scheduler's
loops, dispatch, the clock tick with the charge of the slice, fork, sleep, kill, exit and
wakeups by interrupts. The tick of a killed process in user space (`TickKilled`) charges it
and sends it into `exit()` before its slice is tested; from there (`dying`) interrupts are
off on the process's own path, so that it is not charged again. `age` stands for
`ticks - qEnter`. `removed` is a history variable: it records the first call of
`ProcQueueRemove()`, whose loop does not end on a ring of several elements; the properties
of the rings are about the time before, and none is about starvation.

- `QueuesHoldWaiting`: flag, level and ring agree.
- `SliceBounded`: `timeinQ` is within the slice, and 0 only in the `exit()` of a process
  that was killed.
- `DispatchesHighest`, `FirstInFirstOut`: action properties. The first process dispatched is
  of the highest level that has one; every ring is a queue.

**KvServer** models the dictionary server and its client. `Accept` and `Signal` are
the server's main thread, the actions of `Work` are `WorkerThread()` with the
`LockedString` methods inlined. The unlocked test of `empty` and the critical section
after it are different actions, and `concat()` takes its two mutexes in two. A string
is the sequence of clients whose values it is made of. A worker may come out of
`pthread_cond_wait()` without a signal for it (`SpuriousWakeup`), and then `front()` and
`pop()` may meet an empty queue (`PopNothing`). A request may have no number for a key
("malformed", on which `stoi()` throws) or name a key outside the array ("stray"). `down`
records that the server was ended by an exception or did something C++ leaves undefined,
after which the model says nothing. The client is one process with a thread per
request. What a thread does before the server looks (connecting before `accept()`,
sending before `read()`) is part of the server's step, which is exact because nobody
else can see it; that a thread has connected and not sent when the process ends is a
case of its own (`ReadAborts`).

- `OnlyDeleteCutsOff`: who is left without an answer, and what ends the client and the
  server.
- `NoEmptyPop`: what lets a worker pop an empty queue are spurious wakeups only.
- `PresentHasValue`, `NoLockCycle`: a present key has a value; no two workers wait for
  each other's mutexes.

**Disk** composes the buffer cache, its sleep locks and the virtio driver, used by
processes that read, modify, pin, write back and unpin blocks as `log.c` does. A block's
contents are reduced to whether a copy is the latest version. A process has two variables
for buffers (`Hand`), since `bmap()` and `itrunc()` call `balloc()` and `bfree()` while they
hold the indirect block, and `write_log()` and `install_trans()` copy from one buffer to
another; it works with one at a time (`Resting`). `Under` says who may ask for which second
block: in the code any, as long as it is another one. `used` is the queue of the
entries that `virtio_disk_intr()` has not looked at, `avail` the set of those the device
has not: the device (`DeviceCompletes`, external) takes requests in any order. `virtio_disk_intr()` acknowledges, looks at the used ring
and ends in three kinds of step (`IntrAck`, `IntrTurn`, `IntrDone`), since the device
runs meanwhile. `KillWakes` is the wakeup that `kill()` gives a sleeper of any channel.

- `CacheCoherent`: one buffer per block, the holder sees the latest version, nothing
  unwritten is recycled.
- `ResourcesAccounted`: references and descriptors are exact; `bget()` panics only when
  every buffer is in use, and there are fewer of them than two per process and one per
  pinned block; no other assertion fails.
- `NothingLost`: no completion and no wakeup is lost.

**Inode** models `fs.c` and the calls of `sysfile.c` on names. A process between two
lock acquisitions is one step, so a path lookup takes one step per directory (`Walk`),
`link()` and `unlink()` take three or four, and `iput()` two (`IputFree`, `IputDec`, the
second after `itable.lock` was released and taken again). `puts` holds the inodes a call
has yet to put. The disk and the cached copy (`mem`) are separate. `Init` is what `mkfs`
makes, without programs. A full disk, on which `balloc()` and `ialloc()` panic, ends
the behaviour. A process has one descriptor; `read()` and `write()` are at the end of the
file, in whole blocks.

- `FsConsistent`: link counts, entries, bitmap and cached inodes agree.
- `RefsExact`: `ip->ref` counts exactly the pointers there are.
- `NoPanicNoDeadlock`: no assertion fails (`ilock: no type`, `freeing free block`, a read
  that would allocate, the lock that `iput()` must get at once) and no two unlinks wait
  for each other.

**ByteQueue** is what a pipe promises: a bounded queue of bytes with two ends. **Pipe**
models `pipe.c`, `file.c` and the descriptors: `sys_pipe()` with `pipealloc()` and its
error paths, `dup`, `close`, `fork`, `exit`, reads and writes that sleep, and `kill()`.
`nread` and `nwrite` wrap at `WRAP`. Where the code reads `p->killed` or copies from user
space, both outcomes are allowed.

- `FilesExact`, `NoLostWakeup`: invariants; `IsByteQueue`: Pipe implements ByteQueue.

**Vm** models the page allocator and every call that builds or frees an address space.
A page table is its tree of pages with `FANOUT` entries each, and a step is one `kalloc()`
with what follows it, so two processes compete for the last pages at every point of
`fork()`, `exec()` and `sbrk()`. Sizes are in bytes and wrap at `UINT`.

- `PagesAccounted`: each page is free or has exactly one use.
- `AddressSpaces`: no panic of `vm.c`, and a process has the pages of its size.

**Console** models `console.c` and `uart.c` with the interrupt handler step by step:
claim, each character with its editing and echo (`EchoReady` spins under `cons.lock`
and writes to the transmitter without `uart_tx_lock`), and the output that is left.
`cons.r`, `cons.w`, `cons.e`, `cons.buf` are `cons_r`, `cons_w`, `cons_e`, `cons_buf`, and
`ConsoleInit`, `ConsoleNext`, `ConsoleSpec` have their prefix because one module holds the
proofs about Console and Disk.

- `InputReadable`: the parts of the input ring do not overlap, a full ring or a finished
  line can be read, and nobody sleeps while there is input.
- `OutputMoves`: nobody sleeps while the output ring has room, and output that waits has
  an interrupt to come.

**Stadium** models the stadium: spectators (`Reach` to `Leave`), zone threads (`Top`,
`SemWait`, `SemPost`, `SignalFans`), goal threads (`Shot`, `Announce`) and the joins of
`main()`, after which the process ends. Time is reduced to the fact that a deadline
passes at some moment; the goals of a shot are nondeterministic. The names that KvServer
has too carry `Stadium` or differ, since one module holds the proofs about both.

- `SeatsAccounted`: no seat is lost or given twice; `EveryoneLeaves`: liveness.

**Proc_proofs, Mlfq_proofs, Inode_proofs, Pipe_proofs, Vm_proofs** each extend the module
they are named after with an inductive invariant and the theorems under "Proofs";
**Drivers_proofs** does so for Disk and Console, **Assignment5_proofs** for KvServer and
Stadium.

**MCLog, MCProc, MCMlfq, MCKv, MCDisk, MCInode, MCPipe, MCVm, MCConsole, MCStadium**
instantiate these for TLC. Operators named `X_Something` next to an operator `X` are
mutants: what a plausible slip would make of the code. They are used by no
specification; each property is violated when its mutant takes the place of the
original, which shows that the property depends on that piece of code.

## Runs

| Run | Instance | Result |
|---|---|---|
| `log` | 3 processes, 2 blocks, 2 contents, 2 crashes, symmetric | refinement, invariants and the action property hold |
| `log_live` | 2 processes, 3 blocks, 1 crash, fair | the waiting, the commits and the recoveries end; no panic |
| `proc` | 3 slots, 2 CPUs, 4 pids, kills of two | invariants hold |
| `proc_live` | 3 slots, 1 CPU, 3 pids, fair | orphans are collected |
| `mlfq` | 3 processes, 2 levels, one process killed | ring, slice and priority properties hold |
| `kv` | 5 client threads, 2 workers, 2 keys, every operation, 1 spurious wakeup | invariants hold |
| `disk` | 3 processes with 2 variables, 4 blocks, 3 buffers, 7 descriptors, 1 pin | invariants hold |
| `inode` | 2 processes, 3 inodes, 4 blocks, 2 names, paths of one and two names | invariants hold |
| `pipe` | 3 processes, 1 pipe at a time, ring of 2 bytes, counters up to 4 | invariants and refinement hold |
| `vm` | 3 processes, 23 pages, tables with 2 entries | invariants hold |
| `console` | 2 readers, 1 writer, input ring of 2, output ring of 1 | invariants hold |
| `stadium` | 2 spectators, 1 goal, 1 seat per zone, fair | seats are accounted for and everyone leaves |

### Bounds, and why they are enough

- Log: two processes inside a transaction and a third waiting is the smallest case
  in which group commit, absorption and a lost wakeup are possible. Two crashes let
  a recovery itself be interrupted. `MaxCrashes` bounds the crashes. `LOGSIZE` is
  `LogBlocks`, as in `mkfs.c`; the numbers are scaled so that a second call fits into
  an empty log only. `log_live` has as many blocks as the log has slots, so that
  admission by a wrong estimate overruns it; `OpBlocks` is below `MAXOPBLOCKS` there
  as it is in the kernel's real calls.
- Proc: three slots give init, a parent and a child, and reuse of a slot; two CPUs
  are needed for any race. `MaxPid` bounds the pids, hence the forks. `KillPids` are
  the pids that somebody kills.
- Mlfq: three processes make a queue of more than one behind the one that runs, and the
  indices of a ring of three wrap; two levels allow demotion and ageing. The constraint
  `BeforeRemove` cuts off what follows the first `ProcQueueRemove()`; `OneKilled` lets one
  process be killed. The view leaves out the contents of slots not in use.
- KvServer: two inserts, two concats that meet and a request besides need five threads;
  two workers are enough to race. One spurious wakeup (`MaxSpurious`) is enough to pop an
  empty queue, and to pop the request another worker was woken for. The view leaves out what strings are made of and the
  requests of connections that were answered and closed: nothing depends on them.
- Disk: seven descriptors are two chains and one left over, so that the third process
  takes one and gives it back; three buffers for four blocks are recycled, and with one
  pinned or two in one process the cache is exhausted. `MaxPins` bounds the pins. A block of
  the log may be held while the block that it is a copy of is asked for (`UnderLogged`). The
  constraint `FewBuffers` keeps the instance small: the two other blocks are only read, one
  block is written at a time, and at most three variables have a buffer. Processes are
  interchangeable, and so are the two other blocks.
- Inode: three inodes are the root, a directory and a file. A file reaches its
  indirect block with its second block (`NDIRECT` 1, `MAXFILE` 2). One process works on
  files, the other on directories, and both unlink. The view counts blocks instead of
  naming them.
- Pipe: one pipe with both its files fills the file table, so that a second `pipe()`
  fails; three processes share an end and sleep on both channels. A byte differs from
  the one it replaces in the ring. `MaxKilled` bounds the kills that are pending.
- Vm: 23 pages are two full address spaces and most of a third. The view counts pages
  instead of naming them, which tells apart what the properties tell apart.
- Console: rings of 2 and 1 fill up with one line; all indices wrap. The view leaves out
  the places of the ring that hold no input. `MaxRx` bounds what waits in the receiver.
- Stadium: an away fan and a neutral fan compete for one seat. `Totals` are the values
  the sum that `main()` builds from uninitialized numbers may have, `MaxInvalid` the
  spectators with an invalid `tv_nsec`.

### Fairness

- Log: a process that can go on does (weak fairness). A system call writes finitely
  many blocks, releases its buffer and ends, and a commit that waits for a buffer that
  readers hold on and off gets it (strong fairness, the sleep lock's queue). Crashes
  are not fair. Begin of a call is fair only for a process that was woken.
- Proc: the timer interrupts every process and `scheduler()` scans the whole table,
  so `Run` and `Yield` are strongly fair, and so is getting a spin lock that is free
  again and again. Only init is assumed to call `wait()` for ever, as `init.c` does.
- Stadium: a spectator's thread goes on when it can, and his deadline passes. Zone and
  goal threads owe him nothing.

Deadlock is not checked where the system may stop: when all clients are served (`kv`),
after the kernel's panic on a full cache or a full disk (`disk`, `inode`), when all
processes have ended or sleep on a pipe they hold themselves (`pipe`), and after the end
of `main()` (`stadium`). It is checked in the other runs.

## Known behaviours

Things the models show the code to do that a reader may not expect. The properties are
stated so that they hold with them.

- `log_write()` panics one block before the log space that `begin_op()` shares out is
  used up, since the header takes one of the `LOGSIZE` blocks (`log.c:133`, `220`,
  `mkfs.c:25`). No call of this kernel writes enough blocks to reach it.
- A `kill()` between `wait()`'s test of `p->killed` and `sleep()`'s acquire is not
  noticed by the victim (`proc.c:457`, `772`); `kill(0)` marks a free slot and
  `allocproc()` does not reset the mark (`proc.c:818`).
- `ProcQueueRemove()` does not advance its index: `ageing()` on a ring with several
  processes never returns, and on another one drops the last process, whoever was to be
  removed (`proc.c:963`), while `Assignment 4/REPORT.md:35` says that it moves the element to
  the end first. So a process that is kept waiting for more than `AGE` ticks in a ring stops
  the scheduler, or leaves a ring that disagrees with the flags, and it may never run.
- The dictionary server loses a signal sent while all workers are busy, and the request
  stays queued (`server.cpp:169-171`, `354`). Two inserts of one key can both succeed
  (`server.cpp:59-62`). `pthread_cond_wait()` is not in a loop that tests a condition: a
  spurious wakeup, which POSIX allows, makes a worker pop an empty queue, which is undefined
  (`server.cpp:169-176`). A request without a number where a key belongs ends the server
  with an exception nobody catches (207, 257), and the range of a key is not checked. A successful delete is not answered (`server.cpp:271-276`), the
  client takes this for a lost server and exits (`client.cpp:14-18`), and a thread of it
  that had connected and not sent yet then ends the server (`stoi` of an empty string).
- `bget()`'s panic is reachable: 64 processes may hold two buffers each, and there are 30
  (`bio.c:88`, `fs.c:394-400`, `424-431`). Processes that fail to get three descriptors wake each other
  (`virtio_disk.c:194-219`).
- What is created in a directory that was removed while it was somebody's current
  directory loses its name with it, and keeps its inode (`lost` in Inode). A `chdir("..")`
  from such a directory reaches `ilock: no type` (`fs.c:310`) when its parent was removed
  and freed too; the paths of the run do not contain `..`, and `NeverStopped` assumes as
  much (`NoParentPaths`).
- `pipewrite()` of a killed process returns without waking the readers of what it has
  stored (`abandoned` in Pipe); `piperead()` drops a byte whose `copyout()` fails.
- `uartintr()` reads input for as long as input comes (`uart.c:182-187`).
- The stadium's `done` is set after the first spectator is joined (line 350), so the
  zones stop signalling early and the others wait until their patience ends. A zone
  with no seats blocks its thread for ever and `main()` with it. `total_people` adds
  uninitialized numbers (277-281) and `tv_nsec` is not initialized (52): with an
  invalid value the timed wait returns at once and the spectator tries again and again.

## Proofs

The theorems hold for every value of the constants that the named assumption of the
module allows. Each safety theorem `Spec => []P` comes from an inductive invariant
`IInv`, a conjunction of named parts: `InitIInv`, one lemma per action (or group of
actions) that it is preserved, `NextIInv`, and `IInv => P`. None of the properties is
inductive by itself.

### Log (`Log_proofs`)

Any sets of processes, blocks and contents, any number of crashes, any log that one
call fits into (`LogAssumption`; `Proc` may even be infinite).

| Theorem | States |
|---|---|
| `TypeCorrect` | `TypeOK` |
| `CommitIsAlone` | `CommitsAlone` |
| `NoLostWakeup` | `SleeperHasWaker` |
| `PinsMatch` | `PinnedExactly` |
| `NeverPanics` | `NoPanic`, under `ReservationCovers` |
| `Refinement` | `AtomicTransactions`: `Spec => TxnDisk!Spec` |
| `CommitDurable` | `CommitReturnsDurable` (action property) |

The first four follow from `IInv`. `TypeOK` is not inductive: `install_trans()` subtracts
from pin counts, `end_op()` from `outstanding`, and the loops index `log.lh` and the data
blocks. `IInv` adds

- `Counting`: `outstanding` is the number of processes in a transaction, a finite set,
- `Committer`: `committing` is set exactly in the phases of `commit()`, one process is
  in it and none in a transaction,
- `Owing`, `Booting`: who may owe a `log_write()`, and that nobody runs during recovery,
- `InLoop`, `Headers`: the loop index is inside `log.lh`, both headers fit in the log
  area and name no block twice,
- `EmptyWhenIdle`: an idle log nobody uses is empty, which is why `begin_op()` never
  sleeps with nobody to wake it.

`PinnedExactly` is part of `IInv` because `install_trans()`'s decrement needs it, and it
needs `Headers`: the pin that is dropped is the only one because `lh` names each block once.

`NeverPanics` counts. `Room` says that the transaction and the blocks which the active
calls have reserved and not used (the set `Reserved`) fit together in `LOGSIZE`. That is
one block more than `log_write()` can fill, since the header lives in the log area, so the
proof also needs that calls leave something of their reservation unused: two active calls
leave two remainders, and `Alone` says that a call alone in a transaction either follows
one that left a remainder or wrote the whole transaction itself. The hypothesis
`ReservationCovers` is `OpBlocks < MAXOPBLOCKS`, `OpBlocks < LogBlocks - 1` and
`LOGSIZE - 2 * (MAXOPBLOCKS - OpBlocks) < LogBlocks - 1`. With the kernel's 30, 30 and 10
it holds for calls of up to 9 blocks; the largest, a `write()`, changes four data blocks
at most, the inode, the indirect block and the one bitmap block (`file.c:155`). The
instances of `log` and `log_live` satisfy it. A call of 10 blocks would not (see "Known
behaviours").

`Refinement` needs what the blocks hold. `CInv` says that a buffer in use is cached
(`InUseCached`), that a buffer differs from its home block only if it is pinned or its
holder owes a `log_write()` (`Clean`), how far `write_log()` and `install_trans()` have
copied (`Copied`, `Installed`), and what the header on disk is in each phase
(`HeaderWritten`). `BlocksHold` is `Spec => []CInv`. Then `BeginOp` and `EndOp` map to begin
and end of TxnDisk, `Modify` to its write, `WriteHead` to its commit and `Crash` to its
crash, and all other steps to stutters:
`Install` changes home blocks under a header that already counts, and recovery repeats it.

### Process table (`Proc_proofs`)

Any number of slots, CPUs and pids. `TypeCorrect`, `NoExitLost` (`NoLostExit`),
`FreedOffCpu` (`FreedIsOffCpu`), `NoOrphans` (`ParentsLive`), `SchedNeverPanics`
(`SchedCallable`). The invariant says at which labels which lock is held (`Locks`), what
a CPU may run (`Running`), that a child being forked is nobody else's (`Children`), that
init lives (`InitLives`), that whoever is a parent is alive (`Parents`), and, for the loops
of `reparent()`, `wait()` and `wakeup()`, what holds of the slots already passed
(`Reparenting`, `Scanning`, `Waking`). `ZombiesSeen` is `NoLostExit` extended to the states
in which `wait_lock` is held: a parent of a zombie waits only if it is init, was just given
the zombie by `reparent()`, and `wakeup(initproc)` has not come to its slot yet.

### MLFQ (`Mlfq_proofs`)

Any `NPROC` above 1 and any number of levels. `TypeCorrect`, `SlicesBounded`
(`SliceBounded`), `QueuesHold` (`QueuesHoldWaiting`), and the action property
`HighestFirst` (`DispatchesHighest`). `TInv` (types, slices, what the CPU runs) holds
always. `QInv` holds until the first `ProcQueueRemove()`: every ring is a ring (`Rings`),
who stands in one is marked and on its level (`StandersMarked`), once (`StandOnce`), and who
is marked stands (`MarkedStand`). That a ring never overflows is a pigeonhole argument:
its occupied slots hold different processes, and the one that is enqueued is not among
them. `timeinQ` may be 0 in `exit()` (`dying`) and nowhere else: `SliceBounded` is inductive
with `TInv`, since a dying process is charged no more. The null element that `pq_init()` leaves in every ring makes the first pass of
`scheduler()` special; `FirstPass` describes it, and after it `NoDummies` and `HigherEmpty`
hold. `NPROC > 1` keeps the index arithmetic of a ring apart from its empty case.
`SliceAssumption` says that `2^l` is a positive number for every level; it is true of every
instance (TLC evaluates it), and an assumption only because the provers know no
exponentiation.

### Dictionary server (`Assignment5_proofs`)

Any number of client threads, workers and keys and any set of requests (`KvAssumption`).
`AnswersSent` (`OnlyDeleteCutsOff`), `EmptyPopsSpurious` (`NoEmptyPop`), `PresentKeys`
(`PresentHasValue`), `MutexesOrdered` (`NoLockCycle`). `Signals` is the counting argument
behind `NoEmptyPop`: the workers that were woken, plus the signal main still owes, are at
most as many as the requests in the queue and the spurious wakeups there were. `Serving` and `Queued` keep connections apart,
`Handling` says which request a worker can have at which label, and `Mutexes` that the only
mutex held between two steps is the smaller one of a `concat()`. From it `SomeoneGoesOn`
concludes that in every set of waiting workers one waits for a mutex outside the set's.

### Buffer cache and disk driver (`Drivers_proofs`)

Any finite set of processes, any set of blocks, any relation `Under` that relates no block
to itself (no function asks for a block it holds, or it would wait for its own lock), any
number of buffers, and at least three descriptors (`DiskAssumption`). `Coherent` (`CacheCoherent`), `Accounted`
(`ResourcesAccounted`), `NeverLost` (`NothingLost`). Besides types the invariant says

- which labels hold a buffer's sleep lock, have a buffer or a chain (`AtLabels`, `Locks`),
- what the LRU list is: an enumeration of the buffers with no reference (`LruOK`),
- that the head of a chain describes its owner's request (`Chains`) and is, until
  `b->disk` is cleared, in exactly one of the rings (`InFlight`, `Owned`, `UsedOK`),
- that what is on the used ring has an interrupt to come or a handler at work
  (`IntrToCome`): the device sets the interrupt after it appends, the handler
  acknowledges before it looks,
- what is read and what is written (`ValidAt`, `Completed`, `WrittenBack`), and that a
  block which is newer in the cache than on disk is in a valid buffer that is pinned or
  being written (`Unwritten`, `PinnedCached`, `ValidLatest`).

`NotTwice` adds that the two variables of a process have different buffers (`TwoBuffers`):
a process that sleeps in `acquiresleep()` waits for another one. The bound on `bget()`'s
panic counts the blocks that are pinned and the variables other than the one that asks.
`Removed` is the lemma about taking a buffer out of the LRU list.

### Pipes (`Pipe_proofs`)

Any finite set of processes, any number of files, descriptors and pages, any ring size and
counters that wrap at a larger multiple of it (`PipeAssumption`, true of `PIPESIZE` 512
and 32-bit counters). `FilesCounted` (`FilesExact`), `WakeupsReach` (`NoLostWakeup`),
`BytesInOrder` (`IsByteQueue`: `Spec => Queue!Spec`). The invariant says what a process has pending between `filealloc()` and the descriptor
(`TodoOK`, `PendingOwn`), that one file stands for an end of a pipe and one `pipeclose()`
takes it down (`OneFileAnEnd`, `OnePipeClose`), that a call holds the end it works on
(`CallsHold`, `OpenHavePipe`), and that the counts and the open ends are exact (`Counted`,
`EndsOpen`). The reference counts are cardinalities, so `fork()` and `exit()`, which change
many descriptors at once, need lemmas about what they add and remove.

`BytesInOrder` needs one more invariant, `Bounded`: between `nread` and `nwrite`, counted
around the wrap, are at most `PIPESIZE` bytes. A counter that wraps at a multiple of
`PIPESIZE` keeps its place in the ring, and two places less than `PIPESIZE` apart differ, so
`Store` overwrites no byte that waits. Then `SysPipe` maps to the creation of a queue,
`PipeWrite` to the insertion of the bytes it stores, `ReadCopy` to taking the oldest, and
`PipeClose` to closing an end; all other steps leave the pipes alone. The lemmas on division
with remainder are proved from the order of the integers, since the SMT backend knows `%`
only for constant moduli.

### Console and UART (`Drivers_proofs`)

Any sets of readers and writers, rings of any size, indices that wrap at any larger multiple
of it (`ConsoleAssumption`). `InputIsReadable` (`InputReadable`), `OutputIsSent`
(`OutputMoves`). The invariant says that `cons_r`, `cons_w` and `cons_e` are in this order around the ring
and that a full ring has something to read (`Indices`), that no end of a line stands in what
is edited (`Editing`), and, for the two kinds of sleepers, when they sleep (`ReadersWoken`,
`WritersWoken`). The room for a character is found before its echo waits for the
transmitter: `Echoing` keeps it, since `cons.lock` is held meanwhile. `Transmitter` and
`OutputToCome` are about the register that the echo writes without `uart_tx_lock`: it can
hold back output only while an interrupt is on its way.

### Inodes (`Inode_proofs`)

Any finite set of processes, any numbers of inodes and blocks, any finite set of names and any
paths, of any length and with `..` (`InodeAssumption`). `ReferencesCounted` (`RefsExact`),
`FileSystemConsistent` (`FsConsistent`), `NeverStopped` (`NoPanicNoDeadlock`, for paths
without `..`).

`RefsExact` counts the pointers of all kinds over all processes. A step moves the pointers of
one process only, so `Holds`, what a process points to, is compared before and after with the
change of `ip->ref`. `IInv` adds `OpAt`: which field of a call holds an inode at which label,
so that an error path that puts too much or too little is seen.

The file system is `FInv`. `FsInv` is what is true of the disk: `LinkCount`, `BlocksOwned`,
`TableIsDisk`, `Shapes` (only directories have entries, and all have `..`), `Tree` (an entry
names an inode in use; a directory has one name, in the directory its `..` names, and no two
name each other) and `Sizes`. `Holders` is what processes rely on as long as the kernel has
not panicked: what a process has locked once and still points to is in use, what it has
locked is in the table, its `unlink()` still finds the entry it looked up. `Keeps` is what a
step owes the others; it holds of `iput()` because of the reference counts: the last
reference is the one being put (`LastUnheld`), so that nobody points to the inode that is
freed, and it has no name because its link count is zero (`UnlinkedIsGone`). Its lock is free
for the same reason, which is why `iput()` may take it under a spin lock. `create()`,
`link()` and `unlink()` go through the link sets: an entry is added or erased in the step
that changes `nlink`, or in a later one with the difference in `Pending`. `NoCycle` derives
from `Tree` that two `unlink()` cannot each hold the other's child.

`NoParentPaths` is needed: with `..` among the paths TLC finds the panic under "Known
behaviours" within a few seconds. The instance of `inode` satisfies it.

### Address spaces (`Vm_proofs`)

Any number of processes, any fan-out of page tables, any page size, any width of the sizes
and any arguments of `sbrk()` and `exec()` (`VmAssumption`: the largest image ends below the
trapframe, since memory runs out before addresses do, and memory has the seven pages that
`userinit()` takes). `VmPagesAccounted` (`PagesAccounted`), `VmAddressSpaces`
(`AddressSpaces`), both from `VmInvariant`. The invariant has four parts.

- `Trees`: page tables are trees. Some assignment of levels to pages (`Levels`) puts a table
  one level below the entry that owns it, and no page is owned by two entries (`Once`).
  With the levels `walk()` and `freewalk()`, which follow pointers, become facts about the
  digits of an address (`Digits`), and two images share no table.
- `OneHolder`: a page has exactly one holder, which is the free list, an entry of a table,
  or one pointer of a process or of a system call: `p->trapframe`, the root of `p->pagetable`,
  the root of a page table in the making, `mem` between `kalloc()` and `mappages()`, the
  pages of `argv[]`. A step moves the pages of one process and one slot, so `Preserved` asks
  of it only that it keeps the number of holders among these (`Count`).
- `SlotOK`: what a slot of the table has by its state. Its image is `ImageIs`: mapped below
  the rounded size, with at most one guard page there, and at the trampoline and the
  trapframe, and nowhere else.
- `CallOK`: how far `fork()`, `sbrk()` and `exec()` have come at each label (`Mapping`), so
  that when `kalloc()` fails the pages to undo are those the call has mapped.

`LeavesTrees` is the lemma that all changes of leaves go through, and `UnmapDone` the one
about `uvmunmap()`: it frees the pages it unmaps and no other. Tables that `walk()` adds and
the bare root of `uvmcreate()` are pages like any other to `OneHolder`. That `Uses`, the
property's list of what pages are used for, is what the holders hold is `UseHolds`.

### Stadium (`Assignment5_proofs`)

Any number of spectators `1..n`, seats and goals (`StadiumAssumption`). `NoSeatLost`
(`SeatsAccounted`). The part `Trying` keeps the index into a fan's list of zones inside
the list: `sem_trywait()` is called with the zone it names.

### Only model-checked

- All liveness: `SleeperWakes`, `CommitEnds`, `RecoveryEnds`, `OrphansCollected`,
  `EveryoneLeaves`. Fairness is outside the prover's reach.
- `FirstInFirstOut`: the order of a ring, which the proofs treat as a set.

## Not modelled

- Several CPUs running the MLFQ scheduler: its rings have no lock. The PBS and FCFS
  schedulers, which a compile-time switch selects instead.
- Torn writes of a disk block, disk errors.
- What the dictionary server does after undefined behaviour.
- The output of the kernel's `printf()`, which writes to the transmitter as the echo does,
  and which processes `procdump()` prints on `^P`.
- `mknod` and device files, several descriptors of one process in Inode, `.` and hard
  limits on names; the number of inodes in use never reaches `NINODE`.
- The bytes of user memory, the kernel's own page table, the interrupt nesting of
  `push_off()`.
- The course simulation (`Q1`): its threads share one structure with waits that have no
  predicate; it would be a module like Stadium.
- Boot, the system call tables and their tracing, user programs, `Assignment-1`:
  sequential, tested by `usertests.c` or by running them.

## Plan

The course simulation, the PBS scheduler's arithmetic, device files in Inode, and several
CPUs that run the MLFQ scheduler.
