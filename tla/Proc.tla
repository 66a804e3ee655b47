-------------------------------- MODULE Proc --------------------------------
(***************************************************************************)
(* The life of a process in the xv6 kernel (kernel/proc.c): fork, exit,    *)
(* wait, kill, sleep, wakeup, yield and the hand-over to the scheduler, at *)
(* the grain of the spin locks p->lock and wait_lock.  Kernel threads on   *)
(* several CPUs interleave wherever no lock forbids it.                    *)
(*                                                                         *)
(* A stretch of code that runs under one lock, and whose effects nobody    *)
(* can see without that lock, is one step.                                 *)
(***************************************************************************)
EXTENDS Naturals, FiniteSets

CONSTANTS NPROC,     \* size of the process table
          NCPU,      \* number of CPUs
          MaxPid,    \* bound on allocpid(): fork stops above it
          KillPids   \* arguments that users pass to kill()

ASSUME ProcAssumption ==
  /\ NPROC \in Nat \ {0}
  /\ NCPU \in Nat \ {0}
  /\ MaxPid \in Nat \ {0}
  /\ KillPids \subseteq Nat

Slot == 1..NPROC
NoProc == 0
initproc == 1

VARIABLES
  state,      \* p->state
  pid,        \* p->pid, 0 when unused
  parent,     \* p->parent
  chan,       \* p->chan: the process it sleeps on, or NoProc
  killed,     \* p->killed
  lock,       \* holder of p->lock, or NoProc
  wait_lock,  \* holder of wait_lock, or NoProc
  nextpid,    \* next pid
  oncpu,      \* processes whose kernel stack some CPU is running on
  pc,         \* per process: where its kernel thread is
  child,      \* per process: np of a fork() in progress
  i,          \* per process: index of the loops of reparent() and wait()
  w,          \* per process: index of the loop of wakeup()
  havekids    \* per process: havekids of wait()

tableVars == <<state, pid, parent, chan, killed>>
lockVars  == <<lock, wait_lock>>
vars == <<state, pid, parent, chan, killed, lock, wait_lock, nextpid, oncpu,
          pc, child, i, w, havekids>>

States == {"UNUSED", "USED", "SLEEPING", "RUNNABLE", "RUNNING", "ZOMBIE"}

\* Between two critical sections; the timer may take the CPU here.
Preemptible == {"user", "fork_parent", "fork_run", "exit", "wait", "woken"}
Labels == Preemptible \cup
          {"reparent", "reparent_wakeup", "exit_wakeup", "zombie_lock",
           "zombie", "scan", "sleep_lock", "sleep", "sched"}

TypeOK ==
  /\ state \in [Slot -> States]
  /\ pid \in [Slot -> Nat]
  /\ parent \in [Slot -> Slot \cup {NoProc}]
  /\ chan \in [Slot -> Slot \cup {NoProc}]
  /\ killed \in [Slot -> BOOLEAN]
  /\ lock \in [Slot -> Slot \cup {NoProc}]
  /\ wait_lock \in Slot \cup {NoProc}
  /\ nextpid \in 1..(MaxPid + 1)
  /\ oncpu \subseteq Slot
  /\ pc \in [Slot -> Labels]
  /\ child \in [Slot -> Slot \cup {NoProc}]
  /\ i \in [Slot -> 1..(NPROC + 1)]
  /\ w \in [Slot -> 1..(NPROC + 1)]
  /\ havekids \in [Slot -> BOOLEAN]

\* After userinit(): the first process is RUNNABLE, the rest of the table free.
Init ==
  /\ state = [s \in Slot |-> IF s = initproc THEN "RUNNABLE" ELSE "UNUSED"]
  /\ pid = [s \in Slot |-> IF s = initproc THEN 1 ELSE 0]
  /\ parent = [s \in Slot |-> NoProc]
  /\ chan = [s \in Slot |-> NoProc]
  /\ killed = [s \in Slot |-> FALSE]
  /\ lock = [s \in Slot |-> NoProc]
  /\ wait_lock = NoProc
  /\ nextpid = 2
  /\ oncpu = {}
  /\ pc = [s \in Slot |-> "user"]
  /\ child = [s \in Slot |-> NoProc]
  /\ i = [s \in Slot |-> 1]
  /\ w = [s \in Slot |-> 1]
  /\ havekids = [s \in Slot |-> FALSE]

-----------------------------------------------------------------------------

\* Thread p is on a CPU at label from.
At(p, from) == p \in oncpu /\ pc[p] = from

Goto(p, to) == pc' = [pc EXCEPT ![p] = to]

\* The lock of slot s is free: a step that takes it and gives it back needs it.
Free(s) == lock[s] = NoProc

(***************************************************************************)
(* Scheduling.                                                             *)
(***************************************************************************)

\* scheduler() picks s and switches to it; s comes back from sched(), or
\* starts in forkret(), and releases its own lock.
Run(s) ==
  /\ Cardinality(oncpu) < NCPU
  /\ Free(s)
  /\ state[s] = "RUNNABLE"
  /\ state' = [state EXCEPT ![s] = "RUNNING"]
  /\ chan' = [chan EXCEPT ![s] = NoProc]
  /\ oncpu' = oncpu \cup {s}
  /\ UNCHANGED <<pid, parent, killed, lockVars, nextpid, pc, child, i, w,
                 havekids>>

\* yield() at a timer interrupt.
Yield(p) ==
  /\ p \in oncpu
  /\ pc[p] \in Preemptible
  /\ Free(p)
  /\ state' = [state EXCEPT ![p] = "RUNNABLE"]
  /\ oncpu' = oncpu \ {p}
  /\ UNCHANGED <<pid, parent, chan, killed, lockVars, nextpid, pc, child, i,
                 w, havekids>>

\* sched() from sleep() or exit(), and the scheduler's release of p->lock.
\* A sleeper goes on in sleep() when it is run again.
Sched(p) ==
  /\ At(p, "sched")
  /\ lock' = [lock EXCEPT ![p] = NoProc]
  /\ oncpu' = oncpu \ {p}
  /\ Goto(p, IF state[p] = "ZOMBIE" THEN "user" ELSE "woken")
  /\ UNCHANGED <<tableVars, wait_lock, nextpid, child, i, w, havekids>>

\* Mutant: the loop wakes nobody.
WakeupTurn_Nobody(p, c) ==
  /\ w[p] <= NPROC
  /\ w' = [w EXCEPT ![p] = @ + 1]
  /\ UNCHANGED <<state, pc, i>>

\* One turn of wakeup(c)'s loop: slot w[p] is woken if it sleeps on c.
WakeupTurn(p, c) ==
  /\ w[p] <= NPROC
  /\ w[p] # p => Free(w[p])
  /\ state' = IF w[p] # p /\ state[w[p]] = "SLEEPING" /\ chan[w[p]] = c
              THEN [state EXCEPT ![w[p]] = "RUNNABLE"] ELSE state
  /\ w' = [w EXCEPT ![p] = @ + 1]
  /\ UNCHANGED <<pc, i>>

\* wakeup() returns to label to.
WakeupDone(p, to) ==
  /\ w[p] > NPROC
  /\ w' = [w EXCEPT ![p] = 1]
  /\ Goto(p, to)
  /\ UNCHANGED state

(***************************************************************************)
(* fork()                                                                  *)
(***************************************************************************)

\* allocproc() and the copying, under np->lock.  Which free slot comes first
\* is left open.
ForkAlloc(p, np) ==
  /\ At(p, "user") /\ ~killed[p]
  /\ nextpid <= MaxPid
  /\ Free(np) /\ state[np] = "UNUSED"
  /\ state' = [state EXCEPT ![np] = "USED"]
  /\ pid' = [pid EXCEPT ![np] = nextpid]
  /\ nextpid' = nextpid + 1
  /\ child' = [child EXCEPT ![p] = np]
  /\ Goto(p, "fork_parent")
  /\ UNCHANGED <<parent, chan, killed, lockVars, oncpu, i, w, havekids>>

\* kalloc(), proc_pagetable() or uvmcopy() failed: freeproc(), pid is lost.
ForkFail(p, np) ==
  /\ At(p, "user") /\ ~killed[p]
  /\ nextpid <= MaxPid
  /\ Free(np) /\ state[np] = "UNUSED"
  /\ nextpid' = nextpid + 1
  /\ killed' = [killed EXCEPT ![np] = FALSE]
  /\ UNCHANGED <<state, pid, parent, chan, lockVars, oncpu, pc, child, i, w,
                 havekids>>

\* np->parent = p, under wait_lock.
ForkParent(p) ==
  /\ At(p, "fork_parent")
  /\ wait_lock = NoProc
  /\ parent' = [parent EXCEPT ![child[p]] = p]
  /\ Goto(p, "fork_run")
  /\ UNCHANGED <<state, pid, chan, killed, lockVars, nextpid, oncpu, child, i,
                 w, havekids>>

\* np->state = RUNNABLE, under np->lock.
ForkRun(p) ==
  /\ At(p, "fork_run")
  /\ Free(child[p])
  /\ state' = [state EXCEPT ![child[p]] = "RUNNABLE"]
  /\ child' = [child EXCEPT ![p] = NoProc]
  /\ Goto(p, "user")
  /\ UNCHANGED <<pid, parent, chan, killed, lockVars, nextpid, oncpu, i, w,
                 havekids>>

(***************************************************************************)
(* exit(), of any process but init.                                        *)
(***************************************************************************)

ExitStart(p) ==
  /\ At(p, "user")
  /\ p # initproc
  /\ Goto(p, "exit")
  /\ UNCHANGED <<tableVars, lockVars, nextpid, oncpu, child, i, w, havekids>>

ExitLock(p) ==
  /\ At(p, "exit")
  /\ wait_lock = NoProc
  /\ wait_lock' = p
  /\ i' = [i EXCEPT ![p] = 1]
  /\ Goto(p, "reparent")
  /\ UNCHANGED <<tableVars, lock, nextpid, oncpu, child, w, havekids>>

\* Mutant: the loop has no end.
Reparent_Endless(p) ==
  /\ At(p, "reparent")
  /\ i' = [i EXCEPT ![p] = @ + 1]
  /\ UNCHANGED <<tableVars, lockVars, nextpid, oncpu, pc, child, w, havekids>>

\* Mutant: the children are not given to init.
Reparent_Nobody(p) ==
  /\ At(p, "reparent")
  /\ Goto(p, "exit_wakeup")
  /\ UNCHANGED <<tableVars, lockVars, nextpid, oncpu, child, i, w, havekids>>

\* One turn of reparent()'s loop, or its end.
Reparent(p) ==
  /\ At(p, "reparent")
  /\ \/ /\ i[p] > NPROC
        /\ Goto(p, "exit_wakeup")
        /\ UNCHANGED <<parent, i>>
     \/ /\ i[p] <= NPROC /\ parent[i[p]] = p
        /\ parent' = [parent EXCEPT ![i[p]] = initproc]
        /\ Goto(p, "reparent_wakeup")
        /\ UNCHANGED i
     \/ /\ i[p] <= NPROC /\ parent[i[p]] # p
        /\ i' = [i EXCEPT ![p] = @ + 1]
        /\ UNCHANGED <<parent, pc>>
  /\ UNCHANGED <<state, pid, chan, killed, lockVars, nextpid, oncpu, child, w,
                 havekids>>

\* wakeup(initproc) of reparent()
ReparentWakeup(p) ==
  /\ At(p, "reparent_wakeup")
  /\ \/ WakeupTurn(p, initproc)
     \/ /\ WakeupDone(p, "reparent")
        /\ i' = [i EXCEPT ![p] = @ + 1]
  /\ UNCHANGED <<pid, parent, chan, killed, lockVars, nextpid, oncpu, child,
                 havekids>>

\* wakeup(p->parent) of exit()
ExitWakeup(p) ==
  /\ At(p, "exit_wakeup")
  /\ \/ WakeupTurn(p, parent[p])
     \/ /\ WakeupDone(p, "zombie_lock")
        /\ UNCHANGED i
  /\ UNCHANGED <<pid, parent, chan, killed, lockVars, nextpid, oncpu, child,
                 havekids>>

ZombieLock(p) ==
  /\ At(p, "zombie_lock")
  /\ Free(p)
  /\ lock' = [lock EXCEPT ![p] = p]
  /\ Goto(p, "zombie")
  /\ UNCHANGED <<tableVars, wait_lock, nextpid, oncpu, child, i, w, havekids>>

\* Mutant: sched() is entered with wait_lock still held.
Zombie_KeepsWaitLock(p) ==
  /\ At(p, "zombie")
  /\ state' = [state EXCEPT ![p] = "ZOMBIE"]
  /\ Goto(p, "sched")
  /\ UNCHANGED <<pid, parent, chan, killed, lockVars, nextpid, oncpu, child, i,
                 w, havekids>>

\* p->state = ZOMBIE; release(&wait_lock); p->lock stays held into sched().
Zombie(p) ==
  /\ At(p, "zombie")
  /\ state' = [state EXCEPT ![p] = "ZOMBIE"]
  /\ wait_lock' = NoProc
  /\ Goto(p, "sched")
  /\ UNCHANGED <<pid, parent, chan, killed, lock, nextpid, oncpu, child, i, w,
                 havekids>>

(***************************************************************************)
(* wait() and waitx(), which differ only in the times they report.         *)
(***************************************************************************)

WaitStart(p) ==
  /\ At(p, "user") /\ ~killed[p]
  /\ Goto(p, "wait")
  /\ UNCHANGED <<tableVars, lockVars, nextpid, oncpu, child, i, w, havekids>>

\* Take wait_lock, at the start of wait() or at the end of sleep().
WaitLock(p) ==
  /\ p \in oncpu /\ pc[p] \in {"wait", "woken"}
  /\ wait_lock = NoProc
  /\ wait_lock' = p
  /\ i' = [i EXCEPT ![p] = 1]
  /\ havekids' = [havekids EXCEPT ![p] = FALSE]
  /\ Goto(p, "scan")
  /\ UNCHANGED <<tableVars, lock, nextpid, oncpu, child, w>>

\* Mutant: wait() does not take the child's lock.
ChildLockFree_Always(np) == TRUE

\* The child's slot may be looked at: nobody is in the middle of changing it.
ChildLockFree(np) == Free(np)

\* A slot that is no child, or a child that has not exited.
ScanNext(p) ==
  /\ At(p, "scan") /\ i[p] <= NPROC
  /\ \/ parent[i[p]] # p /\ UNCHANGED havekids
     \/ /\ parent[i[p]] = p
        /\ ChildLockFree(i[p])
        /\ state[i[p]] # "ZOMBIE"
        /\ havekids' = [havekids EXCEPT ![p] = TRUE]
  /\ i' = [i EXCEPT ![p] = @ + 1]
  /\ UNCHANGED <<tableVars, lockVars, nextpid, oncpu, pc, child, w>>

\* An exited child: freeproc() it and return its pid.
ScanReap(p) ==
  LET np == i[p]
  IN /\ At(p, "scan") /\ np <= NPROC
     /\ parent[np] = p /\ ChildLockFree(np) /\ state[np] = "ZOMBIE"
     /\ state' = [state EXCEPT ![np] = "UNUSED"]
     /\ pid' = [pid EXCEPT ![np] = 0]
     /\ parent' = [parent EXCEPT ![np] = NoProc]
     /\ chan' = [chan EXCEPT ![np] = NoProc]
     /\ killed' = [killed EXCEPT ![np] = FALSE]
     /\ wait_lock' = NoProc
     /\ Goto(p, "user")
     /\ UNCHANGED <<lock, nextpid, oncpu, child, i, w, havekids>>

\* copyout() of the status fails: return -1, the child stays a zombie.  Only a
\* caller that passes a bad address gets here; init passes none.
ScanCopyFails(p) ==
  LET np == i[p]
  IN /\ At(p, "scan") /\ np <= NPROC /\ p # initproc
     /\ parent[np] = p /\ ChildLockFree(np) /\ state[np] = "ZOMBIE"
     /\ wait_lock' = NoProc
     /\ Goto(p, "user")
     /\ UNCHANGED <<tableVars, lock, nextpid, oncpu, child, i, w, havekids>>

\* End of the scan: give up, or wait for a child to exit.
ScanEnd(p) ==
  /\ At(p, "scan") /\ i[p] > NPROC
  /\ \/ /\ ~havekids[p] \/ killed[p]
        /\ wait_lock' = NoProc
        /\ Goto(p, "user")
     \/ /\ havekids[p] /\ ~killed[p]
        /\ Goto(p, "sleep_lock")
        /\ UNCHANGED wait_lock
  /\ UNCHANGED <<tableVars, lock, nextpid, oncpu, child, i, w, havekids>>

\* Mutant: wait_lock is released and p->lock not yet held.
SleepLock_Unprotected(p) ==
  /\ At(p, "sleep_lock")
  /\ wait_lock' = NoProc
  /\ Goto(p, "sleep")
  /\ UNCHANGED <<tableVars, lock, nextpid, oncpu, child, i, w, havekids>>

\* sleep(p, &wait_lock): take p->lock while wait_lock is still held ...
SleepLock(p) ==
  /\ At(p, "sleep_lock")
  /\ Free(p)
  /\ lock' = [lock EXCEPT ![p] = p]
  /\ Goto(p, "sleep")
  /\ UNCHANGED <<tableVars, wait_lock, nextpid, oncpu, child, i, w, havekids>>

\* ... then release wait_lock and go to sleep.
Sleep(p) ==
  /\ At(p, "sleep")
  /\ wait_lock' = NoProc
  /\ chan' = [chan EXCEPT ![p] = p]
  /\ state' = [state EXCEPT ![p] = "SLEEPING"]
  /\ Goto(p, "sched")
  /\ UNCHANGED <<pid, parent, killed, lock, nextpid, oncpu, child, i, w,
                 havekids>>

(***************************************************************************)
(* kill()                                                                  *)
(***************************************************************************)

\* The process that kill(k) finds is marked and, if asleep, made RUNNABLE.
\* Its pid is compared under its lock.
Kill(p, k, v) ==
  /\ At(p, "user") /\ ~killed[p]
  /\ Free(v) /\ pid[v] = k
  /\ killed' = [killed EXCEPT ![v] = TRUE]
  /\ state' = [state EXCEPT ![v] = IF @ = "SLEEPING" THEN "RUNNABLE" ELSE @]
  /\ UNCHANGED <<pid, parent, chan, lockVars, nextpid, oncpu, pc, child, i, w,
                 havekids>>

-----------------------------------------------------------------------------

Exit(p) == \/ ExitLock(p) \/ Reparent(p) \/ ReparentWakeup(p)
           \/ ExitWakeup(p) \/ ZombieLock(p) \/ Zombie(p)

Wait(p) == \/ WaitLock(p) \/ ScanNext(p) \/ ScanReap(p) \/ ScanEnd(p)
           \/ SleepLock(p) \/ Sleep(p)

Next ==
  \E p \in Slot :
    \/ Run(p) \/ Yield(p) \/ Sched(p)
    \/ \E np \in Slot : ForkAlloc(p, np) \/ ForkFail(p, np)
    \/ ForkParent(p) \/ ForkRun(p)
    \/ ExitStart(p) \/ Exit(p)
    \/ WaitStart(p) \/ Wait(p) \/ ScanCopyFails(p)
    \/ \E k \in KillPids, v \in Slot : Kill(p, k, v)

Spec == Init /\ [][Next]_vars

(***************************************************************************)
(* Fairness.  A CPU executes the thread that is on it; the timer interrupts*)
(* and scheduler() scans the whole table, so every RUNNABLE process runs   *)
(* again and again, and a spin lock or CPU that is free again and again is *)
(* got in the end (strong fairness).  init.c calls wait() for ever; nobody *)
(* else is assumed to call anything, but a killed process exits at its     *)
(* next trap.                                                              *)
(***************************************************************************)
Kernel(p) ==
  \/ Sched(p) \/ ForkParent(p) \/ ForkRun(p) \/ Exit(p) \/ Wait(p)
  \/ killed[p] /\ ExitStart(p)
  \/ p = initproc /\ WaitStart(p)

Fairness ==
  \A p \in Slot : SF_vars(Run(p)) /\ SF_vars(Yield(p)) /\ SF_vars(Kernel(p))

FairSpec == Spec /\ Fairness

-----------------------------------------------------------------------------
(***************************************************************************)
(* Properties.                                                             *)
(***************************************************************************)

InWait(p) == state[p] = "SLEEPING" /\ chan[p] = p

\* No exit is missed: once wait_lock is free, the parent of a zombie does not
\* sleep in wait().  "helps ensure that wakeups of wait()ing parents are not
\* lost" (proc.c:25-28); it covers zombies that reparent() hands to init too.
NoLostExit ==
  wait_lock = NoProc =>
    \A z \in Slot : state[z] = "ZOMBIE" => ~InWait(parent[z])

\* "make sure the child isn't still in exit() or swtch()" (proc.c:434): no CPU
\* runs on the kernel stack of a process that freeproc() has given back.
FreedIsOffCpu ==
  \A s \in Slot : state[s] = "UNUSED" => s \notin oncpu /\ lock[s] # s

\* Children of a fork() whose parent field is still to be set.
BeingForked == {child[p] : p \in {q \in Slot : pc[q] = "fork_parent"}}

\* Nobody is orphaned: once wait_lock is free, every process but init has a
\* parent that is alive, so that every exit can be collected (proc.c:358-371).
ParentsLive ==
  wait_lock = NoProc =>
    \A s \in Slot \ ({initproc} \cup BeingForked) :
      state[s] # "UNUSED" =>
        /\ parent[s] # NoProc
        /\ state[parent[s]] \notin {"UNUSED", "USED", "ZOMBIE"}

\* sched() never panics: it is entered with p->lock held, no other lock held
\* (mycpu()->noff is 1) and the state changed (proc.c:714-719).
SchedCallable ==
  \A p \in Slot :
    At(p, "sched") =>
      /\ lock[p] = p
      /\ wait_lock # p
      /\ \A s \in Slot \ {p} : lock[s] # p
      /\ state[p] # "RUNNING"

\* Every zombie that init has to collect is collected.
OrphansCollected ==
  \A s \in Slot :
    state[s] = "ZOMBIE" /\ parent[s] = initproc ~> state[s] = "UNUSED"

=============================================================================
