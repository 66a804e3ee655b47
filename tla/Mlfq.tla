-------------------------------- MODULE Mlfq --------------------------------
(***************************************************************************)
(* The multi-level feedback queue scheduler of kernel/proc.c (SCHEDULER =  *)
(* MLFQ) with the parts of kernel/trap.c that charge time slices, on one   *)
(* CPU, the Makefile's default.  The queues are ring buffers without a     *)
(* lock of their own.                                                      *)
(*                                                                         *)
(* A pass of scheduler() takes far less than a tick, so the clock ticks    *)
(* while a process runs or while there is none to run.  Device interrupts  *)
(* may wake processes at any point.                                        *)
(***************************************************************************)
EXTENDS Integers, FiniteSets, Sequences

CONSTANTS NPROC,    \* size of the process table and of a ring
          NLEVEL,   \* number of queues, 5 in the code
          AGE       \* ticks in a queue before a process is aged, 24

ASSUME MlfqAssumption ==
  /\ NPROC \in Nat \ {0, 1}
  /\ NLEVEL \in Nat \ {0}
  /\ AGE \in Nat

Proc == 1..NPROC
Null == 0
Level == 0..(NLEVEL - 1)
Index == 0..(NPROC - 1)

VARIABLES
  state,    \* p->state; an exited process counts as UNUSED
  level,    \* p->level
  timeinQ,  \* p->timeinQ, ticks left of the slice
  inQ,      \* p->inQ
  age,      \* ticks - p->qEnter, saturated at AGE + 1
  mfq,      \* the rings
  pc,       \* the CPU: in scheduler() or running a process
  k,        \* loop index of ageing() and of the enqueueing loop
  lev,      \* loop index of the dequeueing loop
  low,      \* c->proc, Null in the scheduler
  killed,   \* processes whose p->killed is set
  dying,    \* processes in exit() since usertrap(), with interrupts off
  removed   \* history: ProcQueueRemove() was called

procVars == <<state, level, timeinQ, inQ, age, killed, dying>>
vars == <<procVars, mfq, pc, k, lev, low, removed>>

Ring == [front : {-1} \cup Index, rear : {-1} \cup Index,
         list : [Index -> Proc \cup {Null}]]

\* 1 << level, a positive count of ticks.
Slice(l) == 2 ^ l

ASSUME SliceAssumption == \A l \in Level : Slice(l) \in Nat \ {0}

TypeOK ==
  /\ state \in [Proc -> {"UNUSED", "SLEEPING", "RUNNABLE", "RUNNING"}]
  /\ level \in [Proc -> Level]
  /\ timeinQ \in [Proc -> Nat]
  /\ inQ \in [Proc -> BOOLEAN]
  /\ age \in [Proc -> 0..(AGE + 1)]
  /\ mfq \in [Level -> Ring]
  /\ pc \in {"ageing", "enqueue", "dequeue", "run", "spin"}
  /\ k \in 1..(NPROC + 1)
  /\ lev \in 0..NLEVEL
  /\ low \in Proc \cup {Null}
  /\ killed \subseteq Proc /\ dying \subseteq Proc
  /\ removed \in BOOLEAN

(***************************************************************************)
(* The rings.                                                              *)
(***************************************************************************)

\* pq_init(): one null element in slot 0, so that the first Dequeue of a level
\* returns null even if something was enqueued.
EmptyRing == [front |-> 0, rear |-> 0, list |-> [j \in Index |-> Null]]

\* Mutant: the ring is a stack.
Enqueue_InFront(q, p) ==
  IF q.front = -1
  THEN [front |-> 0, rear |-> 0, list |-> [q.list EXCEPT ![0] = p]]
  ELSE LET f == (q.front + NPROC - 1) % NPROC
       IN [q EXCEPT !.front = f, !.list[f] = p]

\* ProcQueueEnqueue()
Enqueue(q, p) ==
  LET r == (q.rear + 1) % NPROC
  IN [front |-> IF q.front = -1 THEN 0 ELSE q.front,
      rear |-> r, list |-> [q.list EXCEPT ![r] = p]]

\* The element ProcQueueDequeue() returns ...
First(q) == IF q.front = -1 THEN Null ELSE q.list[q.front]

\* Mutant: the index does not wrap around.
Dequeue_NoWrap(q) ==
  IF q.front = -1 THEN q
  ELSE IF q.front = q.rear
       THEN [front |-> -1, rear |-> -1,
             list |-> [q.list EXCEPT ![q.front] = Null]]
       ELSE [q EXCEPT !.front = q.front + 1]

\* Mutant: the last element does not reset the ring.
Dequeue_NoReset(q) ==
  IF q.front = -1 THEN q
  ELSE [q EXCEPT !.list[q.front] = Null, !.front = (q.front + 1) % NPROC]

\* ... and the ring it leaves.
Dequeue(q) ==
  IF q.front = -1 THEN q
  ELSE IF q.front = q.rear
       THEN [front |-> -1, rear |-> -1,
             list |-> [q.list EXCEPT ![q.front] = Null]]
       ELSE [q EXCEPT !.front = (q.front + 1) % NPROC]

\* ProcQueueRemove(): i is never advanced, so the loop does not end when there
\* is anything between front and rear ...
RemoveSpins(q) == q.front < q.rear

\* ... and otherwise drops whatever is last.  In an empty ring list[-1] is the
\* memory of front and rear, which the null pointer sets to 0.
Remove(q) ==
  IF q.rear = -1 THEN [q EXCEPT !.front = 0, !.rear = -1]
  ELSE [q EXCEPT !.list[q.rear] = Null, !.rear = q.rear - 1]

(***************************************************************************)
(* After userinit() and pq_init(): the first process is RUNNABLE.          *)
(***************************************************************************)
Init ==
  /\ state = [p \in Proc |-> IF p = 1 THEN "RUNNABLE" ELSE "UNUSED"]
  /\ level = [p \in Proc |-> 0]
  /\ timeinQ = [p \in Proc |-> Slice(0)]
  /\ inQ = [p \in Proc |-> FALSE]
  /\ age = [p \in Proc |-> 0]
  /\ mfq = [l \in Level |-> EmptyRing]
  /\ pc = "ageing"
  /\ k = 1
  /\ lev = 0
  /\ low = Null
  /\ killed = {} /\ dying = {}
  /\ removed = FALSE

(***************************************************************************)
(* scheduler()                                                             *)
(***************************************************************************)

TooOld(p) == state[p] = "RUNNABLE" /\ age[p] > AGE

\* ageing() moves a process up one level and gives it that level's slice.
Promoted(p) == level[p] > 0

\* One turn of ageing()'s loop, under p->lock.
Ageing ==
  LET p == k
      q == mfq[level[p]]
      removes == TooOld(p) /\ inQ[p]
      spins == removes /\ RemoveSpins(q)
  IN /\ pc = "ageing" /\ k <= NPROC
     /\ pc' = IF spins THEN "spin" ELSE pc
     /\ removed' = (removed \/ removes)
     /\ mfq' = IF removes /\ ~spins
               THEN [mfq EXCEPT ![level[p]] = Remove(q)] ELSE mfq
     /\ IF TooOld(p) /\ ~spins
        THEN /\ inQ' = [inQ EXCEPT ![p] = FALSE]
             /\ age' = [age EXCEPT ![p] = 0]
             /\ level' = [level EXCEPT ![p] = IF Promoted(p) THEN @ - 1 ELSE @]
             /\ timeinQ' = [timeinQ EXCEPT ![p] =
                              IF Promoted(p) THEN Slice(level[p] - 1) ELSE @]
        ELSE UNCHANGED <<inQ, age, level, timeinQ>>
     /\ k' = k + 1
     /\ UNCHANGED <<state, killed, dying, lev, low>>

AgeingDone ==
  /\ pc = "ageing" /\ k > NPROC
  /\ pc' = "enqueue"
  /\ k' = 1
  /\ UNCHANGED <<procVars, mfq, lev, low, removed>>

\* Mutant: inQ is not looked at.
EnqueueNew_Again(p) == state[p] = "RUNNABLE"

EnqueueNew(p) == state[p] = "RUNNABLE" /\ ~inQ[p]

\* One turn of the loop that enqueues what became RUNNABLE, under p->lock.
EnqueueTurn ==
  LET p == k
  IN /\ pc = "enqueue" /\ k <= NPROC
     /\ IF EnqueueNew(p)
        THEN /\ inQ' = [inQ EXCEPT ![p] = TRUE]
             /\ mfq' = [mfq EXCEPT ![level[p]] = Enqueue(@, p)]
        ELSE UNCHANGED <<inQ, mfq>>
     /\ k' = k + 1
     /\ UNCHANGED <<state, level, timeinQ, age, killed, dying, pc, lev, low,
                    removed>>

EnqueueDone ==
  /\ pc = "enqueue" /\ k > NPROC
  /\ pc' = "dequeue"
  /\ k' = 1
  /\ lev' = 0
  /\ UNCHANGED <<procVars, mfq, low, removed>>

\* Level lev gives nothing: go on with the next.
NextLevel ==
  /\ pc = "dequeue" /\ lev < NLEVEL
  /\ First(mfq[lev]) = Null
  /\ mfq' = [mfq EXCEPT ![lev] = Dequeue(@)]
  /\ lev' = lev + 1
  /\ UNCHANGED <<procVars, pc, k, low, removed>>

\* Level lev gives a process: run it, or drop it if it is not RUNNABLE.
Dispatch ==
  LET p == First(mfq[lev])
  IN /\ pc = "dequeue" /\ lev < NLEVEL
     /\ p # Null
     /\ mfq' = [mfq EXCEPT ![lev] = Dequeue(@)]
     /\ inQ' = [inQ EXCEPT ![p] = FALSE]
     /\ IF state[p] = "RUNNABLE"
        THEN /\ lev' = 0
             /\ age' = [age EXCEPT ![p] = 0]
             /\ state' = [state EXCEPT ![p] = "RUNNING"]
             /\ low' = p
             /\ pc' = "run"
        ELSE UNCHANGED <<age, state, low, pc, lev>>
     /\ UNCHANGED <<level, timeinQ, killed, dying, k, removed>>

\* All levels are empty: start the next pass.
NothingToRun ==
  /\ pc = "dequeue" /\ lev = NLEVEL
  /\ pc' = "ageing"
  /\ lev' = 0
  /\ UNCHANGED <<procVars, mfq, k, low, removed>>

(***************************************************************************)
(* The running process.                                                    *)
(***************************************************************************)

\* The clock goes on for those who wait (that of low starts when it is switched
\* out, that of a free slot in allocproc()).
Older(ages, states) ==
  [p \in Proc |-> IF states[p] \in {"SLEEPING", "RUNNABLE"} /\ ages[p] <= AGE
                  THEN ages[p] + 1 ELSE ages[p]]

\* The process gives up the CPU in state s; scheduler() goes on after swtch():
\* c->proc = 0; low->qEnter = ticks.  A tick that came while the process had
\* interrupts off is taken when scheduler() turns them on, and charges nobody.
SwitchOut(s, ages) ==
  LET left == [ages EXCEPT ![low] = 0]
  IN /\ state' = [state EXCEPT ![low] = s]
     /\ age' \in {left} \cup
                 (IF low \in dying THEN {Older(left, state')} ELSE {})
     /\ low' = Null
     /\ pc' = "ageing"
     /\ k' = 1

\* sleep(), or another wait for an event; exit() waits too, for locks and the log.
Sleep ==
  /\ pc = "run"
  /\ SwitchOut("SLEEPING", age)
  /\ UNCHANGED <<level, timeinQ, inQ, killed, dying, mfq, lev, removed>>

\* The end of exit(), of any process but init.  What a free slot holds is dead
\* until allocproc() sets it anew; here it is set at once, but for p->killed,
\* which freeproc() resets and kill() may set again.
Exit ==
  /\ pc = "run" /\ low # 1
  /\ SwitchOut("UNUSED", age)
  /\ level' = [level EXCEPT ![low] = 0]
  /\ timeinQ' = [timeinQ EXCEPT ![low] = Slice(0)]
  /\ killed' = killed \ {low} /\ dying' = dying \ {low}
  /\ UNCHANGED <<inQ, mfq, lev, removed>>

\* fork(): allocproc() and the child becomes RUNNABLE.
Fork(c) ==
  /\ pc = "run" /\ low \notin dying
  /\ state[c] = "UNUSED"
  /\ state' = [state EXCEPT ![c] = "RUNNABLE"]
  /\ level' = [level EXCEPT ![c] = 0]
  /\ timeinQ' = [timeinQ EXCEPT ![c] = Slice(0)]
  /\ inQ' = [inQ EXCEPT ![c] = FALSE]
  /\ age' = [age EXCEPT ![c] = 0]
  /\ UNCHANGED <<killed, dying, mfq, pc, k, lev, low, removed>>

\* kill(), of any slot but init's (init's exit() panics): a zombie and a free
\* slot are marked like the others.
Kill(p) ==
  /\ pc = "run" /\ low \notin dying
  /\ p # 1
  /\ killed' = killed \cup {p}
  /\ state' = [state EXCEPT ![p] = IF @ = "SLEEPING" THEN "RUNNABLE" ELSE @]
  /\ UNCHANGED <<level, timeinQ, inQ, age, dying, mfq, pc, k, lev, low, removed>>

\* An interrupt handler calls wakeup().
Wakeup(p) ==
  /\ pc # "spin"
  /\ state[p] = "SLEEPING"
  /\ state' = [state EXCEPT ![p] = "RUNNABLE"]
  /\ UNCHANGED <<level, timeinQ, inQ, age, killed, dying, mfq, pc, k, lev, low,
                 removed>>

\* timeinQ <= 0 after RunningTime() has charged the tick.
SliceOver == timeinQ[low] - 1 <= 0

\* A timer interrupt while low runs: clockintr() charges the tick through
\* RunningTime(); at the end of its slice the process goes down one level,
\* gets a new slice and yields.  kerneltrap() does so in any case, usertrap()
\* when the process is not killed.
Tick ==
  /\ pc = "run" /\ low \notin dying
  /\ IF SliceOver
     THEN LET l == IF level[low] < NLEVEL - 1 THEN level[low] + 1 ELSE level[low]
          IN /\ level' = [level EXCEPT ![low] = l]
             /\ timeinQ' = [timeinQ EXCEPT ![low] = Slice(l)]
             /\ SwitchOut("RUNNABLE", Older(age, state))
     ELSE /\ timeinQ' = [timeinQ EXCEPT ![low] = @ - 1]
          /\ age' = Older(age, state)
          /\ UNCHANGED <<state, level, pc, k, low>>
  /\ UNCHANGED <<inQ, killed, dying, mfq, lev, removed>>

\* Mutant: exit() runs with interrupts on, and goes on being charged.
TickKilled_Again ==
  /\ pc = "run" /\ low \in killed
  /\ timeinQ' = [timeinQ EXCEPT ![low] = @ - 1]
  /\ age' = Older(age, state)
  /\ dying' = dying \cup {low}
  /\ UNCHANGED <<state, level, inQ, killed, mfq, pc, k, lev, low, removed>>

\* A timer interrupt in user space while low runs and is killed: it is charged,
\* and exit() comes before the test of its slice.  devintr() leaves interrupts
\* off, and so does every lock that exit() takes and gives back.
TickKilled ==
  /\ pc = "run" /\ low \in killed \ dying
  /\ timeinQ' = [timeinQ EXCEPT ![low] = @ - 1]
  /\ age' = Older(age, state)
  /\ dying' = dying \cup {low}
  /\ UNCHANGED <<state, level, inQ, killed, mfq, pc, k, lev, low, removed>>

\* A timer interrupt in the scheduler while there is nothing to run.
IdleTick ==
  /\ pc = "ageing" /\ k = 1
  /\ \A p \in Proc : state[p] # "RUNNABLE"
  /\ age' = Older(age, state)
  /\ UNCHANGED <<state, level, timeinQ, inQ, killed, dying, mfq, pc, k, lev, low,
                 removed>>

-----------------------------------------------------------------------------

SchedulerStep ==
  \/ Ageing \/ AgeingDone \/ EnqueueTurn \/ EnqueueDone
  \/ NextLevel \/ Dispatch \/ NothingToRun

Next ==
  \/ SchedulerStep
  \/ Sleep
  \/ Exit
  \/ \E c \in Proc : Fork(c)
  \/ \E p \in Proc : Wakeup(p)
  \/ \E p \in Proc : Kill(p)
  \/ Tick
  \/ TickKilled
  \/ IdleTick

Spec == Init /\ [][Next]_vars

-----------------------------------------------------------------------------
(***************************************************************************)
(* Properties.                                                             *)
(***************************************************************************)

\* Slots of a ring that are in use.
Occupied(q) ==
  IF q.front = -1 THEN {}
  ELSE IF q.front <= q.rear THEN q.front..q.rear
       ELSE {j \in Index : j >= q.front \/ j <= q.rear}

Places(p) ==
  {s \in Level \X Index : /\ s[2] \in Occupied(mfq[s[1]])
                          /\ mfq[s[1]].list[s[2]] = p}

\* The flag inQ and the rings agree: a process that is marked is RUNNABLE and
\* stands exactly once, in the ring of its own level; any other stands in no
\* ring.  A process that breaks this is run twice or never (proc.c:648-661).  It
\* holds until ageing() calls ProcQueueRemove() for the first time.
QueuesHoldWaiting ==
  ~removed =>
    \A p \in Proc :
      IF inQ[p]
      THEN /\ state[p] = "RUNNABLE"
           /\ \E j \in Index : Places(p) = {<<level[p], j>>}
      ELSE Places(p) = {}

\* No tick is charged to a slice that is used up, which would wrap the unsigned
\* timeinQ (proc.c:487): it is refilled before the process runs on (trap.c:89-98),
\* or the process is killed and in an exit() that no tick can interrupt
\* (trap.c:76), however often it sleeps there, is aged and is run again.
SliceBounded ==
  \A p \in Proc : timeinQ[p] \in (IF p \in dying THEN 0 ELSE 1)..Slice(level[p])

\* scheduler() runs a process of the first level that has one waiting, in spite
\* of the null element pq_init() leaves in every ring (proc.c:655-673), until
\* ProcQueueRemove() is called.
DispatchesHighest ==
  [][ low' \notin {low, Null} /\ ~removed =>
        \A p \in Proc : inQ[p] => level[p] >= level[low'] ]_vars

\* The processes that stand in a ring, the first one first.
Standing(q) ==
  LET n == IF q.front = -1 THEN 0 ELSE ((q.rear - q.front) % NPROC) + 1
      IsProc(p) == p # Null
  IN SelectSeq([i \in 1..n |-> q.list[(q.front + i - 1) % NPROC]], IsProc)

\* Every ring is a queue until ProcQueueRemove() is called: through the null
\* element, the wraps of its indices and the resets of an emptied ring, only its
\* first process leaves it and others join it at the end (proc.c:937-957).  With
\* DispatchesHighest the processes of a level take turns.
FirstInFirstOut ==
  [][ ~removed' =>
        \A l \in Level :
          LET old == Standing(mfq[l])
              new == Standing(mfq'[l])
          IN \/ new = old
             \/ old # <<>> /\ new = Tail(old) /\ ~inQ'[Head(old)]
             \/ \E p \in Proc : new = Append(old, p) /\ ~inQ[p] ]_vars

=============================================================================
