---------------------------- MODULE Proc_proofs -----------------------------
(***************************************************************************)
(* Proofs about Proc, for any number of processes and CPUs and any use of  *)
(* kill().                                                                 *)
(*                                                                         *)
(* None of the properties is inductive: each rests on which locks a thread *)
(* holds at which place, on how far the loops of reparent(), wakeup() and  *)
(* wait() have come, and on whom a fork() is making.  IInv adds that.      *)
(***************************************************************************)
EXTENDS Proc, TLAPS

Dead == {"UNUSED", "USED", "ZOMBIE"}
Forking == {"fork_parent", "fork_run"}
Exiting == {"exit", "reparent", "reparent_wakeup", "exit_wakeup",
            "zombie_lock", "zombie"}

\* Where a thread holds wait_lock, and where it holds its own p->lock.
HoldsWaitLock == {"reparent", "reparent_wakeup", "exit_wakeup", "zombie_lock",
                  "zombie", "scan", "sleep_lock", "sleep"}
HoldsOwnLock == {"zombie", "sleep", "sched"}

Locks ==
  /\ \A s \in Slot : lock[s] = IF pc[s] \in HoldsOwnLock THEN s ELSE NoProc
  /\ \A s \in Slot : pc[s] \in HoldsWaitLock <=> wait_lock = s

\* A CPU runs what is RUNNING, or on its way into the scheduler with p->lock
\* held; a slot that is free or being filled starts from the beginning.
Running ==
  \A s \in Slot :
    /\ pc[s] \notin Preemptible => s \in oncpu
    /\ s \in oncpu <=> state[s] = "RUNNING" \/ pc[s] = "sched"
    /\ pc[s] = "sched" => state[s] \in {"SLEEPING", "ZOMBIE"}
    /\ state[s] \in {"UNUSED", "USED"} => pc[s] = "user"
    /\ state[s] = "ZOMBIE" => pc[s] \in {"sched", "user"}

\* The child that a fork() is making is nobody else's.
Children ==
  /\ \A p \in Slot : pc[p] \in Forking =>
       child[p] \in Slot /\ state[child[p]] = "USED"
  /\ \A p, q \in Slot :
       pc[p] \in Forking /\ pc[q] \in Forking /\ child[p] = child[q] => p = q

\* init never exits.
InitLives == state[initproc] \notin Dead /\ pc[initproc] \notin Exiting

\* Everybody has a parent, and whoever is a parent is alive.
Parents ==
  /\ \A s \in Slot \ ({initproc} \cup BeingForked) :
       state[s] # "UNUSED" => parent[s] # NoProc
  /\ \A s \in Slot : parent[s] # NoProc => state[parent[s]] \notin Dead

\* What reparent() has passed is no child of p any more.
Reparenting ==
  \A p \in Slot :
    /\ pc[p] = "reparent" => \A s \in Slot : parent[s] = p => s >= i[p]
    /\ pc[p] = "reparent_wakeup" =>
         i[p] <= NPROC /\ \A s \in Slot : parent[s] = p => s > i[p]
    /\ pc[p] \in {"exit_wakeup", "zombie_lock", "zombie"} =>
         \A s \in Slot : parent[s] # p

\* What wait() has passed has not exited since.
Scanning ==
  \A p \in Slot :
    /\ pc[p] = "scan" =>
         \A s \in Slot : s < i[p] /\ parent[s] = p => state[s] # "ZOMBIE"
    /\ pc[p] \in {"sleep_lock", "sleep"} =>
         \A s \in Slot : parent[s] = p => state[s] # "ZOMBIE"

\* wakeup() starts at the first slot, and whom it has passed does not sleep.
Waking ==
  \A p \in Slot :
    /\ pc[p] \notin {"reparent_wakeup", "exit_wakeup"} => w[p] = 1
    /\ pc[p] = "exit_wakeup" /\ parent[p] < w[p] => ~InWait(parent[p])
    /\ pc[p] \in {"zombie_lock", "zombie"} => ~InWait(parent[p])

\* A zombie's parent sleeps only while reparent() is about to wake it: the
\* zombie was given to init, and wakeup(initproc) has not come to init yet.
ZombiesSeen ==
  \A z \in Slot : state[z] = "ZOMBIE" /\ InWait(parent[z]) =>
    \E p \in Slot : /\ pc[p] = "reparent_wakeup" /\ z = i[p]
                    /\ parent[z] = initproc /\ w[p] <= initproc

IInv ==
  /\ TypeOK
  /\ Locks
  /\ Running
  /\ Children
  /\ InitLives
  /\ Parents
  /\ Reparenting
  /\ Scanning
  /\ Waking
  /\ ZombiesSeen

-----------------------------------------------------------------------------
LEMMA SlotFacts ==
  /\ Slot \subseteq Nat
  /\ \A s \in Slot : 1 <= s /\ s <= NPROC
  /\ NoProc = 0 /\ NoProc \notin Slot
  /\ initproc = 1 /\ initproc \in Slot
  /\ NPROC \in Nat
  BY ProcAssumption DEF Slot, NoProc, initproc

LEMMA RunIInv ==
  ASSUME IInv, NEW p \in Slot, Run(p)
  PROVE  IInv'
  <1> USE SlotFacts DEF Run, At, Goto, Free, tableVars, lockVars
  <1>1. TypeOK'
    BY ProcAssumption DEF IInv, TypeOK, Preemptible, Labels, States, Slot
  <1>2. Locks'
    BY DEF IInv, Locks, HoldsWaitLock, HoldsOwnLock
  <1>3. Running'
    BY DEF IInv, TypeOK, Preemptible, Labels, States, Running
  <1>4. Children'
    BY DEF IInv, Children, Forking
  <1>5. InitLives'
    BY DEF IInv, InitLives, Dead, Exiting
  <1>6. Parents'
    BY DEF IInv, Parents, Dead, BeingForked
  <1>7. Reparenting'
    BY DEF IInv, Reparenting
  <1>8. Scanning'
    BY DEF IInv, Scanning
  <1>9. Waking'
    BY DEF IInv, Waking, InWait
  <1>10. ZombiesSeen'
    BY DEF IInv, ZombiesSeen, InWait
  <1> QED  BY <1>1, <1>2, <1>3, <1>4, <1>5, <1>6, <1>7, <1>8, <1>9, <1>10 DEF IInv

LEMMA YieldIInv ==
  ASSUME IInv, NEW p \in Slot, Yield(p)
  PROVE  IInv'
  <1> USE SlotFacts DEF Yield, At, Goto, Free, tableVars, lockVars
  <1>1. TypeOK'
    BY ProcAssumption DEF IInv, TypeOK, Preemptible, Labels, States, Slot
  <1>2. Locks'
    BY DEF IInv, Locks, HoldsWaitLock, HoldsOwnLock
  <1>3. Running'
    BY DEF IInv, TypeOK, Preemptible, Labels, States, Running
  <1>4. Children'
    BY DEF IInv, TypeOK, Preemptible, Labels, States, Children, Forking, Running
  <1>5. InitLives'
    BY DEF IInv, InitLives, Dead, Exiting
  <1>6. Parents'
    BY DEF IInv, TypeOK, Preemptible, Labels, States, Parents, Dead, BeingForked, Running
  <1>7. Reparenting'
    BY DEF IInv, Reparenting
  <1>8. Scanning'
    BY DEF IInv, Scanning
  <1>9. Waking'
    BY DEF IInv, Waking, InWait
  <1>10. ZombiesSeen'
    BY DEF IInv, ZombiesSeen, InWait
  <1> QED  BY <1>1, <1>2, <1>3, <1>4, <1>5, <1>6, <1>7, <1>8, <1>9, <1>10 DEF IInv

LEMMA SchedIInv ==
  ASSUME IInv, NEW p \in Slot, Sched(p)
  PROVE  IInv'
  <1> USE SlotFacts DEF Sched, At, Goto, Free, tableVars, lockVars
  <1>1. TypeOK'
    BY ProcAssumption DEF IInv, TypeOK, Preemptible, Labels, States, Slot
  <1>2. Locks'
    BY DEF IInv, TypeOK, Preemptible, Labels, States, Locks, HoldsWaitLock, HoldsOwnLock
  <1>3. Running'
    BY DEF IInv, TypeOK, Preemptible, Labels, States, Running
  <1>4. Children'
    BY DEF IInv, Children, Forking
  <1>5. InitLives'
    BY DEF IInv, InitLives, Dead, Exiting
  <1>6. Parents'
    BY DEF IInv, Parents, Dead, BeingForked
  <1>7. Reparenting'
    BY DEF IInv, Reparenting
  <1>8. Scanning'
    BY DEF IInv, Scanning
  <1>9. Waking'
    BY DEF IInv, Waking, InWait
  <1>10. ZombiesSeen'
    BY DEF IInv, ZombiesSeen, InWait
  <1> QED  BY <1>1, <1>2, <1>3, <1>4, <1>5, <1>6, <1>7, <1>8, <1>9, <1>10 DEF IInv

LEMMA ForkAllocIInv ==
  ASSUME IInv, NEW p \in Slot, NEW np \in Slot, ForkAlloc(p, np)
  PROVE  IInv'
  <1> USE SlotFacts DEF ForkAlloc, At, Goto, Free, tableVars, lockVars
  <1>1. TypeOK'
    BY ProcAssumption DEF IInv, TypeOK, Preemptible, Labels, States
  <1>2. Locks'
    BY DEF IInv, Locks, HoldsWaitLock, HoldsOwnLock
  <1>3. Running'
    BY DEF IInv, Running, Preemptible
  <1>4. Children'
    BY DEF IInv, TypeOK, Preemptible, Labels, States, Children, Forking
  <1>5. InitLives'
    BY DEF IInv, InitLives, Dead, Exiting
  <1>6. Parents'
    BY DEF IInv, TypeOK, Preemptible, Labels, States, Parents, Dead, BeingForked
  <1>7. Reparenting'
    BY DEF IInv, Reparenting
  <1>8. Scanning'
    BY DEF IInv, Scanning
  <1>9. Waking'
    BY DEF IInv, Waking, InWait
  <1>10. ZombiesSeen'
    BY DEF IInv, ZombiesSeen, InWait
  <1> QED  BY <1>1, <1>2, <1>3, <1>4, <1>5, <1>6, <1>7, <1>8, <1>9, <1>10 DEF IInv

LEMMA ForkFailIInv ==
  ASSUME IInv, NEW p \in Slot, NEW np \in Slot, ForkFail(p, np)
  PROVE  IInv'
  <1> USE SlotFacts DEF ForkFail, At, Goto, Free, tableVars, lockVars
  <1>1. TypeOK'
    BY ProcAssumption DEF IInv, TypeOK, Preemptible, Labels, States
  <1>2. Locks'
    BY DEF IInv, Locks, HoldsWaitLock, HoldsOwnLock
  <1>3. Running'
    BY DEF IInv, Running, Preemptible
  <1>4. Children'
    BY DEF IInv, Children, Forking
  <1>5. InitLives'
    BY DEF IInv, InitLives, Dead, Exiting
  <1>6. Parents'
    BY DEF IInv, Parents, Dead, BeingForked
  <1>7. Reparenting'
    BY DEF IInv, Reparenting
  <1>8. Scanning'
    BY DEF IInv, Scanning
  <1>9. Waking'
    BY DEF IInv, Waking, InWait
  <1>10. ZombiesSeen'
    BY DEF IInv, ZombiesSeen, InWait
  <1> QED  BY <1>1, <1>2, <1>3, <1>4, <1>5, <1>6, <1>7, <1>8, <1>9, <1>10 DEF IInv

LEMMA ForkParentIInv ==
  ASSUME IInv, NEW p \in Slot, ForkParent(p)
  PROVE  IInv'
  <1> USE SlotFacts DEF ForkParent, At, Goto, Free, tableVars, lockVars
  <1>1. TypeOK'
    BY ProcAssumption DEF IInv, TypeOK, Preemptible, Labels, States, Slot
  <1>2. Locks'
    BY DEF IInv, Locks, HoldsWaitLock, HoldsOwnLock
  <1>3. Running'
    BY DEF IInv, Running, Preemptible
  <1>4. Children'
    BY DEF IInv, Children, Forking
  <1>5. InitLives'
    BY DEF IInv, InitLives, Dead, Exiting
  <1>6. Parents'
    BY DEF IInv, TypeOK, Preemptible, Labels, States, Parents, Dead, BeingForked, Running
  <1>7. Reparenting'
    BY DEF IInv, Reparenting
  <1>8. Scanning'
    BY DEF IInv, TypeOK, Preemptible, Labels, States, Scanning
  <1>9. Waking'
    BY DEF IInv, TypeOK, Preemptible, Labels, States, Waking, InWait, Running
  <1>10. ZombiesSeen'
    BY DEF IInv, TypeOK, Preemptible, Labels, States, ZombiesSeen, InWait, Running
  <1> QED  BY <1>1, <1>2, <1>3, <1>4, <1>5, <1>6, <1>7, <1>8, <1>9, <1>10 DEF IInv

LEMMA ForkRunIInv ==
  ASSUME IInv, NEW p \in Slot, ForkRun(p)
  PROVE  IInv'
  <1> USE SlotFacts DEF ForkRun, At, Goto, Free, tableVars, lockVars
  <1>1. TypeOK'
    BY ProcAssumption DEF IInv, TypeOK, Preemptible, Labels, States, Slot
  <1>2. Locks'
    BY DEF IInv, Locks, HoldsWaitLock, HoldsOwnLock
  <1>3. Running'
    BY DEF IInv, TypeOK, Preemptible, Labels, States, Running, Children, Forking
  <1>4. Children'
    BY DEF IInv, TypeOK, Preemptible, Labels, States, Children, Forking
  <1>5. InitLives'
    BY DEF IInv, InitLives, Dead, Exiting
  <1>6. Parents'
    BY DEF IInv, TypeOK, Preemptible, Labels, States, Parents, Dead, BeingForked, Children, Forking
  <1>7. Reparenting'
    BY DEF IInv, Reparenting
  <1>8. Scanning'
    BY DEF IInv, Scanning
  <1>9. Waking'
    BY DEF IInv, Waking, InWait
  <1>10. ZombiesSeen'
    BY DEF IInv, ZombiesSeen, InWait
  <1> QED  BY <1>1, <1>2, <1>3, <1>4, <1>5, <1>6, <1>7, <1>8, <1>9, <1>10 DEF IInv

LEMMA ExitStartIInv ==
  ASSUME IInv, NEW p \in Slot, ExitStart(p)
  PROVE  IInv'
  <1> USE SlotFacts DEF ExitStart, At, Goto, Free, tableVars, lockVars
  <1>1. TypeOK'
    BY ProcAssumption DEF IInv, TypeOK, Preemptible, Labels, States, Slot
  <1>2. Locks'
    BY DEF IInv, Locks, HoldsWaitLock, HoldsOwnLock
  <1>3. Running'
    BY DEF IInv, Running, Preemptible
  <1>4. Children'
    BY DEF IInv, Children, Forking
  <1>5. InitLives'
    BY DEF IInv, InitLives, Dead, Exiting
  <1>6. Parents'
    BY DEF IInv, Parents, Dead, BeingForked
  <1>7. Reparenting'
    BY DEF IInv, Reparenting
  <1>8. Scanning'
    BY DEF IInv, Scanning
  <1>9. Waking'
    BY DEF IInv, Waking, InWait
  <1>10. ZombiesSeen'
    BY DEF IInv, ZombiesSeen, InWait
  <1> QED  BY <1>1, <1>2, <1>3, <1>4, <1>5, <1>6, <1>7, <1>8, <1>9, <1>10 DEF IInv

LEMMA ExitLockIInv ==
  ASSUME IInv, NEW p \in Slot, ExitLock(p)
  PROVE  IInv'
  <1> USE SlotFacts DEF ExitLock, At, Goto, Free, tableVars, lockVars
  <1>1. TypeOK'
    BY ProcAssumption DEF IInv, TypeOK, Preemptible, Labels, States
  <1>2. Locks'
    BY DEF IInv, TypeOK, Preemptible, Labels, States, Locks, HoldsWaitLock, HoldsOwnLock
  <1>3. Running'
    BY DEF IInv, Running, Preemptible
  <1>4. Children'
    BY DEF IInv, Children, Forking
  <1>5. InitLives'
    BY DEF IInv, InitLives, Dead, Exiting
  <1>6. Parents'
    BY DEF IInv, Parents, Dead, BeingForked
  <1>7. Reparenting'
    BY DEF IInv, TypeOK, Preemptible, Labels, States, Reparenting
  <1>8. Scanning'
    BY DEF IInv, Scanning
  <1>9. Waking'
    BY DEF IInv, Waking, InWait
  <1>10. ZombiesSeen'
    BY DEF IInv, ZombiesSeen, InWait
  <1> QED  BY <1>1, <1>2, <1>3, <1>4, <1>5, <1>6, <1>7, <1>8, <1>9, <1>10 DEF IInv

\* Whoever exits has a parent: it is not init, and no fork() is making it.
LEMMA HasParent ==
  ASSUME IInv, NEW p \in Slot, pc[p] \in Exiting
  PROVE  parent[p] \in Slot
  <1>1. state[p] \notin {"UNUSED", "USED"}
    BY DEF IInv, Running, Exiting
  <1>2. p # initproc
    BY DEF IInv, InitLives
  <1>3. p \notin BeingForked
    BY <1>1 DEF IInv, Children, BeingForked, Forking
  <1> QED  BY <1>1, <1>2, <1>3 DEF IInv, Parents, TypeOK

\* One turn of wakeup(c)'s loop wakes slot w[p], or nobody.
Woken(p, c) ==
  /\ w[p] \in Slot \ {p}
  /\ lock[w[p]] = NoProc /\ state[w[p]] = "SLEEPING" /\ chan[w[p]] = c
  /\ state' = [state EXCEPT ![w[p]] = "RUNNABLE"]
NotWoken(p, c) ==
  /\ w[p] = p \/ state[w[p]] # "SLEEPING" \/ chan[w[p]] # c
  /\ state' = state

LEMMA TurnWakes ==
  ASSUME TypeOK, NEW p \in Slot, NEW c, WakeupTurn(p, c)
  PROVE  /\ w[p] \in Slot
         /\ Woken(p, c) \/ NotWoken(p, c)
         /\ w' = [w EXCEPT ![p] = @ + 1]
         /\ UNCHANGED <<pc, i>>
  <1>1. w[p] \in Slot
    BY ProcAssumption DEF TypeOK, WakeupTurn, Slot
  <1> QED  BY <1>1 DEF WakeupTurn, Woken, NotWoken, Free

\* What a wakeup of slot v leaves as it is, whoever calls it.
LEMMA WokenKeeps ==
  ASSUME IInv, NEW v \in Slot, state[v] = "SLEEPING", lock[v] = NoProc,
         state' = [state EXCEPT ![v] = "RUNNABLE"],
         UNCHANGED <<pid, parent, chan, killed, lockVars, nextpid, oncpu, pc,
                     child, i, havekids>>
  PROVE  /\ Locks' /\ Running' /\ Children' /\ InitLives' /\ Parents'
         /\ Reparenting' /\ Scanning'
  <1> USE SlotFacts DEF lockVars
  <1>1. Locks'
    BY DEF IInv, Locks
  <1>2. Running'
    BY DEF IInv, TypeOK, Running, Locks, HoldsOwnLock
  <1>3. Children'
    BY DEF IInv, TypeOK, Children, Forking
  <1>4. InitLives'
    BY DEF IInv, TypeOK, InitLives, Dead
  <1>5. Parents'
    BY DEF IInv, TypeOK, Parents, BeingForked, Dead
  <1>6. Reparenting'
    BY DEF IInv, Reparenting
  <1>7. Scanning'
    BY DEF IInv, TypeOK, Scanning
  <1> QED  BY <1>1, <1>2, <1>3, <1>4, <1>5, <1>6, <1>7

\* The same when nobody is woken.
LEMMA NotWokenKeeps ==
  ASSUME IInv,
         UNCHANGED <<tableVars, lockVars, nextpid, oncpu, pc, child, i, havekids>>
  PROVE  /\ Locks' /\ Running' /\ Children' /\ InitLives' /\ Parents'
         /\ Reparenting' /\ Scanning'
  BY DEF IInv, tableVars, lockVars, Locks, Running, Children, InitLives, Parents,
         BeingForked, Reparenting, Scanning

\* One turn of either wakeup() loop: all but Waking and ZombiesSeen.
LEMMA TurnKeeps ==
  ASSUME IInv, NEW p \in Slot, NEW c, WakeupTurn(p, c),
         UNCHANGED <<pid, parent, chan, killed, lockVars, nextpid, oncpu, child,
                     havekids>>
  PROVE  /\ TypeOK' /\ Locks' /\ Running' /\ Children' /\ InitLives' /\ Parents'
         /\ Reparenting' /\ Scanning'
  <1>0. TypeOK
    BY DEF IInv
  <1>1. /\ w[p] \in Slot
        /\ Woken(p, c) \/ NotWoken(p, c)
        /\ w' = [w EXCEPT ![p] = @ + 1]
        /\ UNCHANGED <<pc, i>>
    BY <1>0, TurnWakes
  <1>2. w' \in [Slot -> 1..(NPROC + 1)]
    BY <1>0, <1>1, SlotFacts DEF TypeOK
  <1>3. state' \in [Slot -> States]
    BY <1>0, <1>1 DEF TypeOK, Woken, NotWoken, States
  <1>4. TypeOK'
    BY <1>0, <1>1, <1>2, <1>3 DEF TypeOK, lockVars
  <1>5. CASE Woken(p, c)
    BY <1>1, <1>4, <1>5, WokenKeeps DEF Woken
  <1>6. CASE NotWoken(p, c)
    BY <1>1, <1>4, <1>6, NotWokenKeeps DEF NotWoken, tableVars
  <1> QED  BY <1>1, <1>5, <1>6

LEMMA ReparentIInv ==
  ASSUME IInv, NEW p \in Slot, Reparent(p)
  PROVE  IInv'
  <1> USE SlotFacts DEF Reparent, At, Goto, tableVars, lockVars
  <1>1. TypeOK'
    BY ProcAssumption DEF IInv, TypeOK, Preemptible, Labels, States
  <1>2. Locks'
    BY DEF IInv, TypeOK, Locks, HoldsWaitLock, HoldsOwnLock, Running, Preemptible
  <1>3. Running'
    BY DEF IInv, TypeOK, Running, Preemptible, Locks
  <1>4. Children'
    BY DEF IInv, TypeOK, Children, Forking
  <1>5. InitLives'
    BY DEF IInv, TypeOK, InitLives, Exiting
  <1>6. Parents'
    BY DEF IInv, TypeOK, Parents, Dead, BeingForked, InitLives
  <1>7. Reparenting'
    BY DEF IInv, TypeOK, Reparenting, Locks, HoldsWaitLock, InitLives, Exiting
  <1>8. Scanning'
    BY DEF IInv, TypeOK, Scanning, Locks, HoldsWaitLock
  <1>9. Waking'
    <2>1. parent[p] \in Slot
      BY HasParent DEF Exiting
    <2>2. \A q \in Slot \ {p} : pc[q] \notin HoldsWaitLock
      BY DEF IInv, Locks, HoldsWaitLock
    <2>3. w[p] = 1
      BY DEF IInv, Waking
    <2>4. pc'[p] \in {"reparent", "reparent_wakeup", "exit_wakeup"}
      BY DEF IInv, TypeOK
    <2>5. pc'[p] = "exit_wakeup" => parent'[p] = parent[p]
      BY DEF IInv, TypeOK
    <2>6. \A q \in Slot \ {p} : pc'[q] = pc[q]
      BY DEF IInv, TypeOK
    <2>7. w' = w
      OBVIOUS
    <2>a. ~(parent[p] < 1)
      BY <2>1, ProcAssumption DEF Slot
    <2> HIDE DEF Reparent, At, Goto, tableVars, lockVars
    <2> SUFFICES ASSUME NEW q \in Slot
                 PROVE  /\ pc'[q] \notin {"reparent_wakeup", "exit_wakeup"} => w'[q] = 1
                        /\ pc'[q] = "exit_wakeup" => ~(parent'[q] < w'[q])
                        /\ pc'[q] \notin {"zombie_lock", "zombie"}
      BY DEF Waking
    <2>8. CASE q = p
      BY <2>3, <2>4, <2>5, <2>7, <2>8, <2>a
    <2>9. CASE q # p
      BY <2>2, <2>6, <2>7, <2>9 DEF IInv, Waking, HoldsWaitLock
    <2> QED  BY <2>8, <2>9
  <1>10. ZombiesSeen'
    BY DEF IInv, TypeOK, ZombiesSeen, InWait, Locks, HoldsWaitLock, Waking, InitLives,
           Reparenting
  <1> QED  BY <1>1, <1>2, <1>3, <1>4, <1>5, <1>6, <1>7, <1>8, <1>9, <1>10 DEF IInv

\* wakeup(initproc): the zombie that was given to init may wait until the loop
\* has come to init.
LEMMA ReparentWakeupIInv ==
  ASSUME IInv, NEW p \in Slot, ReparentWakeup(p)
  PROVE  IInv'
  <1> USE SlotFacts DEF At
  <1>0. pc[p] = "reparent_wakeup" /\ TypeOK
    BY DEF ReparentWakeup, IInv
  <1>a. \A q \in Slot \ {p} : pc[q] \notin HoldsWaitLock
    BY <1>0 DEF IInv, Locks, HoldsWaitLock
  <1>1. CASE WakeupTurn(p, initproc)
    <2>1. /\ TypeOK' /\ Locks' /\ Running' /\ Children' /\ InitLives' /\ Parents'
          /\ Reparenting' /\ Scanning'
      BY <1>1, TurnKeeps DEF ReparentWakeup
    <2>2. /\ w[p] \in Slot
          /\ Woken(p, initproc) \/ NotWoken(p, initproc)
          /\ w' = [w EXCEPT ![p] = @ + 1]
          /\ UNCHANGED <<pc, i, parent, chan>>
      BY <1>0, <1>1, TurnWakes DEF ReparentWakeup
    <2>3. Waking'
      BY <1>0, <1>a, <2>2 DEF IInv, TypeOK, Waking, HoldsWaitLock
    <2>4. ZombiesSeen'
      <3> SUFFICES ASSUME NEW z \in Slot, state'[z] = "ZOMBIE", InWait(parent[z])'
                   PROVE  /\ z = i[p] /\ parent[z] = initproc
                          /\ w[p] + 1 <= initproc
        BY <1>0, <2>2 DEF ZombiesSeen, TypeOK
      <3>1. state[z] = "ZOMBIE"
        BY <1>0, <2>2 DEF TypeOK, Woken, NotWoken
      <3>2. parent[z] \in Slot
        BY <1>0, <3>1 DEF IInv, TypeOK, Parents, Dead, InitLives, BeingForked,
                          Children, Forking
      <3>3. InWait(parent[z])
        BY <1>0, <2>2, <3>2 DEF TypeOK, Woken, NotWoken, InWait
      <3>4. z = i[p] /\ parent[z] = initproc /\ w[p] <= initproc
        BY <1>a, <3>1, <3>3 DEF IInv, ZombiesSeen, HoldsWaitLock
      <3>5. w[p] # initproc
        <4> SUFFICES ASSUME w[p] = initproc  PROVE FALSE
          OBVIOUS
        <4>1. p # initproc
          BY <1>0 DEF IInv, InitLives, Exiting
        <4>2. Woken(p, initproc)
          BY <2>2, <3>3, <3>4, <4>1 DEF NotWoken, InWait
        <4> QED  BY <1>0, <2>2, <3>4, <4>2 DEF Woken, InWait, TypeOK
      <3> QED  BY <1>0, <2>2, <3>4, <3>5 DEF TypeOK
    <2> QED  BY <2>1, <2>3, <2>4 DEF IInv
  <1>2. CASE WakeupDone(p, "reparent") /\ i' = [i EXCEPT ![p] = @ + 1]
    <2> USE <1>2 DEF ReparentWakeup, WakeupTurn, WakeupDone, Goto, lockVars
    <2>1. TypeOK'
      BY ProcAssumption, <1>0 DEF IInv, TypeOK, Reparenting, Preemptible, Labels
    <2>2. Locks'
      BY <1>0 DEF IInv, TypeOK, Locks, HoldsWaitLock, HoldsOwnLock
    <2>3. Running'
      BY <1>0 DEF IInv, TypeOK, Running, Preemptible
    <2>4. Children' /\ InitLives' /\ Parents'
      BY <1>0 DEF IInv, TypeOK, Children, Forking, InitLives, Exiting, Parents,
                  BeingForked
    <2>5. Reparenting'
      BY <1>0 DEF IInv, TypeOK, Reparenting
    <2>6. Scanning'
      BY <1>0 DEF IInv, TypeOK, Scanning
    <2>7. Waking'
      BY <1>0 DEF IInv, TypeOK, Waking, InWait
    <2>8. ZombiesSeen'
      BY <1>0, <1>a DEF IInv, TypeOK, ZombiesSeen, InWait, HoldsWaitLock
    <2> QED  BY <2>1, <2>2, <2>3, <2>4, <2>5, <2>6, <2>7, <2>8 DEF IInv
  <1> QED  BY <1>1, <1>2 DEF ReparentWakeup

\* wakeup(p->parent): whoever exits knows that its parent is not asleep when
\* the loop has passed it, and nobody can fall asleep in wait() meanwhile.
LEMMA ExitWakeupIInv ==
  ASSUME IInv, NEW p \in Slot, ExitWakeup(p)
  PROVE  IInv'
  <1> USE SlotFacts DEF At
  <1>0. pc[p] = "exit_wakeup" /\ TypeOK
    BY DEF ExitWakeup, IInv
  <1>a. \A q \in Slot \ {p} : pc[q] \notin HoldsWaitLock
    BY <1>0 DEF IInv, Locks, HoldsWaitLock
  <1>b. parent[p] \in Slot
    BY <1>0, HasParent DEF Exiting
  <1>1. CASE WakeupTurn(p, parent[p])
    <2>1. /\ TypeOK' /\ Locks' /\ Running' /\ Children' /\ InitLives' /\ Parents'
          /\ Reparenting' /\ Scanning'
      BY <1>1, TurnKeeps DEF ExitWakeup
    <2>2. /\ w[p] \in Slot
          /\ Woken(p, parent[p]) \/ NotWoken(p, parent[p])
          /\ w' = [w EXCEPT ![p] = @ + 1]
          /\ UNCHANGED <<pc, i, parent, chan>>
      BY <1>0, <1>1, TurnWakes DEF ExitWakeup
    <2>3. \A q \in Slot : InWait(q)' => InWait(q) /\ ~(q = w[p] /\ q = parent[p])
      <3>1. state[p] # "SLEEPING"
        BY <1>0 DEF IInv, Running, Preemptible
      <3> QED  BY <1>0, <2>2, <3>1 DEF TypeOK, Woken, NotWoken, InWait
    <2>4. Waking'
      <3> SUFFICES ASSUME parent[p] < w[p] + 1  PROVE ~InWait(parent[p])'
        BY <1>0, <1>a, <2>2 DEF IInv, TypeOK, Waking, HoldsWaitLock
      <3>1. CASE parent[p] < w[p]
        BY <1>0, <1>b, <2>2, <2>3, <3>1 DEF IInv, Waking, InWait
      <3>2. CASE parent[p] = w[p]
        BY <1>b, <2>2, <2>3, <3>2 DEF InWait
      <3>3. w[p] \in Nat /\ parent[p] \in Nat
        BY <1>b, <2>2
      <3> QED  BY <3>1, <3>2, <3>3
    <2>5. ZombiesSeen'
      <3> SUFFICES ASSUME NEW z \in Slot, state'[z] = "ZOMBIE", InWait(parent[z])'
                   PROVE  FALSE
        BY <1>0, <2>2 DEF ZombiesSeen
      <3>1. state[z] = "ZOMBIE"
        BY <1>0, <2>2 DEF TypeOK, Woken, NotWoken
      <3>2. parent[z] \in Slot
        BY <1>0, <3>1 DEF IInv, TypeOK, Parents, Dead, InitLives, BeingForked,
                          Children, Forking
      <3>3. InWait(parent[z])
        BY <2>2, <2>3, <3>2 DEF InWait
      <3> QED  BY <1>0, <1>a, <3>1, <3>3 DEF IInv, ZombiesSeen, HoldsWaitLock
    <2> QED  BY <2>1, <2>4, <2>5 DEF IInv
  <1>2. CASE WakeupDone(p, "zombie_lock") /\ UNCHANGED i
    <2> USE <1>2 DEF ExitWakeup, WakeupTurn, WakeupDone, Goto, lockVars
    <2>1. TypeOK'
      BY ProcAssumption, <1>0 DEF TypeOK, Preemptible, Labels
    <2>2. Locks'
      BY <1>0 DEF IInv, TypeOK, Locks, HoldsWaitLock, HoldsOwnLock
    <2>3. Running'
      BY <1>0 DEF IInv, TypeOK, Running, Preemptible
    <2>4. Children' /\ InitLives' /\ Parents'
      BY <1>0 DEF IInv, TypeOK, Children, Forking, InitLives, Exiting, Parents,
                  BeingForked
    <2>5. Reparenting'
      BY <1>0 DEF IInv, TypeOK, Reparenting
    <2>6. Scanning'
      BY <1>0 DEF IInv, TypeOK, Scanning
    <2>7. Waking'
      <3>1. parent[p] < w[p]
        BY <1>0, <1>b, ProcAssumption DEF TypeOK, Slot
      <3>2. ~InWait(parent[p])
        BY <1>0, <3>1 DEF IInv, Waking
      <3> QED  BY <1>0, <1>b, <3>2 DEF IInv, TypeOK, Waking, InWait
    <2>8. ZombiesSeen'
      BY <1>0, <1>a DEF IInv, TypeOK, ZombiesSeen, InWait, HoldsWaitLock
    <2> QED  BY <2>1, <2>2, <2>3, <2>4, <2>5, <2>6, <2>7, <2>8 DEF IInv
  <1> QED  BY <1>1, <1>2 DEF ExitWakeup

LEMMA ZombieLockIInv ==
  ASSUME IInv, NEW p \in Slot, ZombieLock(p)
  PROVE  IInv'
  <1> USE SlotFacts DEF ZombieLock, At, Goto, Free, tableVars, lockVars
  <1>1. TypeOK'
    BY ProcAssumption DEF IInv, TypeOK, Preemptible, Labels, States, Slot
  <1>2. Locks'
    BY DEF IInv, TypeOK, Preemptible, Labels, States, Locks, HoldsWaitLock, HoldsOwnLock
  <1>3. Running'
    BY DEF IInv, Running, Preemptible
  <1>4. Children'
    BY DEF IInv, Children, Forking
  <1>5. InitLives'
    BY DEF IInv, InitLives, Dead, Exiting
  <1>6. Parents'
    BY DEF IInv, Parents, Dead, BeingForked
  <1>7. Reparenting'
    BY DEF IInv, Reparenting
  <1>8. Scanning'
    BY DEF IInv, Scanning
  <1>9. Waking'
    BY DEF IInv, Waking, InWait
  <1>10. ZombiesSeen'
    BY DEF IInv, ZombiesSeen, InWait
  <1> QED  BY <1>1, <1>2, <1>3, <1>4, <1>5, <1>6, <1>7, <1>8, <1>9, <1>10 DEF IInv

LEMMA ZombieIInv ==
  ASSUME IInv, NEW p \in Slot, Zombie(p)
  PROVE  IInv'
  <1> USE SlotFacts DEF Zombie, At, Goto, Free, tableVars, lockVars
  <1>1. TypeOK'
    BY ProcAssumption DEF IInv, TypeOK, Preemptible, Labels, States, Slot
  <1>2. Locks'
    BY DEF IInv, TypeOK, Preemptible, Labels, States, Locks, HoldsWaitLock, HoldsOwnLock
  <1>3. Running'
    BY DEF IInv, TypeOK, Preemptible, Labels, States, Running
  <1>4. Children'
    BY DEF IInv, TypeOK, Preemptible, Labels, States, Children, Forking, Running
  <1>5. InitLives'
    BY DEF IInv, InitLives, Dead, Exiting
  <1>6. Parents'
    BY DEF IInv, TypeOK, Preemptible, Labels, States, Parents, Dead, BeingForked, Locks, HoldsWaitLock, HoldsOwnLock, Running, Reparenting
  <1>7. Reparenting'
    BY DEF IInv, Reparenting
  <1>8. Scanning'
    BY DEF IInv, TypeOK, Preemptible, Labels, States, Scanning, Locks, HoldsWaitLock, HoldsOwnLock
  <1>9. Waking'
    BY DEF IInv, Waking, InWait
  <1>10. ZombiesSeen'
    BY DEF IInv, TypeOK, Preemptible, Labels, States, ZombiesSeen, InWait, Waking
  <1> QED  BY <1>1, <1>2, <1>3, <1>4, <1>5, <1>6, <1>7, <1>8, <1>9, <1>10 DEF IInv

LEMMA WaitStartIInv ==
  ASSUME IInv, NEW p \in Slot, WaitStart(p)
  PROVE  IInv'
  <1> USE SlotFacts DEF WaitStart, At, Goto, Free, tableVars, lockVars
  <1>1. TypeOK'
    BY ProcAssumption DEF IInv, TypeOK, Preemptible, Labels, States, Slot
  <1>2. Locks'
    BY DEF IInv, Locks, HoldsWaitLock, HoldsOwnLock
  <1>3. Running'
    BY DEF IInv, Running, Preemptible
  <1>4. Children'
    BY DEF IInv, Children, Forking
  <1>5. InitLives'
    BY DEF IInv, InitLives, Dead, Exiting
  <1>6. Parents'
    BY DEF IInv, Parents, Dead, BeingForked
  <1>7. Reparenting'
    BY DEF IInv, Reparenting
  <1>8. Scanning'
    BY DEF IInv, Scanning
  <1>9. Waking'
    BY DEF IInv, Waking, InWait
  <1>10. ZombiesSeen'
    BY DEF IInv, ZombiesSeen, InWait
  <1> QED  BY <1>1, <1>2, <1>3, <1>4, <1>5, <1>6, <1>7, <1>8, <1>9, <1>10 DEF IInv

LEMMA WaitLockIInv ==
  ASSUME IInv, NEW p \in Slot, WaitLock(p)
  PROVE  IInv'
  <1> USE SlotFacts DEF WaitLock, At, Goto, Free, tableVars, lockVars
  <1>1. TypeOK'
    BY ProcAssumption DEF IInv, TypeOK, Preemptible, Labels, States
  <1>2. Locks'
    BY DEF IInv, TypeOK, Preemptible, Labels, States, Locks, HoldsWaitLock, HoldsOwnLock
  <1>3. Running'
    BY DEF IInv, Running, Preemptible
  <1>4. Children'
    BY DEF IInv, Children, Forking
  <1>5. InitLives'
    BY DEF IInv, InitLives, Dead, Exiting
  <1>6. Parents'
    BY DEF IInv, Parents, Dead, BeingForked
  <1>7. Reparenting'
    BY DEF IInv, Reparenting
  <1>8. Scanning'
    BY DEF IInv, TypeOK, Preemptible, Labels, States, Scanning
  <1>9. Waking'
    BY DEF IInv, Waking, InWait
  <1>10. ZombiesSeen'
    BY DEF IInv, ZombiesSeen, InWait
  <1> QED  BY <1>1, <1>2, <1>3, <1>4, <1>5, <1>6, <1>7, <1>8, <1>9, <1>10 DEF IInv

LEMMA ScanNextIInv ==
  ASSUME IInv, NEW p \in Slot, ScanNext(p)
  PROVE  IInv'
  <1> USE SlotFacts DEF ScanNext, At, Goto, Free, ChildLockFree, tableVars, lockVars
  <1>1. TypeOK'
    <2>1. i' \in [Slot -> 1..(NPROC + 1)]
      BY DEF IInv, TypeOK
    <2>2. havekids' \in [Slot -> BOOLEAN]
      BY Zenon DEF IInv, TypeOK
    <2> QED  BY <2>1, <2>2 DEF IInv, TypeOK
  <1>2. Locks'
    BY DEF IInv, Locks, HoldsWaitLock, HoldsOwnLock
  <1>3. Running'
    BY DEF IInv, Running, Preemptible
  <1>4. Children'
    BY DEF IInv, Children, Forking
  <1>5. InitLives'
    BY DEF IInv, InitLives, Dead, Exiting
  <1>6. Parents'
    BY DEF IInv, Parents, Dead, BeingForked
  <1>7. Reparenting'
    BY DEF IInv, Reparenting
  <1>8. Scanning'
    BY DEF IInv, TypeOK, Preemptible, Labels, States, Scanning
  <1>9. Waking'
    BY DEF IInv, Waking, InWait
  <1>10. ZombiesSeen'
    BY DEF IInv, ZombiesSeen, InWait
  <1> QED  BY <1>1, <1>2, <1>3, <1>4, <1>5, <1>6, <1>7, <1>8, <1>9, <1>10 DEF IInv

LEMMA ScanReapIInv ==
  ASSUME IInv, NEW p \in Slot, ScanReap(p)
  PROVE  IInv'
  <1> USE SlotFacts DEF ScanReap, At, Goto, Free, ChildLockFree, tableVars, lockVars
  <1>1. TypeOK'
    BY ProcAssumption DEF IInv, TypeOK, Preemptible, Labels, States, Slot
  <1>2. Locks'
    BY DEF IInv, TypeOK, Preemptible, Labels, States, Locks, HoldsWaitLock, HoldsOwnLock
  <1>3. Running'
    BY DEF IInv, TypeOK, Preemptible, Labels, States, Running, Locks, HoldsWaitLock, HoldsOwnLock
  <1>4. Children'
    BY DEF IInv, Children, Forking
  <1>5. InitLives'
    BY DEF IInv, InitLives, Dead, Exiting
  <1>6. Parents'
    BY DEF IInv, TypeOK, Preemptible, Labels, States, Parents, Dead, BeingForked
  <1>7. Reparenting'
    BY DEF IInv, Reparenting
  <1>8. Scanning'
    BY DEF IInv, Scanning
  <1>9. Waking'
    BY DEF IInv, TypeOK, Preemptible, Labels, States, Waking, InWait, Running
  <1>10. ZombiesSeen'
    BY DEF IInv, TypeOK, Preemptible, Labels, States, ZombiesSeen, InWait
  <1> QED  BY <1>1, <1>2, <1>3, <1>4, <1>5, <1>6, <1>7, <1>8, <1>9, <1>10 DEF IInv

LEMMA ScanCopyFailsIInv ==
  ASSUME IInv, NEW p \in Slot, ScanCopyFails(p)
  PROVE  IInv'
  <1> USE SlotFacts DEF ScanCopyFails, At, Goto, Free, ChildLockFree, tableVars, lockVars
  <1>1. TypeOK'
    BY ProcAssumption DEF IInv, TypeOK, Preemptible, Labels, States, Slot
  <1>2. Locks'
    BY DEF IInv, TypeOK, Preemptible, Labels, States, Locks, HoldsWaitLock, HoldsOwnLock
  <1>3. Running'
    BY DEF IInv, Running, Preemptible
  <1>4. Children'
    BY DEF IInv, Children, Forking
  <1>5. InitLives'
    BY DEF IInv, InitLives, Dead, Exiting
  <1>6. Parents'
    BY DEF IInv, Parents, Dead, BeingForked
  <1>7. Reparenting'
    BY DEF IInv, Reparenting
  <1>8. Scanning'
    BY DEF IInv, Scanning
  <1>9. Waking'
    BY DEF IInv, Waking, InWait
  <1>10. ZombiesSeen'
    BY DEF IInv, ZombiesSeen, InWait
  <1> QED  BY <1>1, <1>2, <1>3, <1>4, <1>5, <1>6, <1>7, <1>8, <1>9, <1>10 DEF IInv

LEMMA ScanEndIInv ==
  ASSUME IInv, NEW p \in Slot, ScanEnd(p)
  PROVE  IInv'
  <1> USE SlotFacts DEF ScanEnd, At, Goto, Free, tableVars, lockVars
  <1>1. TypeOK'
    BY ProcAssumption DEF IInv, TypeOK, Preemptible, Labels, States, Slot
  <1>2. Locks'
    BY DEF IInv, TypeOK, Preemptible, Labels, States, Locks, HoldsWaitLock, HoldsOwnLock
  <1>3. Running'
    BY DEF IInv, TypeOK, Preemptible, Labels, States, Running
  <1>4. Children'
    BY DEF IInv, TypeOK, Preemptible, Labels, States, Children, Forking
  <1>5. InitLives'
    BY DEF IInv, TypeOK, Preemptible, Labels, States, InitLives, Dead, Exiting
  <1>6. Parents'
    BY DEF IInv, TypeOK, Preemptible, Labels, States, Parents, Dead, BeingForked
  <1>7. Reparenting'
    BY DEF IInv, TypeOK, Preemptible, Labels, States, Reparenting
  <1>8. Scanning'
    BY DEF IInv, TypeOK, Preemptible, Labels, States, Scanning
  <1>9. Waking'
    BY DEF IInv, TypeOK, Preemptible, Labels, States, Waking, InWait
  <1>10. ZombiesSeen'
    BY DEF IInv, TypeOK, Preemptible, Labels, States, ZombiesSeen, InWait
  <1> QED  BY <1>1, <1>2, <1>3, <1>4, <1>5, <1>6, <1>7, <1>8, <1>9, <1>10 DEF IInv

LEMMA SleepLockIInv ==
  ASSUME IInv, NEW p \in Slot, SleepLock(p)
  PROVE  IInv'
  <1> USE SlotFacts DEF SleepLock, At, Goto, Free, tableVars, lockVars
  <1>1. TypeOK'
    BY ProcAssumption DEF IInv, TypeOK, Preemptible, Labels, States, Slot
  <1>2. Locks'
    BY DEF IInv, TypeOK, Preemptible, Labels, States, Locks, HoldsWaitLock, HoldsOwnLock
  <1>3. Running'
    BY DEF IInv, Running, Preemptible
  <1>4. Children'
    BY DEF IInv, Children, Forking
  <1>5. InitLives'
    BY DEF IInv, InitLives, Dead, Exiting
  <1>6. Parents'
    BY DEF IInv, Parents, Dead, BeingForked
  <1>7. Reparenting'
    BY DEF IInv, Reparenting
  <1>8. Scanning'
    BY DEF IInv, Scanning
  <1>9. Waking'
    BY DEF IInv, Waking, InWait
  <1>10. ZombiesSeen'
    BY DEF IInv, ZombiesSeen, InWait
  <1> QED  BY <1>1, <1>2, <1>3, <1>4, <1>5, <1>6, <1>7, <1>8, <1>9, <1>10 DEF IInv

LEMMA SleepIInv ==
  ASSUME IInv, NEW p \in Slot, Sleep(p)
  PROVE  IInv'
  <1> USE SlotFacts DEF Sleep, At, Goto, Free, tableVars, lockVars
  <1>1. TypeOK'
    BY ProcAssumption DEF IInv, TypeOK, Preemptible, Labels, States, Slot
  <1>2. Locks'
    BY DEF IInv, TypeOK, Preemptible, Labels, States, Locks, HoldsWaitLock, HoldsOwnLock
  <1>3. Running'
    BY DEF IInv, TypeOK, Preemptible, Labels, States, Running
  <1>4. Children'
    BY DEF IInv, TypeOK, Preemptible, Labels, States, Children, Forking, Running
  <1>5. InitLives'
    BY DEF IInv, InitLives, Dead, Exiting
  <1>6. Parents'
    BY DEF IInv, TypeOK, Preemptible, Labels, States, Parents, Dead, BeingForked, Running
  <1>7. Reparenting'
    BY DEF IInv, Reparenting
  <1>8. Scanning'
    BY DEF IInv, Scanning
  <1>9. Waking'
    BY DEF IInv, TypeOK, Preemptible, Labels, States, Waking, InWait, Locks, HoldsWaitLock, HoldsOwnLock
  <1>10. ZombiesSeen'
    BY DEF IInv, TypeOK, Preemptible, Labels, States, ZombiesSeen, InWait, Scanning
  <1> QED  BY <1>1, <1>2, <1>3, <1>4, <1>5, <1>6, <1>7, <1>8, <1>9, <1>10 DEF IInv

LEMMA KillIInv ==
  ASSUME IInv, NEW p \in Slot, NEW k \in KillPids, NEW v \in Slot, Kill(p, k, v)
  PROVE  IInv'
  <1> USE SlotFacts DEF Kill, At, Goto, Free, tableVars, lockVars
  <1>1. TypeOK'
    BY ProcAssumption DEF IInv, TypeOK, Preemptible, Labels, States, Slot
  <1>2. Locks'
    BY DEF IInv, Locks, HoldsWaitLock, HoldsOwnLock
  <1>3. Running'
    BY DEF IInv, TypeOK, Preemptible, Labels, States, Running, Locks, HoldsWaitLock, HoldsOwnLock
  <1>4. Children'
    BY DEF IInv, Children, Forking
  <1>5. InitLives'
    BY DEF IInv, InitLives, Dead, Exiting
  <1>6. Parents'
    BY DEF IInv, Parents, Dead, BeingForked
  <1>7. Reparenting'
    BY DEF IInv, Reparenting
  <1>8. Scanning'
    BY DEF IInv, Scanning
  <1>9. Waking'
    BY DEF IInv, Waking, InWait
  <1>10. ZombiesSeen'
    BY DEF IInv, ZombiesSeen, InWait
  <1> QED  BY <1>1, <1>2, <1>3, <1>4, <1>5, <1>6, <1>7, <1>8, <1>9, <1>10 DEF IInv

-----------------------------------------------------------------------------

LEMMA InitIInv == Init => IInv
  <1> SUFFICES ASSUME Init PROVE IInv
    OBVIOUS
  <1> USE SlotFacts DEF Init
  <1>1. TypeOK
    BY ProcAssumption DEF TypeOK, States, Labels, Preemptible
  <1>2. Locks /\ Running
    BY DEF Locks, Running, HoldsWaitLock, HoldsOwnLock, Preemptible
  <1>3. Children /\ InitLives /\ Parents
    BY DEF Children, Forking, InitLives, Dead, Exiting, Parents
  <1>4. Reparenting /\ Scanning /\ Waking /\ ZombiesSeen
    BY DEF Reparenting, Scanning, Waking, ZombiesSeen
  <1> QED  BY <1>1, <1>2, <1>3, <1>4 DEF IInv

LEMMA NextIInv == IInv /\ [Next]_vars => IInv'
  <1> SUFFICES ASSUME IInv, [Next]_vars PROVE IInv'
    OBVIOUS
  <1>1. CASE UNCHANGED vars
    BY <1>1 DEF IInv, vars, TypeOK, Locks, Running, Children, InitLives, Parents,
                BeingForked, Reparenting, Scanning, Waking, ZombiesSeen, InWait
  <1>2. CASE Next
    <2>1. PICK p \in Slot :
            \/ Run(p) \/ Yield(p) \/ Sched(p)
            \/ \E np \in Slot : ForkAlloc(p, np) \/ ForkFail(p, np)
            \/ ForkParent(p) \/ ForkRun(p)
            \/ ExitStart(p) \/ Exit(p)
            \/ WaitStart(p) \/ Wait(p) \/ ScanCopyFails(p)
            \/ \E k \in KillPids, v \in Slot : Kill(p, k, v)
      BY <1>2 DEF Next
    <2>2. CASE Run(p) \/ Yield(p) \/ Sched(p)
      BY <2>2, RunIInv, YieldIInv, SchedIInv
    <2>3. CASE \E np \in Slot : ForkAlloc(p, np) \/ ForkFail(p, np)
      BY <2>3, ForkAllocIInv, ForkFailIInv
    <2>4. CASE ForkParent(p) \/ ForkRun(p)
      BY <2>4, ForkParentIInv, ForkRunIInv
    <2>5. CASE ExitStart(p) \/ Exit(p)
      BY <2>5, ExitStartIInv, ExitLockIInv, ReparentIInv, ReparentWakeupIInv,
         ExitWakeupIInv, ZombieLockIInv, ZombieIInv DEF Exit
    <2>6. CASE WaitStart(p) \/ Wait(p) \/ ScanCopyFails(p)
      BY <2>6, WaitStartIInv, WaitLockIInv, ScanNextIInv, ScanReapIInv,
         ScanCopyFailsIInv, ScanEndIInv, SleepLockIInv, SleepIInv DEF Wait
    <2>7. CASE \E k \in KillPids, v \in Slot : Kill(p, k, v)
      BY <2>7, KillIInv
    <2> QED  BY <2>1, <2>2, <2>3, <2>4, <2>5, <2>6, <2>7
  <1> QED  BY <1>1, <1>2

\* The invariant the properties rest on, of every behaviour of the kernel.
THEOREM Invariance == Spec => []IInv
  BY InitIInv, NextIInv, PTL DEF Spec

\* Every field of the process table and every loop index stays in its range:
\* in particular reparent(), wakeup() and wait() never index past proc[NPROC].
THEOREM TypeCorrect == Spec => []TypeOK
  <1>1. IInv => TypeOK
    BY DEF IInv
  <1> QED  BY <1>1, Invariance, PTL

\* wait() never misses an exit, with any number of processes: it scans and falls
\* asleep, and exit() and reparent() wake and become a zombie, under wait_lock
\* (proc.c:25-28).
THEOREM NoExitLost == Spec => []NoLostExit
  <1>1. IInv => NoLostExit
    <2> SUFFICES ASSUME IInv, wait_lock = NoProc, NEW z \in Slot,
                        state[z] = "ZOMBIE", InWait(parent[z])
                 PROVE  FALSE
      BY DEF NoLostExit
    <2> QED  BY SlotFacts DEF IInv, ZombiesSeen, Locks, HoldsWaitLock
  <1> QED  BY <1>1, Invariance, PTL

\* freeproc() never gives back a stack that a CPU still runs on (proc.c:434).
THEOREM FreedOffCpu == Spec => []FreedIsOffCpu
  <1>1. IInv => FreedIsOffCpu
    BY SlotFacts DEF IInv, FreedIsOffCpu, Running, Locks, HoldsOwnLock
  <1> QED  BY <1>1, Invariance, PTL

\* Nobody is orphaned (proc.c:358-371).
THEOREM NoOrphans == Spec => []ParentsLive
  <1>1. IInv => ParentsLive
    BY SlotFacts DEF IInv, ParentsLive, Parents, Dead
  <1> QED  BY <1>1, Invariance, PTL

\* No panic of sched() is reached (proc.c:714-719).
THEOREM SchedNeverPanics == Spec => []SchedCallable
  <1>1. IInv => SchedCallable
    BY SlotFacts DEF IInv, SchedCallable, At, Running, Locks, HoldsOwnLock,
                     HoldsWaitLock
  <1> QED  BY <1>1, Invariance, PTL
=============================================================================
