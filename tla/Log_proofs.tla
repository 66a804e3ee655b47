----------------------------- MODULE Log_proofs -----------------------------
(***************************************************************************)
(* Proofs about Log, for any set of processes, blocks and contents and any *)
(* log size.                                                               *)
(*                                                                         *)
(* TypeOK is not inductive: install_trans() subtracts from a pin count,    *)
(* end_op() from log.outstanding, and the loops index log.lh and the log's *)
(* data blocks.  IInv adds what keeps these in range.  SInv counts log     *)
(* space, and CInv, for the refinement of TxnDisk, says what blocks hold.  *)
(***************************************************************************)
EXTENDS Log, FiniteSetTheorems, TLAPS

\* log.outstanding counts the processes between begin_op() and end_op().
Counting == IsFiniteSet(Active) /\ outstanding = Cardinality(Active)

\* log.committing is set exactly while somebody is in commit(), alone.
Committer ==
  /\ committing <=> phase \in Committing
  /\ \A p \in Proc : pc[p] = "commit" => committing
  /\ \A p, q \in Proc : pc[p] = "commit" /\ pc[q] = "commit" => p = q
  /\ committing => \A p \in Proc : pc[p] # "op"

\* A log_write() is due only inside a transaction, with the buffer locked.
Owing == \A p \in Proc : dirty[p] => pc[p] = "op" /\ hold[p] \in Block

\* Nobody uses the file system before recovery is over.
Booting == phase \in Recovering => \A p \in Proc : pc[p] = "user"

\* The loop index stays inside log.lh.
Looping == {"write_log", "install", "recover"}
InLoop == IF phase \in Looping THEN tail < Len(lh) ELSE tail = 0

\* Both headers fit in the log area and name no block twice.
FitsLog(s) ==
  /\ Len(s) <= LogSlots
  /\ \A i, j \in 1..Len(s) : s[i] = s[j] => i = j
Headers == FitsLog(lh) /\ FitsLog(hdr)

\* The transaction is empty unless somebody writes, commits or recovers it; a
\* commit() that goes to the disk has something to write.
EmptyWhenIdle ==
  /\ phase \in {"end", "read_head"} => lh = <<>>
  /\ phase = "write_head" => lh # <<>>
  /\ phase = "idle" /\ lh # <<>> => Active # {}

IInv ==
  /\ TypeOK
  /\ Counting
  /\ Committer
  /\ Owing
  /\ Booting
  /\ InLoop
  /\ Headers
  /\ EmptyWhenIdle
  /\ PinnedExactly
  /\ SleeperHasWaker

-----------------------------------------------------------------------------
(***************************************************************************)
(* Facts used by several steps.                                            *)
(***************************************************************************)

\* There is somebody in a transaction exactly when log.outstanding is not 0.
LEMMA SomebodyActive ==
  ASSUME Counting
  PROVE  /\ outstanding \in Nat
         /\ outstanding = 0 <=> Active = {}
  BY FS_EmptySet, FS_CardinalityType DEF Counting

\* The running log_write(), Modify or end_op() finds the log idle.
LEMMA ActiveIsIdle ==
  ASSUME IInv, NEW p \in Proc, pc[p] = "op"
  PROVE  ~committing /\ phase = "idle"
  BY DEF IInv, Committer, Booting, TypeOK, Phases

LEMMA InitIInv == Init => IInv
<1> SUFFICES ASSUME Init PROVE IInv
  OBVIOUS
<1> USE LogAssumption DEF LogAssumption, Init
<1>1. TypeOK
  <2>1. home \in [Block -> Val] /\ logdata \in [1..LogSlots -> Val]
    OBVIOUS
  <2>2. /\ cache \in [Block -> Val \cup {NotCached}]
        /\ pc \in [Proc -> {"user", "woken", "sleep", "op", "commit"}]
        /\ hold \in [Proc -> Block \cup {NoBlock}]
        /\ dirty \in [Proc -> BOOLEAN]
        /\ wrote \in [Proc -> SUBSET Block]
    OBVIOUS
  <2>3. /\ pins \in [Block -> Nat] /\ hdr \in Seq(Block) /\ lh \in Seq(Block)
        /\ outstanding \in Nat /\ tail \in Nat /\ crashes \in 0..MaxCrashes
    OBVIOUS
  <2>4. committing \in BOOLEAN /\ phase \in Phases /\ panicked \in BOOLEAN
    BY DEF Phases, Recovering
  <2> QED
    BY <2>1, <2>2, <2>3, <2>4 DEF TypeOK
<1>2. Counting
  <2>1. Active = {}
    BY DEF Active
  <2> QED
    BY <2>1, FS_EmptySet DEF Counting
<1>3. Committer
  BY DEF Committer, Committing
<1>4. Owing /\ Booting /\ InLoop
  BY DEF Owing, Booting, InLoop, Looping
<1>5. Headers /\ EmptyWhenIdle
  BY DEF Headers, FitsLog, LogSlots, EmptyWhenIdle
<1>6. PinnedExactly /\ SleeperHasWaker
  BY DEF PinnedExactly, Recovering, SleeperHasWaker
<1> QED
  BY <1>1, <1>2, <1>3, <1>4, <1>5, <1>6 DEF IInv
-----------------------------------------------------------------------------
(***************************************************************************)
(* IInv is preserved by each action.                                       *)
(***************************************************************************)

\* A step on the buffers alone: the other parts of IInv do not mention them.
LEMMA BufferStep ==
  ASSUME IInv, TypeOK', Owing',
         UNCHANGED <<hdr, pins, logVars, pc, phase, tail>>
  PROVE  IInv'
<1>1. Active' = Active
  BY DEF Active
<1>2. Counting' /\ Committer'
  BY <1>1 DEF IInv, Counting, Committer, logVars
<1>3. Booting' /\ InLoop' /\ Headers' /\ EmptyWhenIdle'
  BY <1>1 DEF IInv, Booting, InLoop, Headers, FitsLog, EmptyWhenIdle, logVars
<1>4. PinnedExactly' /\ SleeperHasWaker'
  BY DEF IInv, PinnedExactly, ToInstall, SleeperHasWaker, logVars
<1> QED
  BY <1>2, <1>3, <1>4 DEF IInv

LEMMA BreadIInv ==
  ASSUME IInv, NEW p \in Proc, NEW b \in Block, Bread(p, b)
  PROVE  IInv'
<1>1. TypeOK'
  BY DEF IInv, TypeOK, Bread, Contents, diskVars, logVars
<1>2. Owing'
  BY DEF IInv, TypeOK, Owing, Bread
<1> QED
  BY <1>1, <1>2, BufferStep DEF Bread, diskVars

LEMMA ModifyIInv ==
  ASSUME IInv, NEW p \in Proc, NEW v \in Val, Modify(p, v)
  PROVE  IInv'
<1>1. TypeOK'
  BY DEF IInv, TypeOK, Modify, diskVars, logVars
<1>2. Owing'
  BY DEF IInv, TypeOK, Owing, Modify
<1> QED
  BY <1>1, <1>2, BufferStep DEF Modify, diskVars

LEMMA BrelseIInv ==
  ASSUME IInv, NEW p \in Proc, Brelse(p)
  PROVE  IInv'
<1>1. TypeOK'
  BY DEF IInv, TypeOK, Brelse, diskVars, logVars
<1>2. Owing'
  BY DEF IInv, TypeOK, Owing, Brelse
<1> QED
  BY <1>1, <1>2, BufferStep DEF Brelse, diskVars

LEMMA RecycleIInv ==
  ASSUME IInv, NEW b \in Block, Recycle(b)
  PROVE  IInv'
<1>1. TypeOK'
  BY DEF IInv, TypeOK, Recycle, diskVars, logVars
<1>2. Owing'
  BY DEF IInv, Owing, Recycle
<1> QED
  BY <1>1, <1>2, BufferStep DEF Recycle, diskVars

\* begin_op() sleeps only if a commit runs or an admitted call holds log space:
\* an idle log with nobody in it has room for one call.
LEMMA BeginOpIInv ==
  ASSUME IInv, NEW p \in Proc, BeginOp(p)
  PROVE  IInv'
<1> USE DEF diskVars, bufVars
<1>1. TypeOK'
  BY DEF IInv, TypeOK, BeginOp
<1>2. pc[p] \in {"user", "woken"} /\ p \notin Active
  BY DEF BeginOp, Active
<1>3. UNCHANGED <<lh, hdr, pins, committing, phase, tail, dirty, hold>>
  BY DEF BeginOp
<1>4. Booting' /\ InLoop' /\ Headers' /\ PinnedExactly'
  BY <1>3 DEF IInv, Booting, InLoop, Headers, FitsLog, PinnedExactly,
              ToInstall, BeginOp
<1>5. CASE committing \/ MayExhaustLog
  <2>1. pc' = [pc EXCEPT ![p] = "sleep"] /\ outstanding' = outstanding
    BY <1>5 DEF BeginOp
  <2>2. Active' = Active
    BY <1>2, <2>1 DEF IInv, TypeOK, Active
  <2>3. Counting' /\ EmptyWhenIdle'
    BY <1>3, <2>1, <2>2 DEF IInv, Counting, EmptyWhenIdle
  <2>4. Committer' /\ Owing'
    BY <1>2, <1>3, <2>1 DEF IInv, TypeOK, Committer, Owing
  <2>5. SleeperHasWaker'
    <3>1. CASE committing
      BY <3>1, <1>3 DEF SleeperHasWaker
    <3>2. CASE ~committing
      <4>1. MayExhaustLog
        BY <1>5, <3>2
      <4>2. lh # <<>> \/ outstanding # 0
        BY <4>1, LogAssumption DEF MayExhaustLog, LogAssumption
      <4>3. phase = "idle"
        BY <3>2 DEF IInv, TypeOK, Committer, Phases, BeginOp
      <4>4. Active # {}
        BY <4>2, <4>3, SomebodyActive DEF IInv, EmptyWhenIdle
      <4> QED
        BY <4>4, <2>2 DEF SleeperHasWaker, Active
    <3> QED
      BY <3>1, <3>2
  <2> QED
    BY <1>1, <1>4, <2>3, <2>4, <2>5 DEF IInv
<1>6. CASE ~committing /\ ~MayExhaustLog
  <2>1. pc' = [pc EXCEPT ![p] = "op"] /\ outstanding' = outstanding + 1
    BY <1>6 DEF BeginOp
  <2>2. Active' = Active \cup {p}
    BY <2>1 DEF IInv, TypeOK, Active
  <2>3. Counting'
    BY <1>2, <2>1, <2>2, FS_AddElement DEF IInv, Counting
  <2>4. Committer' /\ Owing'
    BY <1>2, <1>3, <1>6, <2>1 DEF IInv, TypeOK, Committer, Owing
  <2>5. EmptyWhenIdle'
    BY <1>3, <2>2 DEF IInv, EmptyWhenIdle
  <2>6. SleeperHasWaker'
    BY <2>1 DEF IInv, TypeOK, SleeperHasWaker
  <2> QED
    BY <1>1, <1>4, <2>3, <2>4, <2>5, <2>6 DEF IInv
<1> QED
  BY <1>5, <1>6 DEF BeginOp

\* log_write() appends a block that is not in the transaction yet, and only
\* where the log has room, so that the header stays within the log area.
LEMMA LogWriteIInv ==
  ASSUME IInv, NEW p \in Proc, LogWrite(p)
  PROVE  IInv'
<1> DEFINE b == hold[p]
           added == ~LogWritePanics /\ ~InLog(b)
<1> USE DEF diskVars
<1>1. pc[p] = "op" /\ b \in Block
  BY DEF IInv, TypeOK, Owing, LogWrite
<1>2. phase = "idle" /\ ~committing
  BY <1>1, ActiveIsIdle
<1>3. UNCHANGED <<home, logdata, hdr, cache, hold, outstanding, committing, pc,
                  phase, tail, crashes>>
  BY DEF LogWrite
<1>4. /\ lh' = IF added THEN Append(lh, b) ELSE lh
      /\ pins' = IF added THEN [pins EXCEPT ![b] = @ + 1] ELSE pins
      /\ panicked' = LogWritePanics
      /\ wrote' = [wrote EXCEPT ![p] = @ \cup {b}]
      /\ dirty' = [dirty EXCEPT ![p] = FALSE]
  BY DEF LogWrite
<1>5. TypeOK'
  <2>1. LogWritePanics \in BOOLEAN
    BY DEF LogWritePanics
  <2>2. lh' \in Seq(Block) /\ pins' \in [Block -> Nat]
    BY <1>1, <1>4 DEF IInv, TypeOK
  <2>3. wrote' \in [Proc -> SUBSET Block] /\ dirty' \in [Proc -> BOOLEAN]
    BY <1>1, <1>4 DEF IInv, TypeOK
  <2> QED
    BY <1>3, <1>4, <2>1, <2>2, <2>3 DEF IInv, TypeOK
<1>6. Active' = Active /\ Active # {}
  BY <1>1, <1>3 DEF Active
<1>7. Counting' /\ Committer' /\ Owing' /\ Booting' /\ SleeperHasWaker'
  BY <1>3, <1>4, <1>6 DEF IInv, TypeOK, Counting, Committer, Owing, Booting,
                         SleeperHasWaker
<1>8. EmptyWhenIdle' /\ InLoop'
  BY <1>2, <1>3, <1>6 DEF IInv, EmptyWhenIdle, InLoop, Looping
<1>9. Headers'
  <2>1. CASE added
    <3>1. lh' = Append(lh, b) /\ Len(lh) < LogSlots
      BY <2>1, <1>4, LogAssumption DEF LogAssumption, LogWritePanics, LogSlots,
                                     IInv, TypeOK
    <3>2. Len(lh') = Len(lh) + 1 /\ \A i \in 1..Len(lh') :
            lh'[i] = IF i = Len(lh) + 1 THEN b ELSE lh[i]
      BY <3>1, <1>1 DEF IInv, TypeOK
    <3>3. \A i \in 1..Len(lh) : lh[i] # b
      BY <2>1 DEF InLog
    <3>4. FitsLog(lh')
      BY <3>1, <3>2, <3>3, LogAssumption
         DEF IInv, TypeOK, Headers, FitsLog, LogSlots, LogAssumption
    <3> QED
      BY <3>4, <1>3 DEF IInv, Headers, FitsLog
  <2>2. CASE ~added
    BY <2>2, <1>3, <1>4 DEF IInv, Headers, FitsLog
  <2> QED
    BY <2>1, <2>2
<1>10. PinnedExactly'
  <2> SUFFICES ASSUME NEW c \in Block
               PROVE  pins'[c] = IF c \in ToInstall' THEN 1 ELSE 0
    BY <1>2, <1>3 DEF PinnedExactly, Recovering
  <2>1. /\ c \in ToInstall <=> \E i \in 1..Len(lh) : lh[i] = c
        /\ c \in ToInstall' <=> \E i \in 1..Len(lh') : lh'[i] = c
    BY <1>2, <1>3 DEF ToInstall
  <2>2. pins[c] = IF c \in ToInstall THEN 1 ELSE 0
    BY <1>2 DEF IInv, PinnedExactly, Recovering
  <2>3. CASE added
    <3>1. Len(lh') = Len(lh) + 1 /\ \A i \in 1..Len(lh') :
            lh'[i] = IF i = Len(lh) + 1 THEN b ELSE lh[i]
      BY <2>3, <1>1, <1>4 DEF IInv, TypeOK
    <3>2. c \in ToInstall' <=> c \in ToInstall \/ c = b
      <4>1. Len(lh) \in Nat
        BY DEF IInv, TypeOK
      <4>2. ASSUME c \in ToInstall' PROVE c \in ToInstall \/ c = b
        <5>1. PICK i \in 1..Len(lh') : lh'[i] = c
          BY <2>1, <4>2
        <5> QED
          BY <2>1, <3>1, <4>1, <5>1
      <4>3. ASSUME c \in ToInstall PROVE c \in ToInstall'
        <5>1. PICK i \in 1..Len(lh) : lh[i] = c
          BY <2>1, <4>3
        <5>2. i \in 1..Len(lh') /\ lh'[i] = c
          BY <3>1, <4>1, <5>1
        <5> QED
          BY <2>1, <5>2
      <4>4. ASSUME c = b PROVE c \in ToInstall'
        <5>1. Len(lh) + 1 \in 1..Len(lh') /\ lh'[Len(lh) + 1] = b
          BY <3>1, <4>1
        <5> QED
          BY <2>1, <4>4, <5>1
      <4> QED
        BY <4>2, <4>3, <4>4
    <3>3. b \notin ToInstall
      BY <2>3, <1>2 DEF ToInstall, InLog
    <3>4. pins' = [pins EXCEPT ![b] = @ + 1]
      BY <2>3, <1>4
    <3> QED
      BY <1>1, <2>2, <3>2, <3>3, <3>4 DEF IInv, TypeOK
  <2>4. CASE ~added
    BY <2>4, <1>4, <2>1, <2>2
  <2> QED
    BY <2>3, <2>4
<1> QED
  BY <1>5, <1>7, <1>8, <1>9, <1>10 DEF IInv

\* end_op(): the caller leaves Active; the last one out starts the commit, any
\* other wakes the sleepers.
LEMMA EndOpIInv ==
  ASSUME IInv, NEW p \in Proc, EndOp(p)
  PROVE  IInv'
<1> USE DEF diskVars, bufVars
<1>1. pc[p] = "op" /\ p \in Active
  BY DEF EndOp, Active
<1>2. phase = "idle" /\ ~committing
  BY <1>1, ActiveIsIdle
<1>3. UNCHANGED <<home, logdata, hdr, cache, pins, hold, dirty, lh, crashes>>
  BY DEF EndOp
<1>4. outstanding \in Nat \ {0} /\ outstanding' = outstanding - 1
  BY <1>1, SomebodyActive DEF IInv, EndOp
<1>5. ~dirty[p]
  <2>1. hold[p] \notin Block
    BY LogAssumption DEF LogAssumption, EndOp
  <2> QED
    BY <2>1 DEF IInv, Owing
<1>6. panicked' = committing /\ wrote' = [wrote EXCEPT ![p] = {}]
  BY DEF EndOp
<1>7. Headers'
  BY <1>3 DEF IInv, Headers, FitsLog
<1>8. CASE LastOut
  <2>1. /\ committing' = TRUE
        /\ pc' = [pc EXCEPT ![p] = "commit"]
        /\ phase' = IF lh = <<>> THEN "end" ELSE "write_log"
        /\ tail' = 0
    BY <1>8 DEF EndOp
  <2>2. Active' = Active \ {p}
    BY <2>1 DEF IInv, TypeOK, Active
  <2>3. Counting'
    BY <1>1, <1>4, <2>2, FS_RemoveElement DEF IInv, Counting
  <2>4. Active' = {}
    BY <1>4, <1>8, <2>3, FS_EmptySet DEF Counting, LastOut
  <2>5. \A q \in Proc : pc'[q] # "op"
    BY <2>4 DEF Active
  <2>6. TypeOK'
    BY <1>3, <1>4, <1>6, <2>1 DEF IInv, TypeOK, Phases, Committing
  <2>7. Committer'
    BY <1>2, <2>1, <2>5 DEF IInv, TypeOK, Committer, Committing
  <2>8. Owing'
    <3>1. \A q \in Proc : ~dirty[q]
      BY <1>5, <2>1, <2>5 DEF IInv, TypeOK, Owing
    <3> QED
      BY <3>1, <1>3 DEF Owing
  <2>9. Booting' /\ SleeperHasWaker'
    BY <2>1 DEF Booting, Recovering, SleeperHasWaker
  <2>10. InLoop'
    BY <1>3, <2>1 DEF InLoop, Looping, IInv, TypeOK
  <2>11. EmptyWhenIdle'
    BY <1>3, <2>1 DEF EmptyWhenIdle
  <2>12. PinnedExactly'
    BY <1>2, <1>3, <2>1 DEF IInv, PinnedExactly, ToInstall, Recovering
  <2> QED
    BY <1>7, <2>3, <2>6, <2>7, <2>8, <2>9, <2>10, <2>11, <2>12 DEF IInv
<1>9. CASE ~LastOut
  <2>1. /\ pc' = [WakeAll EXCEPT ![p] = "user"]
        /\ UNCHANGED <<committing, phase, tail>>
    BY <1>9 DEF EndOp
  <2>2. \A q \in Proc :
          pc'[q] = IF q = p THEN "user"
                   ELSE IF pc[q] = "sleep" THEN "woken" ELSE pc[q]
    BY <2>1 DEF WakeAll
  <2>3. Active' = Active \ {p}
    BY <2>2 DEF Active
  <2>4. Counting'
    BY <1>1, <1>4, <2>3, FS_RemoveElement DEF IInv, Counting
  <2>5. Active' # {}
    BY <1>4, <1>9, <2>4, FS_EmptySet DEF Counting, LastOut
  <2>6. TypeOK'
    <3>1. pc' \in [Proc -> {"user", "woken", "sleep", "op", "commit"}]
      BY <2>1 DEF IInv, TypeOK, WakeAll
    <3> QED
      BY <1>3, <1>4, <1>6, <2>1, <3>1 DEF IInv, TypeOK
  <2>7. Committer'
    BY <1>2, <2>1, <2>2 DEF IInv, TypeOK, Committer
  <2>8. Owing'
    BY <1>3, <1>5, <2>2 DEF IInv, TypeOK, Owing
  <2>9. Booting' /\ InLoop' /\ EmptyWhenIdle'
    BY <1>2, <1>3, <2>1, <2>5
       DEF IInv, Booting, Recovering, InLoop, Looping, EmptyWhenIdle
  <2>10. SleeperHasWaker'
    BY <2>2 DEF SleeperHasWaker
  <2>11. PinnedExactly'
    BY <1>3, <2>1 DEF IInv, PinnedExactly, ToInstall
  <2> QED
    BY <1>7, <2>4, <2>6, <2>7, <2>8, <2>9, <2>10, <2>11 DEF IInv
<1> QED
  BY <1>8, <1>9

\* A step inside commit() or recover_from_log() leaves alone the parts of IInv
\* that are about processes.
LEMMA InnerStep ==
  ASSUME IInv, UNCHANGED <<outstanding, committing, pc, hold, dirty>>,
         phase' \in Committing <=> phase \in Committing,
         phase' \in Recovering => phase \in Recovering
  PROVE  Counting' /\ Committer' /\ Owing' /\ Booting' /\ SleeperHasWaker'
<1>1. Active' = Active
  BY DEF Active
<1> QED
  BY <1>1 DEF IInv, Counting, Committer, Owing, Booting, SleeperHasWaker

\* The loops of write_log() and install_trans() index log.lh and the log's data
\* blocks within their bounds.
LEMMA LoopIndex ==
  ASSUME IInv, phase \in Looping
  PROVE  /\ tail + 1 \in 1..Len(lh)
         /\ tail + 1 \in 1..LogSlots
         /\ lh[tail + 1] \in Block
<1>1. tail \in Nat /\ Len(lh) \in Nat /\ tail < Len(lh)
  BY DEF IInv, TypeOK, InLoop
<1>2. LogSlots \in Nat /\ Len(lh) <= LogSlots
  BY LogAssumption DEF LogAssumption, LogSlots, IInv, Headers, FitsLog
<1>3. tail + 1 \in 1..Len(lh) /\ tail + 1 \in 1..LogSlots
  BY <1>1, <1>2
<1> QED
  BY <1>3 DEF IInv, TypeOK

LEMMA WriteLogIInv ==
  ASSUME IInv, WriteLog
  PROVE  IInv'
<1> DEFINE b == lh[tail + 1]
<1>1. phase = "write_log" /\ UNCHANGED <<home, hdr, pins, hold, dirty, lh,
        outstanding, committing, pc, wrote, panicked, crashes>>
  BY DEF WriteLog, logVars
<1>2. b \in Block /\ tail + 1 \in 1..LogSlots
  BY <1>1, LoopIndex DEF Looping
<1>3. /\ logdata' = [logdata EXCEPT ![tail + 1] = Contents(b)]
      /\ cache' = [cache EXCEPT ![b] = Contents(b)]
      /\ tail' = IF tail + 1 < Len(lh) THEN tail + 1 ELSE 0
      /\ phase' = IF tail + 1 < Len(lh) THEN phase ELSE "write_head"
  BY DEF WriteLog, Turn
<1>4. Contents(b) \in Val
  BY <1>2 DEF IInv, TypeOK, Contents
<1>5. TypeOK'
  <2>1. logdata' \in [1..LogSlots -> Val]
    BY <1>3, <1>4 DEF IInv, TypeOK
  <2>2. cache' \in [Block -> Val \cup {NotCached}]
    BY <1>3, <1>4 DEF IInv, TypeOK
  <2>3. tail' \in Nat /\ phase' \in Phases
    BY <1>1, <1>3 DEF IInv, TypeOK, Phases, Committing
  <2> QED
    BY <1>1, <2>1, <2>2, <2>3 DEF IInv, TypeOK
<1>6. Counting' /\ Committer' /\ Owing' /\ Booting' /\ SleeperHasWaker'
  BY <1>1, <1>3, InnerStep DEF Committing, Recovering
<1>7. InLoop' /\ Headers' /\ EmptyWhenIdle'
  BY <1>1, <1>3 DEF IInv, TypeOK, InLoop, Looping, Headers, FitsLog,
                    EmptyWhenIdle
<1>8. PinnedExactly'
  BY <1>1, <1>3 DEF IInv, PinnedExactly, ToInstall, Recovering
<1> QED
  BY <1>5, <1>6, <1>7, <1>8 DEF IInv

LEMMA WriteHeadIInv ==
  ASSUME IInv, WriteHead
  PROVE  IInv'
<1> USE DEF bufVars, logVars
<1>1. phase = "write_head" /\ hdr' = lh /\ phase' = "install"
  BY DEF WriteHead
<1>2. UNCHANGED <<pins, hold, dirty, lh, outstanding, committing, pc, tail>>
  BY DEF WriteHead
<1>3. TypeOK'
  BY <1>1 DEF IInv, TypeOK, WriteHead, Phases, Committing
<1>4. Counting' /\ Committer' /\ Owing' /\ Booting' /\ SleeperHasWaker'
  BY <1>1, <1>2, InnerStep DEF Committing, Recovering
<1>5. tail = 0
  BY <1>1 DEF IInv, InLoop, Looping
<1>6. lh # <<>>
  BY <1>1 DEF IInv, EmptyWhenIdle
<1>7. InLoop'
  BY <1>1, <1>2, <1>5, <1>6 DEF IInv, TypeOK, InLoop
<1>8. Headers' /\ EmptyWhenIdle'
  BY <1>1, <1>2 DEF IInv, Headers, FitsLog, EmptyWhenIdle
<1>9. PinnedExactly'
  BY <1>1, <1>2, <1>5 DEF IInv, TypeOK, PinnedExactly, ToInstall, Recovering
<1> QED
  BY <1>3, <1>4, <1>7, <1>8, <1>9 DEF IInv

\* Both forms of install_trans() write one block from the log to its home.
LEMMA InstallBlockType ==
  ASSUME IInv, phase \in Looping, InstallBlock
  PROVE  /\ home' \in [Block -> Val]
         /\ cache' \in [Block -> Val \cup {NotCached}]
<1>1. lh[tail + 1] \in Block /\ tail + 1 \in 1..LogSlots
  BY LoopIndex
<1>2. logdata[tail + 1] \in Val
  BY <1>1 DEF IInv, TypeOK
<1> QED
  BY <1>2 DEF IInv, TypeOK, InstallBlock

\* install_trans(0) drops the pin of the block it installs: no other entry of
\* log.lh names that block, so the pin it drops is the only one.
LEMMA InstallIInv ==
  ASSUME IInv, Install
  PROVE  IInv'
<1> DEFINE b == lh[tail + 1]
<1>1. phase = "install" /\ phase \in Looping
  BY DEF Install, Looping
<1>2. UNCHANGED <<logdata, hdr, hold, dirty, lh, outstanding, committing, pc,
                  wrote, panicked, crashes>>
  BY DEF Install, InstallBlock, logVars
<1>3. /\ pins' = [pins EXCEPT ![b] = @ - 1]
      /\ tail' = IF tail + 1 < Len(lh) THEN tail + 1 ELSE 0
      /\ phase' = IF tail + 1 < Len(lh) THEN phase ELSE "clear"
  BY DEF Install, Turn
<1>4. b \in Block /\ tail + 1 \in 1..Len(lh)
  BY <1>1, LoopIndex
<1>5. tail \in Nat /\ Len(lh) \in Nat
  BY DEF IInv, TypeOK
<1>6. \A c \in Block :
        c \in ToInstall <=> \E i \in 1..Len(lh) : i > tail /\ lh[i] = c
  BY <1>1 DEF ToInstall
<1>7. \A c \in Block : pins[c] = IF c \in ToInstall THEN 1 ELSE 0
  BY <1>1 DEF IInv, PinnedExactly, Recovering
<1>8. b \in ToInstall
  BY <1>4, <1>5, <1>6
<1>9. TypeOK'
  <2>1. pins' \in [Block -> Nat]
    BY <1>3, <1>4, <1>7, <1>8 DEF IInv, TypeOK
  <2>2. tail' \in Nat /\ phase' \in Phases
    BY <1>1, <1>3, <1>5 DEF Phases, Committing
  <2>3. home' \in [Block -> Val] /\ cache' \in [Block -> Val \cup {NotCached}]
    BY <1>1, InstallBlockType DEF Install
  <2> QED
    BY <1>2, <2>1, <2>2, <2>3 DEF IInv, TypeOK
<1>10. Counting' /\ Committer' /\ Owing' /\ Booting' /\ SleeperHasWaker'
  BY <1>1, <1>2, <1>3, InnerStep DEF Committing, Recovering
<1>11. InLoop' /\ Headers' /\ EmptyWhenIdle'
  BY <1>1, <1>2, <1>3, <1>5 DEF IInv, InLoop, Looping, Headers, FitsLog,
                                EmptyWhenIdle
<1>12. PinnedExactly'
  <2> SUFFICES ASSUME NEW c \in Block
               PROVE  pins'[c] = IF c \in ToInstall' THEN 1 ELSE 0
    BY <1>1, <1>3 DEF PinnedExactly, Recovering
  <2>1. c \in ToInstall' <=> c \in ToInstall /\ c # b
    <3>1. \A i \in 1..Len(lh) : lh[i] = b => i = tail + 1
      BY <1>4 DEF IInv, Headers, FitsLog
    <3>2. CASE tail + 1 < Len(lh)
      <4>1. phase' = "install" /\ tail' = tail + 1
        BY <3>2, <1>1, <1>3
      <4>2. c \in ToInstall' <=> \E i \in 1..Len(lh) : i > tail + 1 /\ lh[i] = c
        BY <4>1, <1>2 DEF ToInstall
      <4> QED
        BY <4>2, <3>1, <1>4, <1>5, <1>6
    <3>3. CASE ~(tail + 1 < Len(lh))
      <4>1. ToInstall' = {}
        BY <3>3, <1>3 DEF ToInstall
      <4>2. \A i \in 1..Len(lh) : i > tail => i = tail + 1
        BY <3>3, <1>4, <1>5
      <4> QED
        BY <4>1, <4>2, <1>6
    <3> QED
      BY <3>2, <3>3
  <2> QED
    BY <2>1, <1>3, <1>4, <1>7, <1>8 DEF IInv, TypeOK
<1> QED
  BY <1>9, <1>10, <1>11, <1>12 DEF IInv

LEMMA ClearIInv ==
  ASSUME IInv, Clear
  PROVE  IInv'
<1> USE DEF bufVars, ClearLog
<1>1. phase = "clear" /\ phase' = "end" /\ lh' = <<>> /\ hdr' = <<>>
  BY DEF Clear
<1>2. UNCHANGED <<home, logdata, cache, pins, hold, dirty, outstanding,
                  committing, pc, wrote, tail, panicked, crashes>>
  BY DEF Clear
<1>3. TypeOK'
  BY <1>1, <1>2 DEF IInv, TypeOK, Phases, Committing
<1>4. Counting' /\ Committer' /\ Owing' /\ Booting' /\ SleeperHasWaker'
  BY <1>1, <1>2, InnerStep DEF Committing, Recovering
<1>5. InLoop' /\ Headers' /\ EmptyWhenIdle'
  BY <1>1, <1>2, LogAssumption DEF IInv, InLoop, Looping, Headers, FitsLog,
                      EmptyWhenIdle, LogAssumption, LogSlots
<1>6. PinnedExactly'
  BY <1>1, <1>2 DEF IInv, PinnedExactly, ToInstall, Recovering
<1> QED
  BY <1>3, <1>4, <1>5, <1>6 DEF IInv

LEMMA EndCommitIInv ==
  ASSUME IInv, NEW p \in Proc, EndCommit(p)
  PROVE  IInv'
<1> USE DEF diskVars, bufVars
<1>1. pc[p] = "commit" /\ phase = "end" /\ phase' = "idle" /\ ~committing'
  BY DEF EndCommit
<1>2. UNCHANGED <<home, logdata, hdr, cache, pins, hold, dirty, lh,
                  outstanding, wrote, tail, panicked, crashes>>
  BY DEF EndCommit
<1>3. \A q \in Proc :
        pc'[q] = IF q = p THEN "user"
                 ELSE IF pc[q] = "sleep" THEN "woken" ELSE pc[q]
  BY DEF EndCommit, WakeAll
<1>4. Active' = Active
  BY <1>1, <1>3 DEF Active
<1>5. TypeOK'
  <2>1. pc' \in [Proc -> {"user", "woken", "sleep", "op", "commit"}]
    BY DEF EndCommit, IInv, TypeOK, WakeAll
  <2>2. committing' \in BOOLEAN /\ phase' \in Phases
    BY DEF EndCommit, Phases
  <2> QED
    BY <1>2, <2>1, <2>2 DEF IInv, TypeOK
<1>6. Counting' /\ Owing'
  BY <1>1, <1>2, <1>3, <1>4 DEF IInv, Counting, Owing
<1>7. Committer'
  BY <1>1, <1>3 DEF IInv, Committer, Committing
<1>8. lh = <<>>
  BY <1>1 DEF IInv, EmptyWhenIdle
<1>9. Booting' /\ InLoop' /\ Headers' /\ EmptyWhenIdle'
  BY <1>1, <1>2, <1>8 DEF IInv, Booting, Recovering, InLoop, Looping, Headers,
                          FitsLog, EmptyWhenIdle
<1>10. SleeperHasWaker'
  BY <1>3 DEF SleeperHasWaker
<1>11. PinnedExactly'
  BY <1>1, <1>2 DEF IInv, PinnedExactly, ToInstall, Recovering
<1> QED
  BY <1>5, <1>6, <1>7, <1>9, <1>10, <1>11 DEF IInv

\* A crash forgets everything but the disk, whose header fits in the log.
LEMMA CrashIInv ==
  ASSUME IInv, Crash
  PROVE  IInv'
<1> USE DEF Crash, diskVars
<1>1. TypeOK'
  <2>1. /\ cache' \in [Block -> Val \cup {NotCached}]
        /\ pins' \in [Block -> Nat]
        /\ pc' \in [Proc -> {"user", "woken", "sleep", "op", "commit"}]
        /\ hold' \in [Proc -> Block \cup {NoBlock}]
        /\ dirty' \in [Proc -> BOOLEAN]
        /\ wrote' \in [Proc -> SUBSET Block]
    OBVIOUS
  <2>2. /\ outstanding' \in Nat /\ tail' \in Nat /\ lh' \in Seq(Block)
        /\ crashes' \in 0..MaxCrashes
    BY LogAssumption DEF LogAssumption, IInv, TypeOK
  <2>3. committing' \in BOOLEAN /\ phase' \in Phases /\ panicked' \in BOOLEAN
    BY DEF Phases, Recovering
  <2> QED
    BY <2>1, <2>2, <2>3 DEF IInv, TypeOK
<1>2. Counting'
  <2>1. Active' = {}
    BY DEF Active
  <2> QED
    BY <2>1, FS_EmptySet DEF Counting
<1>3. Committer' /\ Owing' /\ Booting' /\ InLoop'
  BY DEF Committer, Committing, Owing, Booting, InLoop, Looping
<1>4. Headers' /\ EmptyWhenIdle'
  BY LogAssumption DEF LogAssumption, LogSlots, IInv, Headers, FitsLog,
                       EmptyWhenIdle
<1>5. PinnedExactly' /\ SleeperHasWaker'
  BY DEF PinnedExactly, Recovering, SleeperHasWaker
<1> QED
  BY <1>1, <1>2, <1>3, <1>4, <1>5 DEF IInv

LEMMA ReadHeadIInv ==
  ASSUME IInv, ReadHead
  PROVE  IInv'
<1> USE DEF diskVars, bufVars
<1>1. /\ phase = "read_head" /\ lh' = hdr
      /\ phase' = IF hdr = <<>> THEN "rclear" ELSE "recover"
  BY DEF ReadHead
<1>2. UNCHANGED <<home, logdata, hdr, cache, pins, hold, dirty, outstanding,
                  committing, pc, wrote, tail, panicked, crashes>>
  BY DEF ReadHead
<1>3. TypeOK'
  BY <1>1, <1>2 DEF IInv, TypeOK, Phases, Recovering
<1>4. Counting' /\ Committer' /\ Owing' /\ Booting' /\ SleeperHasWaker'
  BY <1>1, <1>2, InnerStep DEF Committing, Recovering
<1>5. tail = 0
  BY <1>1 DEF IInv, InLoop, Looping
<1>6. InLoop' /\ Headers' /\ EmptyWhenIdle'
  BY <1>1, <1>2, <1>5 DEF IInv, TypeOK, InLoop, Looping, Headers, FitsLog,
                          EmptyWhenIdle
<1>7. PinnedExactly'
  BY <1>1, <1>2 DEF IInv, PinnedExactly, Recovering
<1> QED
  BY <1>3, <1>4, <1>6, <1>7 DEF IInv

LEMMA RecoverIInv ==
  ASSUME IInv, Recover
  PROVE  IInv'
<1>1. phase = "recover" /\ phase \in Looping
  BY DEF Recover, Looping
<1>2. UNCHANGED <<logdata, hdr, pins, hold, dirty, lh, outstanding, committing,
                  pc, wrote, panicked, crashes>>
  BY DEF Recover, InstallBlock, logVars
<1>3. /\ tail' = IF tail + 1 < Len(lh) THEN tail + 1 ELSE 0
      /\ phase' = IF tail + 1 < Len(lh) THEN phase ELSE "rclear"
  BY DEF Recover, Turn
<1>4. TypeOK'
  <2>1. home' \in [Block -> Val] /\ cache' \in [Block -> Val \cup {NotCached}]
    BY <1>1, InstallBlockType DEF Recover
  <2>2. tail' \in Nat /\ phase' \in Phases
    BY <1>1, <1>3 DEF IInv, TypeOK, Phases, Recovering
  <2> QED
    BY <1>2, <2>1, <2>2 DEF IInv, TypeOK
<1>5. Counting' /\ Committer' /\ Owing' /\ Booting' /\ SleeperHasWaker'
  BY <1>1, <1>2, <1>3, InnerStep DEF Committing, Recovering
<1>6. InLoop' /\ Headers' /\ EmptyWhenIdle'
  BY <1>1, <1>2, <1>3 DEF IInv, TypeOK, InLoop, Looping, Headers, FitsLog,
                          EmptyWhenIdle
<1>7. PinnedExactly'
  BY <1>1, <1>2, <1>3 DEF IInv, PinnedExactly, Recovering
<1> QED
  BY <1>4, <1>5, <1>6, <1>7 DEF IInv

LEMMA RClearIInv ==
  ASSUME IInv, RClear
  PROVE  IInv'
<1> USE DEF bufVars, ClearLog
<1>1. phase = "rclear" /\ phase' = "idle" /\ lh' = <<>> /\ hdr' = <<>>
  BY DEF RClear
<1>2. UNCHANGED <<home, logdata, cache, pins, hold, dirty, outstanding,
                  committing, pc, wrote, tail, panicked, crashes>>
  BY DEF RClear
<1>3. TypeOK'
  BY <1>1, <1>2 DEF IInv, TypeOK, Phases
<1>4. Counting' /\ Committer' /\ Owing' /\ Booting' /\ SleeperHasWaker'
  BY <1>1, <1>2, InnerStep DEF Committing, Recovering
<1>5. InLoop' /\ Headers' /\ EmptyWhenIdle'
  BY <1>1, <1>2, LogAssumption DEF IInv, InLoop, Looping, Headers, FitsLog,
                      EmptyWhenIdle, LogAssumption, LogSlots
<1>6. PinnedExactly'
  BY <1>1, <1>2 DEF IInv, PinnedExactly, ToInstall, Recovering
<1> QED
  BY <1>3, <1>4, <1>5, <1>6 DEF IInv

LEMMA NextIInv == IInv /\ [Next]_vars => IInv'
<1> SUFFICES ASSUME IInv, [Next]_vars PROVE IInv'
  OBVIOUS
<1>1. ASSUME NEW p \in Proc, NEW b \in Block, Bread(p, b) PROVE IInv'
  BY <1>1, BreadIInv
<1>2. ASSUME NEW p \in Proc, NEW v \in Val, Modify(p, v) PROVE IInv'
  BY <1>2, ModifyIInv
<1>3. ASSUME NEW p \in Proc, Brelse(p) PROVE IInv'
  BY <1>3, BrelseIInv
<1>4. ASSUME NEW b \in Block, Recycle(b) PROVE IInv'
  BY <1>4, RecycleIInv
<1>5. ASSUME NEW p \in Proc, BeginOp(p) PROVE IInv'
  BY <1>5, BeginOpIInv
<1>6. ASSUME NEW p \in Proc, LogWrite(p) PROVE IInv'
  BY <1>6, LogWriteIInv
<1>7. ASSUME NEW p \in Proc, EndOp(p) PROVE IInv'
  BY <1>7, EndOpIInv
<1>8. ASSUME NEW p \in Proc, EndCommit(p) PROVE IInv'
  BY <1>8, EndCommitIInv
<1>9. CASE WriteLog \/ WriteHead \/ Install \/ Clear
  BY <1>9, WriteLogIInv, WriteHeadIInv, InstallIInv, ClearIInv
<1>10. CASE ReadHead \/ Recover \/ RClear \/ Crash
  BY <1>10, ReadHeadIInv, RecoverIInv, RClearIInv, CrashIInv
<1>11. CASE UNCHANGED vars
  <2>1. TypeOK' /\ Owing'
    BY <1>11 DEF IInv, TypeOK, Owing, vars
  <2> QED
    BY <1>11, <2>1, BufferStep DEF vars, logVars
<1> QED
  BY <1>1, <1>2, <1>3, <1>4, <1>5, <1>6, <1>7, <1>8, <1>9, <1>10, <1>11 DEF Next

-----------------------------------------------------------------------------
(***************************************************************************)
(* Theorems.                                                               *)
(***************************************************************************)

\* The strengthened invariant holds in every reachable state of log.c, in any
\* interleaving and after any number of crashes.
THEOREM Invariance == Spec => []IInv
  BY InitIInv, NextIInv, PTL DEF Spec

\* No pin count and no log.outstanding goes below zero, no loop of commit() or
\* of recovery leaves log.lh, every block that is installed is one of the log's.
THEOREM TypeCorrect == Spec => []TypeOK
<1>1. IInv => TypeOK
  BY DEF IInv
<1> QED
  BY <1>1, Invariance, PTL

\* commit(), which runs without log.lock, runs while nobody is inside a
\* transaction or owes a log_write() (log.c:12-14, 155-157).
THEOREM CommitIsAlone == Spec => []CommitsAlone
<1>1. IInv => CommitsAlone
  <2> SUFFICES ASSUME IInv, committing PROVE CommitsAlone
    BY DEF CommitsAlone
  <2>1. Active = {}
    BY DEF IInv, Committer, Active
  <2>2. outstanding = 0
    BY <2>1, SomebodyActive DEF IInv
  <2>3. \A p \in Proc : ~dirty[p]
    BY DEF IInv, Committer, Owing
  <2> QED
    BY <2>1, <2>2, <2>3 DEF IInv, Committer, CommitsAlone
<1> QED
  BY <1>1, Invariance, PTL

\* No wakeup of begin_op()'s sleepers is lost, however many processes there are
\* and however small the log is, as long as one call fits (log.c:129-137, 162,
\* 172).
THEOREM NoLostWakeup == Spec => []SleeperHasWaker
<1>1. IInv => SleeperHasWaker
  BY DEF IInv
<1> QED
  BY <1>1, Invariance, PTL

\* log_write()'s bpin() and install_trans()'s bunpin() match: exactly the blocks
\* still to be installed are pinned, once each (log.c:78-79, 226-232).
THEOREM PinsMatch == Spec => []PinnedExactly
<1>1. IInv => PinnedExactly
  BY DEF IInv
<1> QED
  BY <1>1, Invariance, PTL

-----------------------------------------------------------------------------
(***************************************************************************)
(* The log does not overflow.  begin_op() reserves MAXOPBLOCKS blocks for  *)
(* each call and log_write() uses them up.  SInv counts what is left: the  *)
(* transaction and the blocks that the active calls may still add to it    *)
(* fit together in what begin_op() shares out.                             *)
(***************************************************************************)

\* What the code relies on: a call writes fewer blocks than it reserves, the
\* log area holds one call, and what two calls leave unused makes up for the
\* block that log_write() keeps free in the area.  (30 blocks shared out and on
\* disk, 10 reserved: up to 9 written.)
ReservationCovers ==
  /\ OpBlocks < MAXOPBLOCKS
  /\ OpBlocks < LogBlocks - 1
  /\ LOGSIZE - 2 * (MAXOPBLOCKS - OpBlocks) < LogBlocks - 1

\* The reserved blocks that call p has not used, numbered.
Reserved ==
  {r \in Active \X (1..MAXOPBLOCKS) : r[2] > Cardinality(wrote[r[1]])}

\* Everything reserved fits.
Room ==
  /\ Len(lh) + Cardinality(Reserved) <= LOGSIZE
  /\ Len(hdr) <= LOGSIZE

\* A call that is alone inside a transaction follows one that left blocks
\* unused, or else the transaction is its own.
Alone ==
  \A p \in Proc : Active = {p} =>
    \/ Len(lh) + Cardinality(Reserved) <= LOGSIZE - (MAXOPBLOCKS - OpBlocks)
    \/ Len(lh) <= Cardinality(wrote[p])

\* A call keeps to its limit, and what it wrote is in the transaction.
WithinLimit ==
  \A p \in Proc :
    /\ IsFiniteSet(wrote[p]) /\ Cardinality(wrote[p]) <= OpBlocks
    /\ dirty[p] => Cardinality(wrote[p] \cup {hold[p]}) <= OpBlocks
    /\ pc[p] # "op" => wrote[p] = {}
    /\ \A b \in wrote[p] : InLog(b)

SInv ==
  /\ Room
  /\ Alone
  /\ WithinLimit
  /\ NoPanic

-----------------------------------------------------------------------------
LEMMA ReservationsBound ==
  ASSUME NEW A, IsFiniteSet(A), NEW R \in SUBSET (A \X (1..MAXOPBLOCKS))
  PROVE  /\ IsFiniteSet(R) /\ Cardinality(R) \in Nat
         /\ Cardinality(R) <= Cardinality(A) * MAXOPBLOCKS
<1> DEFINE I == 1..MAXOPBLOCKS
<1>1. MAXOPBLOCKS \in Nat /\ MAXOPBLOCKS > 0
  BY LogAssumption DEF LogAssumption
<1>2. IsFiniteSet(I) /\ Cardinality(I) = MAXOPBLOCKS
  BY <1>1, FS_Interval
<1> HIDE DEF I
<1>3. IsFiniteSet(A \X I) /\ Cardinality(A \X I) = Cardinality(A) * MAXOPBLOCKS
  BY <1>2, FS_Product
<1>4. R \in SUBSET (A \X I)
  BY DEF I
<1> QED
  BY <1>3, <1>4, FS_Subset, FS_CardinalityType

LEMMA ReservedFinite ==
  ASSUME IInv
  PROVE  IsFiniteSet(Reserved) /\ Cardinality(Reserved) \in Nat
<1>1. IsFiniteSet(Active) /\ Reserved \in SUBSET (Active \X (1..MAXOPBLOCKS))
  BY DEF IInv, Counting, Reserved
<1> QED
  BY <1>1, ReservationsBound

\* Log space that is given back stays free.
LEMMA ReservedShrinks ==
  ASSUME IInv, SInv, Reserved' \subseteq Reserved, lh' = lh, hdr' = hdr
  PROVE  Room'
<1>1. IsFiniteSet(Reserved) /\ Cardinality(Reserved) \in Nat
  BY ReservedFinite
<1>2. IsFiniteSet(Reserved') /\ Cardinality(Reserved') <= Cardinality(Reserved)
  BY <1>1, FS_Subset
<1>3. Cardinality(Reserved') \in Nat
  BY <1>2, FS_CardinalityType
<1>4. Len(lh) \in Nat /\ LOGSIZE \in Nat
  BY LogAssumption DEF IInv, TypeOK, LogAssumption
<1> QED
  BY <1>1, <1>2, <1>3, <1>4 DEF SInv, Room

\* With nobody inside a transaction nothing is reserved.
LEMMA NothingReserved ==
  ASSUME \A p \in Proc : pc[p] # "op"
  PROVE  Cardinality(Reserved) = 0
<1>1. Reserved = {}
  BY DEF Reserved, Active
<1> QED
  BY <1>1, FS_EmptySet

LEMMA InitSInv == Init => SInv
<1> SUFFICES ASSUME Init PROVE SInv
  OBVIOUS
<1> USE DEF Init
<1>1. Room
  BY NothingReserved, LogAssumption DEF Room, LogAssumption
<1>2. WithinLimit
  BY FS_EmptySet, LogAssumption DEF WithinLimit, LogAssumption
<1>3. Alone
  BY DEF Alone, Active
<1> QED
  BY <1>1, <1>2, <1>3 DEF SInv, NoPanic

\* A step that neither begins, ends nor extends a call.
LEMMA SpaceStays ==
  ASSUME IInv, SInv, UNCHANGED <<lh, hdr, wrote, panicked>>,
         \A p \in Proc : pc'[p] = "op" <=> pc[p] = "op",
         \A p \in Proc : dirty'[p] =>
            Cardinality(wrote[p] \cup {hold'[p]}) <= OpBlocks
  PROVE  SInv'
<1>1. Reserved' = Reserved
  BY DEF Reserved, Active
<1>2. Room'
  BY <1>1, ReservedShrinks
<1>3. WithinLimit'
  BY DEF SInv, WithinLimit, InLog
<1>4. Alone'
  <2>1. Active' = Active
    BY DEF Active
  <2> QED
    BY <1>1, <2>1 DEF SInv, Alone
<1> QED
  BY <1>2, <1>3, <1>4 DEF SInv, NoPanic

LEMMA BufferSInv ==
  ASSUME IInv, SInv, NEW p \in Proc,
         \/ \E b \in Block : Bread(p, b)
         \/ \E v \in Val : Modify(p, v)
         \/ Brelse(p)
  PROVE  SInv'
<1>1. UNCHANGED <<lh, hdr, wrote, panicked, pc>>
  BY DEF Bread, Modify, Brelse, diskVars, logVars
<1>2. ASSUME NEW q \in Proc, dirty'[q]
      PROVE  Cardinality(wrote[q] \cup {hold'[q]}) <= OpBlocks
  <2>1. CASE \E b \in Block : Bread(p, b)
    <3>1. dirty[q] /\ q # p
      BY <1>2, <2>1, LogAssumption DEF Bread, IInv, Owing, LogAssumption
    <3>2. hold'[q] = hold[q]
      BY <2>1, <3>1 DEF Bread, IInv, TypeOK
    <3> QED
      BY <3>1, <3>2 DEF SInv, WithinLimit
  <2>2. CASE \E v \in Val : Modify(p, v)
    BY <1>2, <2>2 DEF Modify, IInv, TypeOK, SInv, WithinLimit
  <2>3. CASE Brelse(p)
    <3>1. dirty[q] /\ hold'[q] = hold[q]
      BY <1>2, <2>3 DEF Brelse, IInv, TypeOK
    <3> QED
      BY <3>1 DEF SInv, WithinLimit
  <2> QED
    BY <2>1, <2>2, <2>3
<1> QED
  BY <1>1, <1>2, SpaceStays

\* begin_op() admits a call if there is room for all that it and the calls
\* before it have reserved.
LEMMA BeginOpSInv ==
  ASSUME IInv, SInv, IInv', NEW p \in Proc, BeginOp(p)
  PROVE  SInv'
<1> USE DEF BeginOp, diskVars, bufVars
<1>1. WithinLimit'
  BY DEF IInv, TypeOK, SInv, WithinLimit, InLog
<1>2. Room'
  <2>1. CASE committing \/ MayExhaustLog
    <3>1. Active' = Active
      BY <2>1 DEF Active, IInv, TypeOK
    <3>2. Reserved' = Reserved
      BY <3>1 DEF Reserved
    <3> QED
      BY <3>2, ReservedShrinks
  <2>2. CASE ~committing /\ ~MayExhaustLog
    <3> DEFINE n == outstanding + 1
    <3>1. outstanding' = n /\ Len(lh) + n * MAXOPBLOCKS <= LOGSIZE
      BY <2>2, LogAssumption DEF MayExhaustLog, IInv, TypeOK, LogAssumption
    <3>2. Cardinality(Reserved') <= n * MAXOPBLOCKS /\ Cardinality(Reserved') \in Nat
      <4>1. IsFiniteSet(Active') /\ Cardinality(Active') = n
        BY <3>1 DEF IInv, Counting
      <4>2. Reserved' \in SUBSET (Active' \X (1..MAXOPBLOCKS))
        BY DEF Reserved
      <4> QED
        BY <4>1, <4>2, ReservationsBound
    <3>3. n * MAXOPBLOCKS \in Nat /\ Len(lh) \in Nat /\ LOGSIZE \in Nat
      BY LogAssumption DEF IInv, TypeOK, LogAssumption
    <3> QED
      BY <3>1, <3>2, <3>3 DEF SInv, Room
  <2> QED
    BY <2>1, <2>2
<1>3. Alone'
  <2>1. CASE committing \/ MayExhaustLog
    <3>1. Active' = Active
      BY <2>1 DEF Active, IInv, TypeOK
    <3>2. Reserved' = Reserved
      BY <3>1 DEF Reserved
    <3> QED
      BY <3>1, <3>2 DEF SInv, Alone
  <2>2. CASE ~committing /\ ~MayExhaustLog
    <3> SUFFICES ASSUME NEW q \in Proc, Active' = {q}
                 PROVE  Len(lh') <= Cardinality(wrote'[q])
      BY DEF Alone
    <3>1. Active = {}
      <4>1. p \notin Active
        BY DEF Active
      <4>2. Active' = Active \cup {p}
        BY <2>2 DEF Active, IInv, TypeOK
      <4> QED
        BY <4>1, <4>2
    <3>2. lh = <<>>
      BY <2>2, <3>1 DEF IInv, EmptyWhenIdle, Committer, Booting, TypeOK, Phases
    <3>3. Len(lh') = 0
      BY <3>2
    <3>4. IsFiniteSet(wrote'[q])
      BY <1>1 DEF WithinLimit
    <3>5. Cardinality(wrote'[q]) \in Nat
      BY <3>4, FS_CardinalityType
    <3> QED
      BY <3>3, <3>5
  <2> QED
    BY <2>1, <2>2
<1> QED
  BY <1>1, <1>2, <1>3 DEF SInv, NoPanic

\* The reserved blocks that p's call leaves unused whatever it writes.
Unused(p) == {p} \X ((Cardinality(wrote[p]) + 1)..MAXOPBLOCKS)

LEMMA UnusedReserved ==
  ASSUME ReservationCovers, SInv, NEW p \in Proc, pc[p] = "op"
  PROVE  /\ Unused(p) \subseteq Reserved
         /\ IsFiniteSet(Unused(p)) /\ Cardinality(Unused(p)) \in Nat
         /\ Cardinality(Unused(p)) >= MAXOPBLOCKS - OpBlocks
<1>1. PICK c \in Nat : c = Cardinality(wrote[p])
  BY FS_CardinalityType DEF SInv, WithinLimit
<1>2. c <= OpBlocks /\ MAXOPBLOCKS \in Nat /\ OpBlocks \in Nat /\ OpBlocks < MAXOPBLOCKS
  BY <1>1, LogAssumption DEF SInv, WithinLimit, LogAssumption, ReservationCovers
<1> DEFINE Left == (c + 1)..MAXOPBLOCKS
<1>3. Unused(p) = {p} \X Left
  BY <1>1 DEF Unused
<1>4. Unused(p) \subseteq Reserved
  BY <1>1, <1>2, <1>3 DEF Reserved, Active
<1>5. IsFiniteSet(Left) /\ Cardinality(Left) = MAXOPBLOCKS - c
  BY <1>2, FS_Interval
<1> HIDE DEF Left
<1>6. IsFiniteSet({p}) /\ Cardinality({p}) = 1
  BY FS_Singleton
<1>7. /\ IsFiniteSet({p} \X Left)
      /\ Cardinality({p} \X Left) = 1 * (MAXOPBLOCKS - c)
  BY <1>5, <1>6, FS_Product
<1> QED
  BY <1>2, <1>3, <1>4, <1>7

\* A call that is about to log a block finds room for it: two active calls leave
\* blocks unused, and so does one after another; a call on its own has at most
\* its own blocks in the transaction.
LEMMA LogHasRoom ==
  ASSUME ReservationCovers, IInv, SInv, NEW p \in Proc, pc[p] = "op"
  PROVE  Len(lh) < LOGSIZE /\ Len(lh) < LogBlocks - 1
<1>1. /\ Len(lh) \in Nat /\ LOGSIZE \in Nat /\ LogBlocks \in Nat
      /\ MAXOPBLOCKS \in Nat /\ OpBlocks \in Nat
  BY LogAssumption DEF IInv, TypeOK, LogAssumption
<1>2. IsFiniteSet(Reserved) /\ Cardinality(Reserved) \in Nat
  BY ReservedFinite
<1> DEFINE u == MAXOPBLOCKS - OpBlocks
<1>3. u \in Nat /\ u > 0
  BY <1>1 DEF ReservationCovers
<1>4. Cardinality(Unused(p)) <= Cardinality(Reserved)
  BY <1>2, UnusedReserved, FS_Subset
<1>5. u <= Cardinality(Reserved)
  BY <1>1, <1>2, <1>4, UnusedReserved
<1>6. Len(lh) < LOGSIZE
  BY <1>1, <1>2, <1>3, <1>5 DEF SInv, Room
<1>7. CASE Active = {p}
  <2>1. CASE Len(lh) + Cardinality(Reserved) <= LOGSIZE - u
    <3>1. Len(lh) <= LOGSIZE - 2 * u
      BY <1>1, <1>2, <1>5, <2>1
    <3> QED
      BY <1>1, <1>6, <3>1 DEF ReservationCovers
  <2>2. CASE Len(lh) <= Cardinality(wrote[p])
    <3>1. Cardinality(wrote[p]) \in Nat /\ Cardinality(wrote[p]) <= OpBlocks
      BY FS_CardinalityType DEF SInv, WithinLimit
    <3> QED
      BY <1>1, <1>6, <2>2, <3>1 DEF ReservationCovers
  <2> QED
    BY <1>7, <2>1, <2>2 DEF SInv, Alone
<1>8. CASE Active # {p}
  <2>1. PICK q \in Proc : q # p /\ pc[q] = "op"
    BY <1>8 DEF Active
  <2> DEFINE Both == Unused(p) \cup Unused(q)
  <2>2. Unused(p) \cap Unused(q) = {}
    BY <2>1 DEF Unused
  <2>3. Cardinality(Both) = Cardinality(Unused(p)) + Cardinality(Unused(q)) - Cardinality({})
    BY <2>1, <2>2, UnusedReserved, FS_Union
  <2>4. Both \subseteq Reserved
    BY <2>1, UnusedReserved
  <2>5. Cardinality(Both) <= Cardinality(Reserved)
    BY <1>2, <2>4, FS_Subset
  <2>6. Cardinality({}) = 0
    BY FS_EmptySet
  <2>7. /\ Cardinality(Unused(p)) \in Nat /\ Cardinality(Unused(p)) >= u
        /\ Cardinality(Unused(q)) \in Nat /\ Cardinality(Unused(q)) >= u
    BY <2>1, UnusedReserved
  <2> HIDE DEF Both
  <2>8. 2 * u <= Cardinality(Reserved)
    BY <1>1, <1>2, <2>3, <2>5, <2>6, <2>7
  <2>9. Len(lh) <= LOGSIZE - 2 * u
    BY <1>1, <1>2, <2>8 DEF SInv, Room
  <2> QED
    BY <1>1, <1>6, <2>9 DEF ReservationCovers
<1> QED
  BY <1>7, <1>8

\* So no panic() of log_write() is reached; a block that is new in the
\* transaction uses up one of the caller's.
LEMMA LogWriteSInv ==
  ASSUME ReservationCovers, IInv, SInv, NEW p \in Proc, LogWrite(p)
  PROVE  SInv'
<1> DEFINE b == hold[p]
<1> USE DEF diskVars
<1>1. pc[p] = "op" /\ b \in Block /\ p \in Active
  BY DEF IInv, TypeOK, Owing, LogWrite, Active
<1>2. /\ Len(lh) \in Nat /\ LOGSIZE \in Nat /\ OpBlocks \in Nat
      /\ MAXOPBLOCKS \in Nat /\ LogBlocks \in Nat
  BY LogAssumption DEF IInv, TypeOK, LogAssumption
<1>3. ~LogWritePanics
  <2>1. Len(lh) < LOGSIZE /\ Len(lh) < LogBlocks - 1
    BY <1>1, LogHasRoom
  <2>2. outstanding \in Nat /\ outstanding # 0
    BY <1>1, SomebodyActive DEF IInv
  <2> QED
    BY <1>2, <2>1, <2>2 DEF LogWritePanics
<1>4. UNCHANGED <<hdr, hold, pc>> /\ panicked' = LogWritePanics
      /\ wrote' = [wrote EXCEPT ![p] = @ \cup {b}]
      /\ dirty' = [dirty EXCEPT ![p] = FALSE]
  BY DEF LogWrite
<1>5. Active' = Active
  BY <1>4 DEF Active
<1>6. lh' = IF InLog(b) THEN lh ELSE Append(lh, b)
  BY <1>3 DEF LogWrite
<1>7. \A d \in Block : InLog(d) \/ d = b => InLog(d)'
  <2>1. CASE InLog(b)
    BY <2>1, <1>6 DEF InLog
  <2>2. CASE ~InLog(b)
    <3>1. Len(lh') = Len(lh) + 1 /\ lh'[Len(lh) + 1] = b /\ \A i \in 1..Len(lh) : lh'[i] = lh[i]
      BY <2>2, <1>1, <1>6 DEF IInv, TypeOK
    <3> QED
      BY <1>2, <3>1 DEF InLog
  <2> QED
    BY <2>1, <2>2
<1>8. /\ wrote'[p] = wrote[p] \cup {b}
      /\ \A q \in Proc : q # p => wrote'[q] = wrote[q] /\ dirty'[q] = dirty[q]
      /\ ~dirty'[p]
  BY <1>4 DEF IInv, TypeOK
<1>9. PICK c \in Nat : c = Cardinality(wrote[p]) /\ c <= OpBlocks
  BY FS_CardinalityType DEF SInv, WithinLimit
<1>10. IsFiniteSet(wrote'[p]) /\ Cardinality(wrote'[p]) = IF b \in wrote[p] THEN c ELSE c + 1
  <2>1. IsFiniteSet(wrote[p])
    BY DEF SInv, WithinLimit
  <2>2. /\ IsFiniteSet(wrote[p] \cup {b})
        /\ Cardinality(wrote[p] \cup {b}) = IF b \in wrote[p] THEN c ELSE c + 1
    BY <1>9, <2>1, FS_AddElement
  <2> QED
    BY <1>8, <2>2
<1>11. WithinLimit'
  <2>1. Cardinality(wrote'[p]) <= OpBlocks
    BY <1>8 DEF SInv, WithinLimit, LogWrite
  <2>2. \A q \in Proc : \A d \in wrote[q] : d \in Block /\ InLog(d)
    BY DEF SInv, WithinLimit, IInv, TypeOK
  <2>3. \A q \in Proc : \A d \in wrote'[q] : InLog(d)'
    BY <1>1, <1>7, <1>8, <2>2
  <2>4. \A q \in Proc : q # p =>
          /\ IsFiniteSet(wrote'[q]) /\ Cardinality(wrote'[q]) <= OpBlocks
          /\ dirty'[q] => Cardinality(wrote'[q] \cup {hold'[q]}) <= OpBlocks
          /\ pc'[q] # "op" => wrote'[q] = {}
    BY <1>4, <1>8 DEF SInv, WithinLimit
  <2>5. pc'[p] = "op"
    BY <1>1, <1>4
  <2> QED
    BY <1>8, <1>10, <2>1, <2>3, <2>4, <2>5 DEF WithinLimit
<1>12. Room' /\ Alone'
  <2>1. CASE InLog(b)
    <3>1. \A q \in Proc : Cardinality(wrote[q]) \in Nat /\ Cardinality(wrote'[q]) \in Nat
      BY <1>11, FS_CardinalityType DEF SInv, WithinLimit
    <3>2. \A q \in Proc : Cardinality(wrote[q]) <= Cardinality(wrote'[q])
      <4>1. Cardinality(wrote[p]) <= Cardinality(wrote'[p])
        BY <1>9, <1>10
      <4>2. \A q \in Proc : q # p => Cardinality(wrote[q]) = Cardinality(wrote'[q])
        BY <1>8
      <4> QED
        BY <3>1, <4>1, <4>2
    <3>3. Reserved' \subseteq Reserved
      BY <1>2, <1>5, <3>1, <3>2 DEF Reserved, Active
    <3>4. Cardinality(Reserved') \in Nat /\ Cardinality(Reserved') <= Cardinality(Reserved)
      BY <3>3, ReservedFinite, FS_Subset, FS_CardinalityType
    <3>5. Alone'
      <4>1. Cardinality(Reserved) \in Nat
        BY ReservedFinite
      <4> SUFFICES ASSUME NEW q \in Proc, Active' = {q}
                   PROVE  \/ Len(lh') + Cardinality(Reserved') <= LOGSIZE - (MAXOPBLOCKS - OpBlocks)
                          \/ Len(lh') <= Cardinality(wrote'[q])
        BY DEF Alone
      <4>2. Active = {q} /\ lh' = lh
        BY <1>5, <1>6, <2>1
      <4>3. \/ Len(lh) + Cardinality(Reserved) <= LOGSIZE - (MAXOPBLOCKS - OpBlocks)
            \/ Len(lh) <= Cardinality(wrote[q])
        BY <4>2 DEF SInv, Alone
      <4> QED
        BY <1>2, <3>1, <3>2, <3>4, <4>1, <4>2, <4>3
    <3> QED
      BY <2>1, <1>4, <1>6, <3>3, <3>5, ReservedShrinks
  <2>2. CASE ~InLog(b)
    <3>1. b \notin wrote[p]
      BY <2>2 DEF SInv, WithinLimit
    <3>2. Cardinality(wrote'[p]) = c + 1 /\ c + 1 <= MAXOPBLOCKS
      BY <1>2, <1>9, <1>10, <3>1 DEF ReservationCovers
    <3>3. Reserved' = Reserved \ {<<p, c + 1>>} /\ <<p, c + 1>> \in Reserved
      <4>1. <<p, c + 1>> \in Reserved
        BY <1>1, <1>2, <1>9, <3>2 DEF Reserved
      <4>2. \A q \in Active, k \in 1..MAXOPBLOCKS :
              k > Cardinality(wrote'[q]) <=> k > Cardinality(wrote[q]) /\ <<q, k>> # <<p, c + 1>>
        <5>1. \A k \in 1..MAXOPBLOCKS : k > c + 1 <=> k > c /\ k # c + 1
          BY <1>2
        <5>2. \A q \in Active : q # p => Cardinality(wrote'[q]) = Cardinality(wrote[q])
          BY <1>8 DEF Active
        <5> QED
          BY <1>9, <3>2, <5>1, <5>2
      <4> QED
        BY <1>5, <4>1, <4>2 DEF Reserved
    <3>4. IsFiniteSet(Reserved) /\ Cardinality(Reserved) \in Nat
      BY ReservedFinite
    <3>5. Cardinality(Reserved') = Cardinality(Reserved) - 1
      BY <3>3, <3>4, FS_RemoveElement
    <3>6. Len(lh') = Len(lh) + 1
      BY <2>2, <1>1, <1>6 DEF IInv, TypeOK
    <3>7. Alone'
      <4> SUFFICES ASSUME NEW q \in Proc, Active' = {q}
                   PROVE  \/ Len(lh') + Cardinality(Reserved') <= LOGSIZE - (MAXOPBLOCKS - OpBlocks)
                          \/ Len(lh') <= Cardinality(wrote'[q])
        BY DEF Alone
      <4>1. q = p /\ Active = {p}
        BY <1>1, <1>5
      <4>2. \/ Len(lh) + Cardinality(Reserved) <= LOGSIZE - (MAXOPBLOCKS - OpBlocks)
            \/ Len(lh) <= c
        BY <1>9, <4>1 DEF SInv, Alone
      <4> QED
        BY <1>2, <3>2, <3>4, <3>5, <3>6, <4>1, <4>2
    <3> QED
      BY <1>2, <1>4, <3>4, <3>5, <3>6, <3>7 DEF SInv, Room
  <2> QED
    BY <2>1, <2>2
<1> QED
  BY <1>3, <1>4, <1>11, <1>12 DEF SInv, NoPanic

\* A call that ends gives back what it left unused.
LEMMA EndOpSInv ==
  ASSUME ReservationCovers, IInv, SInv, NEW p \in Proc, EndOp(p)
  PROVE  SInv'
<1> USE DEF diskVars, bufVars
<1>1. UNCHANGED <<lh, hdr, hold, dirty>> /\ panicked' = committing
      /\ wrote' = [wrote EXCEPT ![p] = {}]
  BY DEF EndOp
<1>2. ~committing
  BY ActiveIsIdle DEF EndOp
<1>3. \A q \in Proc : pc'[q] = "op" <=> pc[q] = "op" /\ q # p
  BY DEF EndOp, WakeAll, IInv, TypeOK
<1>4. Active' = Active \ {p}
  BY <1>3 DEF Active
<1>5. wrote'[p] = {} /\ \A q \in Proc : q # p => wrote'[q] = wrote[q]
  BY <1>1 DEF IInv, TypeOK
<1>6. Room'
  <2>1. Reserved' \subseteq Reserved
    BY <1>4, <1>5 DEF Reserved, Active
  <2> QED
    BY <1>1, <2>1, ReservedShrinks
<1>7. ~dirty[p]
  <2>1. hold[p] \notin Block
    BY LogAssumption DEF LogAssumption, EndOp
  <2> QED
    BY <2>1 DEF IInv, Owing
<1>8. WithinLimit'
  <2>1. IsFiniteSet(wrote'[p]) /\ Cardinality(wrote'[p]) <= OpBlocks
    BY <1>5, FS_EmptySet, LogAssumption DEF LogAssumption
  <2>2. \A q \in Proc : q # p =>
          /\ IsFiniteSet(wrote'[q]) /\ Cardinality(wrote'[q]) <= OpBlocks
          /\ dirty'[q] => Cardinality(wrote'[q] \cup {hold'[q]}) <= OpBlocks
          /\ pc'[q] # "op" => wrote'[q] = {}
          /\ \A b \in wrote'[q] : InLog(b)'
    BY <1>1, <1>3, <1>5 DEF SInv, WithinLimit, InLog
  <2> QED
    BY <1>1, <1>5, <1>7, <2>1, <2>2 DEF WithinLimit
<1>9. Alone'
  <2>1. pc[p] = "op"
    BY DEF EndOp
  <2>2. Reserved' \cap Unused(p) = {} /\ Reserved' \subseteq Reserved
    BY <1>4, <1>5 DEF Reserved, Active, Unused
  <2>3. Reserved' \cup Unused(p) \subseteq Reserved
    BY <2>1, <2>2, UnusedReserved
  <2>4. IsFiniteSet(Reserved) /\ Cardinality(Reserved) \in Nat
    BY ReservedFinite
  <2>5. IsFiniteSet(Reserved') /\ Cardinality(Reserved') \in Nat
    BY <2>2, <2>4, FS_Subset, FS_CardinalityType
  <2>6. Cardinality(Reserved' \cup Unused(p))
          = Cardinality(Reserved') + Cardinality(Unused(p)) - Cardinality({})
    BY <2>1, <2>2, <2>5, UnusedReserved, FS_Union
  <2>7. Cardinality(Reserved' \cup Unused(p)) <= Cardinality(Reserved)
    BY <2>3, <2>4, FS_Subset
  <2>8. Cardinality({}) = 0
    BY FS_EmptySet
  <2>9. /\ Cardinality(Unused(p)) \in Nat
        /\ Cardinality(Unused(p)) >= MAXOPBLOCKS - OpBlocks
    BY <2>1, UnusedReserved
  <2>10. /\ Len(lh) \in Nat /\ LOGSIZE \in Nat /\ MAXOPBLOCKS \in Nat
         /\ OpBlocks \in Nat
    BY LogAssumption DEF IInv, TypeOK, LogAssumption
  <2>11. Len(lh) + Cardinality(Reserved) <= LOGSIZE
    BY DEF SInv, Room
  <2>12. PICK m \in Nat : m = Cardinality(Reserved' \cup Unused(p))
    BY <2>5, <2>6, <2>8, <2>9
  <2>13. Len(lh) + Cardinality(Reserved') <= LOGSIZE - (MAXOPBLOCKS - OpBlocks)
    BY <2>4, <2>5, <2>6, <2>7, <2>8, <2>9, <2>10, <2>11, <2>12
  <2> QED
    BY <1>1, <2>13 DEF Alone
<1> QED
  BY <1>1, <1>2, <1>6, <1>8, <1>9 DEF SInv, NoPanic

\* commit() and recovery run while nothing is reserved, and load no more blocks
\* than were in a transaction.
LEMMA InnerSInv ==
  ASSUME IInv, SInv,
         \/ WriteLog \/ WriteHead \/ Install \/ Clear \/ ReadHead \/ Recover \/ RClear
  PROVE  SInv'
<1>1. \A p \in Proc : pc[p] # "op" /\ pc'[p] # "op"
  BY DEF IInv, Committer, Committing, Booting, Recovering, WriteLog, WriteHead, Install,
         Clear, ReadHead, Recover, RClear, ClearLog
<1>2. UNCHANGED <<wrote, dirty, hold, panicked>>
  BY DEF WriteLog, WriteHead, Install, InstallBlock, Clear, ReadHead, Recover, RClear,
         ClearLog, bufVars
<1>3. lh' \in {lh, hdr, <<>>} /\ hdr' \in {lh, hdr, <<>>}
  BY DEF WriteLog, WriteHead, Install, InstallBlock, Clear, ReadHead, Recover, RClear,
         ClearLog, diskVars, logVars
<1>4. Cardinality(Reserved) = 0
  BY <1>1, NothingReserved
<1>5. Reserved' = {}
  BY <1>1 DEF Reserved, Active
<1>6. Cardinality(Reserved') = 0
  BY <1>5, FS_EmptySet
<1>7. Room'
  <2>1. Len(lh) \in Nat /\ Len(hdr) \in Nat /\ LOGSIZE \in Nat /\ Len(<<>>) = 0
    BY LogAssumption DEF IInv, TypeOK, LogAssumption
  <2>2. Len(lh) <= LOGSIZE /\ Len(hdr) <= LOGSIZE
    BY <1>4, <2>1 DEF SInv, Room
  <2>3. Len(lh') \in Nat /\ Len(lh') <= LOGSIZE /\ Len(hdr') <= LOGSIZE
    BY <1>3, <2>1, <2>2
  <2> QED
    BY <1>6, <2>3 DEF Room
<1>8. WithinLimit'
  BY <1>1, <1>2 DEF SInv, WithinLimit
<1>9. Alone'
  BY <1>1 DEF Alone, Active
<1> QED
  BY <1>2, <1>7, <1>8, <1>9 DEF SInv, NoPanic

LEMMA CrashSInv ==
  ASSUME IInv, SInv, Crash
  PROVE  SInv'
<1> USE DEF Crash, diskVars
<1>1. Reserved' = {}
  BY DEF Reserved, Active
<1>2. Room'
  BY <1>1, FS_EmptySet, LogAssumption DEF SInv, Room, LogAssumption
<1>3. WithinLimit'
  BY FS_EmptySet, LogAssumption DEF WithinLimit, LogAssumption
<1>4. Alone'
  BY DEF Alone, Active
<1> QED
  BY <1>2, <1>3, <1>4 DEF SInv, NoPanic

LEMMA NextSInv ==
  ASSUME ReservationCovers, IInv, IInv', SInv, [Next]_vars
  PROVE  SInv'
<1>1. ASSUME NEW p \in Proc,
             \/ \E b \in Block : Bread(p, b)
             \/ \E v \in Val : Modify(p, v)
             \/ Brelse(p)
      PROVE  SInv'
  BY <1>1, BufferSInv
<1>2. ASSUME NEW p \in Proc, BeginOp(p) \/ LogWrite(p) \/ EndOp(p) PROVE SInv'
  BY <1>2, BeginOpSInv, LogWriteSInv, EndOpSInv
<1>3. ASSUME NEW p \in Proc, EndCommit(p) PROVE SInv'
  <2>1. UNCHANGED <<lh, hdr, wrote, panicked, dirty, hold>>
    BY <1>3 DEF EndCommit, diskVars, bufVars
  <2>2. \A q \in Proc : pc'[q] = "op" <=> pc[q] = "op"
    BY <1>3 DEF EndCommit, WakeAll, IInv, TypeOK
  <2> QED
    BY <2>1, <2>2, SpaceStays DEF SInv, WithinLimit
<1>4. CASE WriteLog \/ WriteHead \/ Install \/ Clear \/ ReadHead \/ Recover \/ RClear
  BY <1>4, InnerSInv
<1>5. CASE Crash
  BY <1>5, CrashSInv
<1>6. ASSUME NEW b \in Block, Recycle(b) PROVE SInv'
  <2>1. UNCHANGED <<lh, hdr, wrote, panicked, dirty, hold, pc>>
    BY <1>6 DEF Recycle, diskVars, logVars
  <2> QED
    BY <2>1, SpaceStays DEF SInv, WithinLimit
<1>7. CASE UNCHANGED vars
  BY <1>7, SpaceStays DEF vars, SInv, WithinLimit
<1> QED
  BY <1>1, <1>2, <1>3, <1>4, <1>5, <1>6, <1>7 DEF Next

\* No panic() of log.c is reached, whatever the number of processes: the
\* reservation leaves room for every block that an admitted call logs (log.c:133,
\* 153, 220, 222).
THEOREM NeverPanics ==
  ASSUME ReservationCovers
  PROVE  Spec => []NoPanic
<1>1. IInv /\ IInv' /\ SInv /\ [Next]_vars => SInv'
  BY NextSInv
<1>2. SInv => NoPanic
  BY DEF SInv
<1> QED
  BY <1>1, <1>2, InitSInv, Invariance, PTL DEF Spec

-----------------------------------------------------------------------------
(***************************************************************************)
(* Log implements TxnDisk.  IInv says who may do what when; CInv adds what *)
(* the blocks hold: which buffers may differ from the disk, and which part *)
(* of the log has been copied from the cache and to the home blocks.       *)
(***************************************************************************)

\* A buffer that somebody has locked or pinned is not recycled.
InUseCached ==
  /\ \A p \in Proc : hold[p] # NoBlock => cache[hold[p]] # NotCached
  /\ \A b \in Block : pins[b] # 0 => cache[b] # NotCached

\* A buffer differs from its home block only while it is in the transaction or
\* its holder has still to call log_write().  (The log_write() that panics
\* forgets a buffer, and nothing but a reboot follows.)
Clean ==
  ~panicked => \A b \in Block :
    \/ cache[b] \in {NotCached, home[b]}
    \/ pins[b] # 0
    \/ \E p \in Proc : dirty[p] /\ hold[p] = b

\* write_log() has copied the transaction as far as it has come, and nothing
\* changes it then.
Copied ==
  /\ phase = "write_log" => \A i \in 1..tail : logdata[i] = Contents(lh[i])
  /\ phase \in {"write_head", "install"} =>
       \A i \in 1..Len(lh) : logdata[i] = Contents(lh[i])

\* So has install_trans(), to the home blocks.
Installed ==
  /\ phase \in {"install", "recover"} =>
       \A i \in 1..tail : home[lh[i]] = logdata[i]
  /\ phase \in {"clear", "rclear"} =>
       \A i \in 1..Len(lh) : home[lh[i]] = logdata[i]

\* The header on disk is the transaction from write_head() on, and empty unless
\* something is to be installed.
HeaderWritten ==
  /\ phase \in {"install", "clear", "recover", "rclear"} => hdr = lh
  /\ phase \in {"idle", "write_log", "write_head", "end"} => hdr = <<>>

CInv ==
  /\ InUseCached
  /\ Clean
  /\ Copied
  /\ Installed
  /\ HeaderWritten

-----------------------------------------------------------------------------
(***************************************************************************)
(* CInv is preserved by each action.                                       *)
(***************************************************************************)

LEMMA InitCInv == Init => CInv
<1> SUFFICES ASSUME Init PROVE CInv
  OBVIOUS
<1> USE DEF Init
<1>1. InUseCached /\ Clean
  BY DEF InUseCached, Clean
<1>2. Copied /\ Installed /\ HeaderWritten
  BY DEF Copied, Installed, HeaderWritten
<1> QED
  BY <1>1, <1>2 DEF CInv

\* A step that changes neither the disk nor the log nor what the buffers of the
\* transaction contain.
LEMMA DataStays ==
  ASSUME IInv, CInv, UNCHANGED <<home, logdata, hdr, lh, phase, tail>>,
         \A b \in Block : Contents(b)' = Contents(b)
  PROVE  Copied' /\ Installed' /\ HeaderWritten'
<1>1. \A i \in 1..Len(lh) : lh[i] \in Block
  BY DEF IInv, TypeOK
<1>2. phase = "write_log" => tail <= Len(lh)
  BY DEF IInv, TypeOK, InLoop, Looping
<1>3. tail \in Nat /\ Len(lh) \in Nat
  BY DEF IInv, TypeOK
<1>4. \A i \in 1..Len(lh) : Contents(lh[i])' = Contents(lh[i])
  BY <1>1
<1>5. Copied'
  BY <1>2, <1>3, <1>4 DEF CInv, Copied
<1> QED
  BY <1>5 DEF CInv, Installed, HeaderWritten

LEMMA BreadCInv ==
  ASSUME IInv, CInv, NEW p \in Proc, NEW b \in Block, Bread(p, b)
  PROVE  CInv'
<1> USE DEF Bread, diskVars, logVars
<1>1. Contents(b) \in Val /\ Contents(b) # NotCached
  BY LogAssumption DEF IInv, TypeOK, Contents, LogAssumption
<1>2. \A c \in Block : Contents(c)' = Contents(c)
  BY <1>1 DEF IInv, TypeOK, Contents
<1>3. Copied' /\ Installed' /\ HeaderWritten'
  BY <1>2, DataStays
<1>4. InUseCached'
  BY <1>1 DEF IInv, TypeOK, CInv, InUseCached
<1>5. Clean'
  <2>1. \A q \in Proc : dirty[q] => q # p
    BY LogAssumption DEF IInv, Owing, LogAssumption
  <2>2. \A c \in Block : cache[c] \in {NotCached, home[c]} => cache'[c] \in {NotCached, home[c]}
    BY DEF IInv, TypeOK, Contents
  <2>3. \A c \in Block, q \in Proc : dirty[q] /\ hold[q] = c => dirty'[q] /\ hold'[q] = c
    BY <2>1 DEF IInv, TypeOK
  <2> QED
    BY <2>2, <2>3 DEF CInv, Clean
<1> QED
  BY <1>3, <1>4, <1>5 DEF CInv

LEMMA ModifyCInv ==
  ASSUME IInv, CInv, NEW p \in Proc, NEW v \in Val, Modify(p, v)
  PROVE  CInv'
<1> USE DEF Modify, diskVars, logVars
<1>1. phase = "idle" /\ hold[p] \in Block /\ v # NotCached
  BY ActiveIsIdle, LogAssumption DEF IInv, TypeOK, LogAssumption
<1>2. Copied' /\ Installed' /\ HeaderWritten'
  BY <1>1 DEF CInv, Copied, Installed, HeaderWritten
<1>3. InUseCached'
  BY <1>1 DEF IInv, TypeOK, CInv, InUseCached
<1>4. Clean'
  <2>1. \A c \in Block : c # hold[p] => cache'[c] = cache[c]
    BY DEF IInv, TypeOK
  <2>2. dirty'[p] /\ hold'[p] = hold[p]
    BY DEF IInv, TypeOK
  <2>3. \A q \in Proc : dirty[q] => dirty'[q]
    BY DEF IInv, TypeOK
  <2> QED
    BY <2>1, <2>2, <2>3 DEF CInv, Clean
<1> QED
  BY <1>2, <1>3, <1>4 DEF CInv

LEMMA BrelseCInv ==
  ASSUME IInv, CInv, NEW p \in Proc, Brelse(p)
  PROVE  CInv'
<1> USE DEF Brelse, diskVars, logVars
<1>1. Copied' /\ Installed' /\ HeaderWritten'
  BY DataStays DEF Contents
<1>2. InUseCached'
  BY DEF IInv, TypeOK, CInv, InUseCached
<1>3. Clean'
  <2>1. \A q \in Proc : dirty[q] => hold'[q] = hold[q]
    BY DEF IInv, TypeOK
  <2> QED
    BY <2>1 DEF CInv, Clean
<1> QED
  BY <1>1, <1>2, <1>3 DEF CInv

\* A buffer that is recycled has the contents of its home block.
LEMMA RecycledIsClean ==
  ASSUME IInv, CInv, ~panicked, NEW b \in Block, Recycle(b)
  PROVE  cache[b] = home[b]
<1>1. \A p \in Proc : hold[p] # b
  BY DEF Recycle, Unlocked
<1> QED
  BY <1>1 DEF Recycle, CInv, Clean

LEMMA RecycleCInv ==
  ASSUME IInv, CInv, ~panicked, NEW b \in Block, Recycle(b)
  PROVE  CInv'
<1> USE DEF Recycle, diskVars, logVars
<1>1. cache[b] = home[b]
  BY RecycledIsClean
<1>2. \A c \in Block : Contents(c)' = Contents(c)
  BY <1>1 DEF IInv, TypeOK, Contents
<1>3. Copied' /\ Installed' /\ HeaderWritten'
  BY <1>2, DataStays
<1>4. InUseCached'
  BY DEF IInv, TypeOK, CInv, InUseCached, Unlocked
<1>5. Clean'
  BY DEF IInv, TypeOK, CInv, Clean
<1> QED
  BY <1>3, <1>4, <1>5 DEF CInv

LEMMA BeginOpCInv ==
  ASSUME IInv, CInv, NEW p \in Proc, BeginOp(p)
  PROVE  CInv'
<1> USE DEF BeginOp, diskVars, bufVars
<1>1. Copied' /\ Installed' /\ HeaderWritten'
  BY DataStays DEF Contents
<1>2. InUseCached' /\ Clean'
  BY DEF CInv, InUseCached, Clean
<1> QED
  BY <1>1, <1>2 DEF CInv

\* log_write() pins the buffer that was dirty, unless it is pinned already.
LEMMA LogWriteCInv ==
  ASSUME IInv, CInv, ~panicked, NEW p \in Proc, LogWrite(p)
  PROVE  CInv'
<1> DEFINE b == hold[p]
<1> USE DEF diskVars
<1>1. pc[p] = "op" /\ b \in Block
  BY DEF IInv, TypeOK, Owing, LogWrite
<1>2. phase = "idle"
  BY <1>1, ActiveIsIdle
<1>3. UNCHANGED <<home, logdata, hdr, cache, hold, phase>>
  BY DEF LogWrite
<1>4. Copied' /\ Installed' /\ HeaderWritten'
  BY <1>2, <1>3 DEF CInv, Copied, Installed, HeaderWritten
<1>5. \A c \in Block : c # b => pins'[c] = pins[c]
  BY <1>1 DEF LogWrite, IInv, TypeOK
<1>6. InUseCached'
  BY <1>1, <1>3, <1>5, LogAssumption DEF CInv, InUseCached, LogAssumption
<1>7. ~panicked' => pins'[b] # 0
  <2>1. CASE LogWritePanics
    BY <2>1 DEF LogWrite
  <2>2. CASE ~LogWritePanics /\ InLog(b)
    <3>1. b \in ToInstall
      BY <2>2, <1>2 DEF ToInstall, InLog
    <3>2. pins[b] = 1
      BY <3>1, <1>1, <1>2 DEF IInv, PinnedExactly, Recovering
    <3> QED
      BY <2>2, <3>2 DEF LogWrite
  <2>3. CASE ~LogWritePanics /\ ~InLog(b)
    <3>1. pins' = [pins EXCEPT ![b] = @ + 1]
      BY <2>3 DEF LogWrite
    <3> QED
      BY <3>1, <1>1 DEF IInv, TypeOK
  <2> QED
    BY <2>1, <2>2, <2>3
<1>8. Clean'
  <2>1. \A q \in Proc : dirty[q] /\ q # p => dirty'[q]
    BY DEF LogWrite, IInv, TypeOK
  <2> QED
    BY <1>3, <1>5, <1>7, <2>1 DEF CInv, Clean
<1> QED
  BY <1>4, <1>6, <1>8 DEF CInv

LEMMA EndOpCInv ==
  ASSUME IInv, CInv, ~panicked, NEW p \in Proc, EndOp(p)
  PROVE  CInv'
<1> USE DEF diskVars, bufVars
<1>1. phase = "idle" /\ hdr = <<>>
  BY ActiveIsIdle DEF EndOp, CInv, HeaderWritten
<1>2. UNCHANGED <<home, logdata, hdr, cache, pins, hold, dirty, lh>>
  BY DEF EndOp
<1>3. phase' \in {"idle", "write_log", "end"} /\ (phase' = "write_log" => tail' = 0)
  BY <1>1 DEF EndOp
<1>4. Copied' /\ Installed' /\ HeaderWritten'
  BY <1>1, <1>2, <1>3 DEF Copied, Installed, HeaderWritten
<1>5. InUseCached' /\ Clean'
  BY <1>2 DEF CInv, InUseCached, Clean
<1> QED
  BY <1>4, <1>5 DEF CInv

\* A block that commit() or recovery works on is in the transaction; in commit()
\* it is pinned, so it has a buffer.
LEMMA LoggedIsCached ==
  ASSUME IInv, CInv, phase \in {"write_log", "write_head"}
  PROVE  \A i \in 1..Len(lh) : lh[i] \in Block /\ cache[lh[i]] # NotCached
<1> SUFFICES ASSUME NEW i \in 1..Len(lh)
             PROVE  lh[i] \in Block /\ cache[lh[i]] # NotCached
  OBVIOUS
<1>1. lh[i] \in Block
  BY DEF IInv, TypeOK
<1>2. lh[i] \in ToInstall
  BY DEF ToInstall
<1>3. pins[lh[i]] = 1
  BY <1>1, <1>2 DEF IInv, PinnedExactly, Recovering
<1> QED
  BY <1>1, <1>3 DEF CInv, InUseCached

\* write_log() leaves the buffers alone.
LEMMA WriteLogKeepsCache ==
  ASSUME IInv, CInv, WriteLog
  PROVE  cache' = cache
<1>1. phase = "write_log" /\ tail + 1 \in 1..Len(lh)
  BY LoopIndex DEF WriteLog, Looping
<1>2. lh[tail + 1] \in Block /\ cache[lh[tail + 1]] # NotCached
  BY <1>1, LoggedIsCached
<1> QED
  BY <1>2 DEF WriteLog, Contents, IInv, TypeOK

LEMMA WriteLogCInv ==
  ASSUME IInv, CInv, WriteLog
  PROVE  CInv'
<1>1. phase = "write_log" /\ UNCHANGED <<home, hdr, pins, hold, dirty, lh, panicked>>
  BY DEF WriteLog, logVars
<1>2. cache' = cache
  BY WriteLogKeepsCache
<1>3. InUseCached' /\ Clean'
  BY <1>1, <1>2 DEF CInv, InUseCached, Clean
<1>4. /\ logdata' = [logdata EXCEPT ![tail + 1] = Contents(lh[tail + 1])]
      /\ tail' = IF tail + 1 < Len(lh) THEN tail + 1 ELSE 0
      /\ phase' = IF tail + 1 < Len(lh) THEN phase ELSE "write_head"
  BY DEF WriteLog, Turn
<1>5. /\ tail + 1 \in 1..Len(lh) /\ tail + 1 \in 1..LogSlots
      /\ tail \in Nat /\ Len(lh) \in Nat /\ LogSlots \in Nat
  BY <1>1, LoopIndex, LogAssumption
     DEF Looping, IInv, TypeOK, LogSlots, LogAssumption
<1>6. \A i \in 1..(tail + 1) : logdata'[i] = Contents(lh[i])
  <2>1. \A i \in 1..tail : logdata[i] = Contents(lh[i])
    BY <1>1 DEF CInv, Copied
  <2>2. \A i \in 1..tail : logdata'[i] = logdata[i]
    BY <1>4, <1>5 DEF IInv, TypeOK
  <2>3. logdata'[tail + 1] = Contents(lh[tail + 1])
    BY <1>4, <1>5 DEF IInv, TypeOK
  <2> QED
    BY <1>5, <2>1, <2>2, <2>3
<1>7. \A i \in 1..Len(lh) : Contents(lh[i])' = Contents(lh[i])
  BY <1>1, <1>2 DEF Contents
<1>8. Copied'
  <2>1. CASE tail + 1 < Len(lh)
    BY <2>1, <1>1, <1>4, <1>5, <1>6, <1>7 DEF Copied
  <2>2. CASE ~(tail + 1 < Len(lh))
    <3>1. tail + 1 = Len(lh) /\ phase' = "write_head"
      BY <2>2, <1>4, <1>5
    <3> QED
      BY <3>1, <1>1, <1>6, <1>7 DEF Copied
  <2> QED
    BY <2>1, <2>2
<1>9. Installed' /\ HeaderWritten'
  BY <1>1, <1>4 DEF CInv, Installed, HeaderWritten
<1> QED
  BY <1>3, <1>8, <1>9 DEF CInv

LEMMA WriteHeadCInv ==
  ASSUME IInv, CInv, WriteHead
  PROVE  CInv'
<1> USE DEF WriteHead, bufVars, logVars
<1>1. tail = 0
  BY DEF IInv, InLoop, Looping
<1>2. Copied' /\ Installed' /\ HeaderWritten'
  BY <1>1 DEF CInv, Copied, Installed, HeaderWritten, Contents
<1>3. InUseCached' /\ Clean'
  BY DEF CInv, InUseCached, Clean
<1> QED
  BY <1>2, <1>3 DEF CInv

\* Both forms of install_trans(): home block and buffer get the contents that
\* the log has; the blocks done before stay.
LEMMA InstallBlockCInv ==
  ASSUME IInv, CInv, phase \in {"install", "recover"}, InstallBlock, lh' = lh,
         NEW next, Turn(next), next \in {"clear", "rclear"},
         next = "clear" <=> phase = "install",
         UNCHANGED panicked,
         \A b \in Block : b # lh[tail + 1] => pins'[b] = pins[b]
  PROVE  CInv'
<1> DEFINE b == lh[tail + 1]
<1>1. /\ tail + 1 \in 1..Len(lh) /\ tail + 1 \in 1..LogSlots /\ b \in Block
      /\ tail \in Nat /\ Len(lh) \in Nat
  BY LoopIndex DEF Looping, IInv, TypeOK
<1>2. logdata[tail + 1] \in Val /\ logdata[tail + 1] # NotCached
  BY <1>1, LogAssumption DEF IInv, TypeOK, LogAssumption
<1>3. /\ home' = [home EXCEPT ![b] = logdata[tail + 1]]
      /\ cache' = [cache EXCEPT ![b] = logdata[tail + 1]]
      /\ UNCHANGED <<logdata, hdr, hold, dirty>>
  BY DEF InstallBlock
<1>4. /\ home'[b] = logdata[tail + 1] /\ cache'[b] = logdata[tail + 1]
      /\ \A c \in Block : c # b => home'[c] = home[c] /\ cache'[c] = cache[c]
  BY <1>1, <1>3 DEF IInv, TypeOK
<1>5. InUseCached'
  BY <1>2, <1>3, <1>4, LogAssumption DEF IInv, TypeOK, CInv, InUseCached, LogAssumption
<1>6. Clean'
  BY <1>3, <1>4 DEF CInv, Clean
<1>7. /\ tail' = IF tail + 1 < Len(lh) THEN tail + 1 ELSE 0
      /\ phase' = IF tail + 1 < Len(lh) THEN phase ELSE next
  BY DEF Turn
<1>8. \A i \in 1..Len(lh) : lh[i] \in Block /\ (lh[i] = b => i = tail + 1)
  BY <1>1 DEF IInv, TypeOK, Headers, FitsLog
<1>9. \A i \in 1..(tail + 1) : home'[lh[i]] = logdata[i]
  <2>1. \A i \in 1..tail : home[lh[i]] = logdata[i]
    BY DEF CInv, Installed
  <2> QED
    BY <2>1, <1>1, <1>4, <1>8
<1>10. Installed'
  <2>1. CASE tail + 1 < Len(lh)
    BY <2>1, <1>3, <1>7, <1>9 DEF Installed
  <2>2. CASE ~(tail + 1 < Len(lh))
    <3>1. tail + 1 = Len(lh) /\ phase' = next
      BY <2>2, <1>1, <1>7
    <3> QED
      BY <3>1, <1>3, <1>9 DEF Installed
  <2> QED
    BY <2>1, <2>2
<1>11. Copied'
  <2>1. CASE phase' = "install"
    <3>1. phase = "install"
      BY <2>1, <1>7
    <3>2. \A i \in 1..Len(lh) : logdata[i] = Contents(lh[i])
      BY <3>1 DEF CInv, Copied
    <3>3. \A i \in 1..Len(lh) : lh[i] = b => Contents(lh[i])' = logdata[i]
      BY <1>2, <1>4, <1>8 DEF Contents
    <3>4. \A i \in 1..Len(lh) : lh[i] # b => Contents(lh[i])' = Contents(lh[i])
      BY <1>4, <1>8 DEF Contents
    <3>5. \A i \in 1..Len(lh) : logdata[i] = Contents(lh[i])'
      BY <3>2, <3>3, <3>4, <1>8
    <3> QED
      BY <2>1, <3>5, <1>3 DEF Copied
  <2>2. CASE phase' # "install"
    BY <2>2, <1>7 DEF Copied
  <2> QED
    BY <2>1, <2>2
<1>12. HeaderWritten'
  BY <1>3, <1>7 DEF CInv, HeaderWritten
<1> QED
  BY <1>5, <1>6, <1>10, <1>11, <1>12 DEF CInv

LEMMA InstallCInv ==
  ASSUME IInv, CInv, Install
  PROVE  CInv'
<1>1. lh[tail + 1] \in Block
  BY LoopIndex DEF Install, Looping
<1>2. \A b \in Block : b # lh[tail + 1] => pins'[b] = pins[b]
  BY <1>1 DEF Install, IInv, TypeOK
<1> QED
  BY <1>2, InstallBlockCInv DEF Install, logVars

LEMMA RecoverCInv ==
  ASSUME IInv, CInv, Recover
  PROVE  CInv'
  BY InstallBlockCInv DEF Recover, logVars

LEMMA ClearCInv ==
  ASSUME IInv, CInv, Clear \/ RClear
  PROVE  CInv'
<1> USE DEF Clear, RClear, ClearLog, bufVars
<1>1. Copied' /\ Installed' /\ HeaderWritten'
  BY DEF Copied, Installed, HeaderWritten
<1>2. InUseCached' /\ Clean'
  BY DEF CInv, InUseCached, Clean
<1> QED
  BY <1>1, <1>2 DEF CInv

LEMMA EndCommitCInv ==
  ASSUME IInv, CInv, NEW p \in Proc, EndCommit(p)
  PROVE  CInv'
<1> USE DEF EndCommit, diskVars, bufVars
<1>1. Copied' /\ Installed' /\ HeaderWritten'
  BY DEF CInv, Copied, Installed, HeaderWritten
<1>2. InUseCached' /\ Clean'
  BY DEF CInv, InUseCached, Clean
<1> QED
  BY <1>1, <1>2 DEF CInv

LEMMA ReadHeadCInv ==
  ASSUME IInv, CInv, ReadHead
  PROVE  CInv'
<1> USE DEF ReadHead, diskVars, bufVars
<1>1. tail = 0
  BY DEF IInv, InLoop, Looping
<1>2. Len(hdr) = 0 <=> hdr = <<>>
  BY DEF IInv, TypeOK
<1>3. Copied' /\ Installed' /\ HeaderWritten'
  BY <1>1, <1>2 DEF Copied, Installed, HeaderWritten
<1>4. InUseCached' /\ Clean'
  BY DEF CInv, InUseCached, Clean
<1> QED
  BY <1>3, <1>4 DEF CInv

LEMMA CrashCInv ==
  ASSUME Crash
  PROVE  CInv'
<1> USE DEF Crash
<1>1. Copied' /\ Installed' /\ HeaderWritten'
  BY DEF Copied, Installed, HeaderWritten
<1>2. InUseCached' /\ Clean'
  BY DEF InUseCached, Clean
<1> QED
  BY <1>1, <1>2 DEF CInv

LEMMA NextCInv == IInv /\ CInv /\ [Next]_vars => CInv'
<1> SUFFICES ASSUME IInv, CInv, [Next]_vars PROVE CInv'
  OBVIOUS
<1>1. ASSUME ~panicked, NEW p \in Proc,
             \/ \E b \in Block : Bread(p, b)
             \/ \E v \in Val : Modify(p, v)
             \/ Brelse(p) \/ BeginOp(p) \/ LogWrite(p) \/ EndOp(p) \/ EndCommit(p)
      PROVE  CInv'
  BY <1>1, BreadCInv, ModifyCInv, BrelseCInv, BeginOpCInv, LogWriteCInv, EndOpCInv,
     EndCommitCInv
<1>2. ASSUME ~panicked, NEW b \in Block, Recycle(b) PROVE CInv'
  BY <1>2, RecycleCInv
<1>3. CASE WriteLog \/ WriteHead \/ Install \/ Clear
  BY <1>3, WriteLogCInv, WriteHeadCInv, InstallCInv, ClearCInv
<1>4. CASE ReadHead \/ Recover \/ RClear \/ Crash
  BY <1>4, ReadHeadCInv, RecoverCInv, ClearCInv, CrashCInv
<1>5. CASE UNCHANGED vars
  <2>1. Copied' /\ Installed' /\ HeaderWritten'
    BY <1>5, DataStays DEF vars, Contents
  <2>2. InUseCached' /\ Clean'
    BY <1>5 DEF vars, CInv, InUseCached, Clean
  <2> QED
    BY <2>1, <2>2 DEF CInv
<1> QED
  BY <1>1, <1>2, <1>3, <1>4, <1>5 DEF Next

-----------------------------------------------------------------------------
(***************************************************************************)
(* Every step is a step of TxnDisk, or leaves its variables alone.         *)
(***************************************************************************)

\* What a replay of the log gives depends on the log, and on the home blocks
\* that the header does not name.
LEMMA DurableStays ==
  ASSUME UNCHANGED <<hdr, logdata>>,
         \A b \in Block : HdrSlots(b) = {} => home'[b] = home[b]
  PROVE  Durable' = Durable
  BY DEF Durable, HdrSlots

\* With an empty header it gives the home blocks.
LEMMA DurableIsHome ==
  ASSUME IInv, hdr = <<>> \/ \A i \in 1..Len(hdr) : home[hdr[i]] = logdata[i]
  PROVE  Durable = home
<1>1. \A b \in Block : HdrSlots(b) # {} =>
        logdata[CHOOSE i \in HdrSlots(b) : TRUE] = home[b]
  <2> SUFFICES ASSUME NEW b \in Block, HdrSlots(b) # {}
               PROVE  logdata[CHOOSE i \in HdrSlots(b) : TRUE] = home[b]
    OBVIOUS
  <2>1. PICK i \in 1..Len(hdr) : i = CHOOSE j \in HdrSlots(b) : TRUE
    BY DEF HdrSlots
  <2>2. i \in HdrSlots(b)
    BY <2>1
  <2>3. hdr[i] = b /\ hdr # <<>>
    BY <2>2 DEF HdrSlots
  <2> QED
    BY <2>1, <2>3
<1> QED
  BY <1>1 DEF Durable, IInv, TypeOK

\* Calls see the buffers, or the home blocks that have none.
LEMMA VisibleStays ==
  ASSUME phase \notin Recovering, phase' \notin Recovering,
         \A b \in Block : Contents(b)' = Contents(b)
  PROVE  Visible' = Visible
  BY DEF Visible

LEMMA BreadRefines ==
  ASSUME IInv, NEW p \in Proc, NEW b \in Block, Bread(p, b)
  PROVE  UNCHANGED D!vars
<1> USE DEF Bread, diskVars
<1>1. \A c \in Block : Contents(c)' = Contents(c)
  BY LogAssumption DEF IInv, TypeOK, Contents, LogAssumption
<1>2. Durable' = Durable /\ Visible' = Visible
  BY <1>1, DurableStays, VisibleStays
<1> QED
  BY <1>2 DEF D!vars, Active

LEMMA ModifyRefines ==
  ASSUME IInv, NEW p \in Proc, NEW v \in Val, Modify(p, v)
  PROVE  D!Write(p, hold[p], v) /\ hold[p] \in Block
<1> USE DEF Modify, diskVars
<1>1. phase = "idle" /\ hold[p] \in Block /\ v # NotCached
  BY ActiveIsIdle, LogAssumption DEF IInv, TypeOK, LogAssumption
<1>2. Durable' = Durable /\ Active' = Active /\ p \in Active
  BY DurableStays DEF Active
<1>3. \A c \in Block : Contents(c)' = IF c = hold[p] THEN v ELSE Contents(c)
  BY <1>1 DEF IInv, TypeOK, Contents
<1>4. Visible' = [Visible EXCEPT ![hold[p]] = v]
  BY <1>1, <1>3 DEF Visible, Recovering
<1> QED
  BY <1>1, <1>2, <1>4 DEF D!Write

LEMMA BrelseRefines ==
  ASSUME NEW p \in Proc, Brelse(p)
  PROVE  UNCHANGED D!vars
<1> USE DEF Brelse, diskVars
<1>1. Durable' = Durable
  BY DurableStays
<1> QED
  BY <1>1 DEF D!vars, Visible, Contents, Active

LEMMA RecycleRefines ==
  ASSUME IInv, CInv, ~panicked, NEW b \in Block, Recycle(b)
  PROVE  UNCHANGED D!vars
<1> USE DEF Recycle, diskVars
<1>1. Durable' = Durable /\ cache[b] = home[b]
  BY DurableStays, RecycledIsClean
<1>2. \A c \in Block : Contents(c)' = Contents(c)
  BY <1>1 DEF IInv, TypeOK, Contents
<1> QED
  BY <1>1, <1>2 DEF D!vars, Visible, Active

LEMMA BeginOpRefines ==
  ASSUME IInv, NEW p \in Proc, BeginOp(p)
  PROVE  D!Begin(p) \/ UNCHANGED D!vars
<1> USE DEF BeginOp, diskVars, bufVars
<1>1. Durable' = Durable
  BY DurableStays
<1>2. Visible' = Visible
  BY <1>1 DEF Visible, Contents
<1>3. p \notin Active /\ (Active' = Active \/ Active' = Active \cup {p})
  BY DEF Active, IInv, TypeOK
<1> QED
  BY <1>1, <1>2, <1>3 DEF D!Begin, D!vars

LEMMA LogWriteRefines ==
  ASSUME NEW p \in Proc, LogWrite(p)
  PROVE  UNCHANGED D!vars
<1> USE DEF LogWrite, diskVars
<1>1. Durable' = Durable
  BY DurableStays
<1> QED
  BY <1>1 DEF D!vars, Visible, Contents, Active

LEMMA EndOpRefines ==
  ASSUME IInv, NEW p \in Proc, EndOp(p)
  PROVE  D!End(p)
<1> USE DEF diskVars, bufVars
<1>1. phase = "idle" /\ phase' \in {"idle", "end", "write_log"}
  BY ActiveIsIdle DEF EndOp
<1>2. UNCHANGED <<home, logdata, hdr, cache>>
  BY DEF EndOp
<1>3. Durable' = Durable /\ Visible' = Visible
  BY <1>1, <1>2, DurableStays, VisibleStays DEF Contents, Recovering
<1>4. p \in Active
  BY DEF EndOp, Active
<1>5. \A q \in Proc : pc'[q] = "op" <=> pc[q] = "op" /\ q # p
  BY DEF EndOp, WakeAll, IInv, TypeOK
<1>6. Active' = Active \ {p}
  BY <1>5 DEF Active
<1> QED
  BY <1>3, <1>4, <1>6 DEF D!End

LEMMA WriteLogRefines ==
  ASSUME IInv, CInv, WriteLog
  PROVE  UNCHANGED D!vars
<1>1. phase = "write_log" /\ phase' \in {"write_log", "write_head"} /\ hdr = <<>>
  BY DEF WriteLog, Turn, CInv, HeaderWritten
<1>2. UNCHANGED <<home, hdr, cache, pc>>
  BY WriteLogKeepsCache DEF WriteLog
<1>3. \A b \in Block : HdrSlots(b) = {} /\ HdrSlots(b)' = {}
  BY <1>1, <1>2 DEF HdrSlots
<1>4. Durable' = Durable
  BY <1>2, <1>3 DEF Durable
<1>5. Visible' = Visible
  BY <1>1, <1>2, VisibleStays DEF Contents, Recovering
<1> QED
  BY <1>2, <1>4, <1>5 DEF D!vars, Active

\* In commit() the buffers outside the transaction are clean.
LEMMA OthersAreClean ==
  ASSUME IInv, CInv, ~panicked, committing, NEW b \in Block, b \notin ToInstall
  PROVE  Contents(b) = home[b]
<1>1. pins[b] = 0 /\ \A p \in Proc : ~dirty[p]
  BY DEF IInv, PinnedExactly, Committer, Owing
<1> QED
  BY <1>1 DEF CInv, Clean, Contents

\* write_head() is the commit: the log holds what the transaction's buffers do,
\* and every other buffer is as on disk.
LEMMA WriteHeadRefines ==
  ASSUME IInv, CInv, ~panicked, WriteHead
  PROVE  D!Commit
<1> USE DEF WriteHead, bufVars, logVars
<1>1. committing /\ Active = {}
  BY DEF IInv, Committer, Committing, Active
<1>2. UNCHANGED <<home, logdata, cache, pc, lh>> /\ hdr' = lh
  OBVIOUS
<1>3. \A i \in 1..Len(lh) : logdata[i] = Contents(lh[i])
  BY DEF CInv, Copied
<1>4. ASSUME NEW b \in Block PROVE Durable'[b] = Contents(b)
  <2>1. Durable'[b] = IF HdrSlots(b)' = {} THEN home[b]
                      ELSE logdata[CHOOSE i \in HdrSlots(b)' : TRUE]
    BY <1>2 DEF Durable
  <2>2. HdrSlots(b)' = {i \in 1..Len(lh) : lh[i] = b}
    BY <1>2 DEF HdrSlots
  <2>3. CASE HdrSlots(b)' = {}
    <3>1. b \notin ToInstall
      BY <2>2, <2>3 DEF ToInstall
    <3> QED
      BY <1>1, <2>1, <2>3, <3>1, OthersAreClean
  <2>4. CASE HdrSlots(b)' # {}
    <3>1. PICK i : i = CHOOSE j \in HdrSlots(b)' : TRUE
      OBVIOUS
    <3>2. i \in 1..Len(lh) /\ lh[i] = b
      BY <2>2, <2>4, <3>1
    <3> QED
      BY <1>3, <2>1, <2>4, <3>1, <3>2
  <2> QED
    BY <2>3, <2>4
<1>5. Durable' = Visible
  BY <1>4 DEF Durable, Visible, Recovering
<1>6. Visible' = Visible /\ Active' = Active
  BY <1>2 DEF Visible, Recovering, Contents, Active
<1> QED
  BY <1>1, <1>5, <1>6 DEF D!Commit

\* install_trans() writes home what a replay would write there.
LEMMA InstallBlockDurable ==
  ASSUME IInv, CInv, phase \in {"install", "recover"}, InstallBlock
  PROVE  Durable' = Durable
<1>1. hdr = lh /\ tail + 1 \in 1..Len(lh) /\ lh[tail + 1] \in Block
  BY LoopIndex DEF Looping, CInv, HeaderWritten
<1>2. tail + 1 \in HdrSlots(lh[tail + 1])
  BY <1>1 DEF HdrSlots
<1> QED
  BY <1>1, <1>2, DurableStays DEF InstallBlock, IInv, TypeOK

LEMMA InstallRefines ==
  ASSUME IInv, CInv, Install
  PROVE  UNCHANGED D!vars
<1>1. phase = "install" /\ phase' \in {"install", "clear"}
  BY DEF Install, Turn
<1>2. tail + 1 \in 1..Len(lh) /\ tail + 1 \in 1..LogSlots /\ lh[tail + 1] \in Block
  BY <1>1, LoopIndex DEF Looping
<1>3. logdata[tail + 1] = Contents(lh[tail + 1])
  BY <1>1, <1>2 DEF CInv, Copied
<1>4. logdata[tail + 1] \in Val
  BY <1>2 DEF IInv, TypeOK
<1>5. \A b \in Block : Contents(b)' = Contents(b)
  BY <1>2, <1>3, <1>4, LogAssumption
     DEF Install, InstallBlock, Contents, IInv, TypeOK, LogAssumption
<1>6. Durable' = Durable /\ Visible' = Visible
  BY <1>1, <1>5, InstallBlockDurable, VisibleStays DEF Install, Recovering
<1> QED
  BY <1>6 DEF D!vars, Install, Active

LEMMA RecoverRefines ==
  ASSUME IInv, CInv, Recover
  PROVE  UNCHANGED D!vars
<1>1. phase \in Recovering /\ phase' \in Recovering
  BY DEF Recover, Turn, Recovering
<1>2. Durable' = Durable
  BY InstallBlockDurable DEF Recover
<1> QED
  BY <1>1, <1>2 DEF D!vars, Visible, Recover, Active

\* Clearing the log takes nothing away: every block of it is installed.
LEMMA ClearLogDurable ==
  ASSUME IInv, CInv, phase \in {"clear", "rclear"}, ClearLog
  PROVE  Durable = home /\ Durable' = home
<1>1. Durable = home
  BY DurableIsHome DEF CInv, HeaderWritten, Installed
<1>2. \A b \in Block : HdrSlots(b)' = {}
  BY DEF ClearLog, HdrSlots
<1>3. Durable' = home
  BY <1>2 DEF ClearLog, Durable, IInv, TypeOK
<1> QED
  BY <1>1, <1>3

LEMMA ClearRefines ==
  ASSUME IInv, CInv, Clear
  PROVE  UNCHANGED D!vars
<1> USE DEF Clear
<1>1. Durable' = Durable
  BY ClearLogDurable
<1>2. Visible' = Visible
  BY VisibleStays DEF ClearLog, bufVars, Contents, Recovering
<1> QED
  BY <1>1, <1>2 DEF D!vars, Active

LEMMA RClearRefines ==
  ASSUME IInv, CInv, ~panicked, RClear
  PROVE  UNCHANGED D!vars
<1> USE DEF RClear
<1>1. Durable = home /\ Durable' = home /\ UNCHANGED <<home, cache>>
  BY ClearLogDurable DEF ClearLog, bufVars
<1>2. \A b \in Block : pins[b] = 0
  BY DEF IInv, PinnedExactly, Recovering
<1>3. \A p \in Proc : ~dirty[p]
  BY DEF IInv, Owing, Booting, Recovering
<1>4. \A b \in Block : Contents(b)' = home[b]
  BY <1>1, <1>2, <1>3 DEF CInv, Clean, Contents
<1>5. Visible = home /\ Visible' = home
  BY <1>1, <1>4 DEF Visible, Recovering, IInv, TypeOK
<1> QED
  BY <1>1, <1>5 DEF D!vars, Active

LEMMA EndCommitRefines ==
  ASSUME IInv, NEW p \in Proc, EndCommit(p)
  PROVE  UNCHANGED D!vars
<1> USE DEF EndCommit, diskVars, bufVars
<1>1. Durable' = Durable
  BY DurableStays
<1>2. Visible' = Visible
  BY VisibleStays DEF Contents, Recovering
<1>3. \A q \in Proc : pc'[q] = "op" <=> pc[q] = "op"
  BY DEF WakeAll, IInv, TypeOK
<1> QED
  BY <1>1, <1>2, <1>3 DEF D!vars, Active

LEMMA ReadHeadRefines ==
  ASSUME ReadHead
  PROVE  UNCHANGED D!vars
<1> USE DEF ReadHead, diskVars
<1>1. Durable' = Durable
  BY DurableStays
<1> QED
  BY <1>1 DEF D!vars, Visible, Recovering, Active

LEMMA CrashRefines ==
  ASSUME Crash
  PROVE  D!Crash
<1> USE DEF Crash, diskVars
<1>1. Durable' = Durable
  BY DurableStays
<1>2. Visible' = Durable
  BY <1>1 DEF Visible, Recovering, Durable
<1>3. Active' = {}
  BY DEF Active
<1> QED
  BY <1>1, <1>2, <1>3 DEF D!Crash

LEMMA InitRefines == Init => D!Init
<1> SUFFICES ASSUME Init PROVE D!Init
  OBVIOUS
<1> USE DEF Init
<1>1. home \in [Block -> Val] /\ hdr = <<>>
  OBVIOUS
<1>2. \A b \in Block : HdrSlots(b) = {}
  BY <1>1 DEF HdrSlots
<1>3. Durable = home
  BY <1>1, <1>2 DEF Durable
<1>4. Visible = Durable
  BY <1>1, <1>3 DEF Visible, Recovering
<1>5. Active = {}
  BY DEF Active
<1> QED
  BY <1>1, <1>3, <1>4, <1>5 DEF D!Init

LEMMA NextRefines == IInv /\ CInv /\ [Next]_vars => [D!Next]_D!vars
<1> SUFFICES ASSUME IInv, CInv, [Next]_vars PROVE [D!Next]_D!vars
  OBVIOUS
<1>1. ASSUME NEW p \in Proc, NEW b \in Block, Bread(p, b) PROVE UNCHANGED D!vars
  BY <1>1, BreadRefines
<1>2. ASSUME NEW p \in Proc, NEW v \in Val, Modify(p, v) PROVE D!Next
  BY <1>2, ModifyRefines DEF D!Next
<1>3. ASSUME ~panicked, NEW p \in Proc,
             Brelse(p) \/ BeginOp(p) \/ LogWrite(p) \/ EndOp(p) \/ EndCommit(p)
      PROVE  [D!Next]_D!vars
  BY <1>3, BrelseRefines, BeginOpRefines, LogWriteRefines, EndOpRefines,
     EndCommitRefines DEF D!Next
<1>4. ASSUME ~panicked, NEW b \in Block, Recycle(b) PROVE UNCHANGED D!vars
  BY <1>4, RecycleRefines
<1>5. ASSUME ~panicked, WriteLog \/ WriteHead \/ Install \/ Clear
      PROVE  [D!Next]_D!vars
  BY <1>5, WriteLogRefines, WriteHeadRefines, InstallRefines, ClearRefines DEF D!Next
<1>6. ASSUME ~panicked, ReadHead \/ Recover \/ RClear PROVE UNCHANGED D!vars
  BY <1>6, ReadHeadRefines, RecoverRefines, RClearRefines
<1>7. CASE Crash
  BY <1>7, CrashRefines DEF D!Next
<1>8. CASE UNCHANGED vars
  BY <1>8 DEF vars, D!vars, Durable, HdrSlots, Visible, Contents, Active
<1> QED
  BY <1>1, <1>2, <1>3, <1>4, <1>5, <1>6, <1>7, <1>8 DEF Next

-----------------------------------------------------------------------------
(***************************************************************************)
(* Theorems.                                                               *)
(***************************************************************************)

\* What the blocks hold, in every reachable state of log.c.
THEOREM BlocksHold == Spec => []CInv
  BY InitCInv, NextCInv, Invariance, PTL DEF Spec

\* log.c implements atomic, durable transactions: what recovery rebuilds after a
\* crash at any point is what the calls that ended before the last write_head()
\* had written, and nothing of the later ones (log.c:12-14, 99-101).
THEOREM Refinement == Spec => AtomicTransactions
<1>1. Init => D!Init
  BY InitRefines
<1>2. IInv /\ CInv /\ [Next]_vars => [D!Next]_D!vars
  BY NextRefines
<1> QED
  BY <1>1, <1>2, Invariance, BlocksHold, PTL DEF Spec, AtomicTransactions, D!Spec

\* When the end_op() that committed returns, the home blocks hold everything that
\* calls have written and the log on disk is empty (log.c:165-174).
THEOREM CommitDurable == Spec => CommitReturnsDurable
<1>1. ASSUME IInv, CInv, [Next]_vars
      PROVE  [ committing /\ ~committing' /\ phase' = "idle" =>
                 hdr = <<>> /\ home = Visible ]_vars
  <2> SUFFICES ASSUME Next, committing, ~committing', phase' = "idle"
               PROVE  hdr = <<>> /\ home = Visible
    BY <1>1 DEF vars
  <2>1. ~panicked /\ \E p \in Proc : EndCommit(p)
    BY DEF Next, Bread, Modify, Brelse, Recycle, BeginOp, LogWrite, EndOp, WriteLog,
           WriteHead, Install, Clear, ClearLog, ReadHead, Recover, RClear, Crash, logVars
  <2>2. phase = "end"
    BY <2>1 DEF EndCommit
  <2>3. lh = <<>> /\ hdr = <<>>
    BY <1>1, <2>2 DEF IInv, EmptyWhenIdle, CInv, HeaderWritten
  <2>4. ToInstall = {}
    BY <2>3 DEF ToInstall
  <2>5. \A b \in Block : Contents(b) = home[b]
    BY <1>1, <2>1, <2>4, OthersAreClean
  <2>6. home = Visible
    BY <1>1, <2>2, <2>5 DEF Visible, Recovering, IInv, TypeOK
  <2> QED
    BY <2>3, <2>6
<1> QED
  BY <1>1, Invariance, BlocksHold, PTL DEF Spec, CommitReturnsDurable
=============================================================================
