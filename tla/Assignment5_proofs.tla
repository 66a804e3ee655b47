------------------------- MODULE Assignment5_proofs -------------------------
(***************************************************************************)
(* Proofs about the two programs of Assignment 5 that are modelled: the    *)
(* dictionary server (KvServer), for any number of client threads, workers *)
(* and keys and any requests, and the stadium (Stadium), for any number of *)
(* spectators, seats and chances.  The programs share nothing.             *)
(*                                                                         *)
(* The server's properties rest on who serves whom: a connection is in the *)
(* queue once or in the hands of one worker, which handles the request it  *)
(* has read until it closes the connection.  The stadium's SeatsAccounted  *)
(* is nearly inductive: sem_trywait() is called with the next zone of a    *)
(* list, so the proof adds that no list is left.                           *)
(***************************************************************************)
EXTENDS KvServer, Stadium, FiniteSetTheorems, SequenceTheorems,
        NaturalsInduction, WellFoundedInduction, TLAPS

-----------------------------------------------------------------------------
(***************************************************************************)
(* The dictionary server                                                   *)
(***************************************************************************)

\* A worker has a connection from pop to close, and nobody else has it.
Idle == {"start", "wait", "woken"}
Serving ==
  /\ \A t \in Worker : cur[t] = NoOne <=> pc[t] \in Idle
  /\ \A t \in Worker : cur[t] # NoOne => conn[cur[t]] = "served"
  /\ \A t, u \in Worker : cur[t] = cur[u] /\ cur[t] # NoOne => t = u

\* The queue holds each waiting connection once.
Queued ==
  /\ \A j \in 1..Len(queue) : conn[queue[j]] = "queued"
  /\ \A j, l \in 1..Len(queue) : queue[j] = queue[l] => j = l

\* What a worker may be doing for which request, and that it answers.
Asked(t, ops) == req[cur[t]] \in Requests /\ Op(t) \in ops
Handling ==
  \A t \in Worker :
    /\ pc[t] = "check" => Asked(t, KeyOps)
    /\ pc[t] \in {"check_this", "lock2"} => Asked(t, {"concat"})
    /\ pc[t] = "lock" => Asked(t, {"insert", "update", "concat"})
    /\ pc[t] = "get" => Asked(t, {"fetch", "update", "concat"})
    /\ pc[t] \in {"remove", "remove_lock"} => Asked(t, {"delete"})
    /\ pc[t] = "clear_lock" => idx[t] < NKeys
    /\ pc[t] = "close" /\ answer[cur[t]] = "none" => Op(t) = "delete"

\* A worker between its two mutexes holds the one with the smaller index; no
\* other mutex is held between two steps.
Mutexes ==
  \A k \in Key, t \in Worker :
    lock[k] = t <=> pc[t] = "lock2" /\ k = LockOrder(t)[1]

\* Main's signals, sent and still to send, are for as many requests; the wakeups
\* that no signal accounts for come on top.
WokenWorkers == {t \in Worker : pc[t] = "woken"}
Signals ==
  /\ IsFiniteSet(WokenWorkers)
  /\ Cardinality(WokenWorkers) + (IF main = "signal" THEN 1 ELSE 0) <= Len(queue) + spurious

IInv ==
  /\ TypeOK
  /\ OnlyDeleteCutsOff
  /\ Serving
  /\ Queued
  /\ Handling
  /\ Mutexes
  /\ Signals
  /\ PresentHasValue

-----------------------------------------------------------------------------
LEMMA KeyFacts ==
  /\ Key \subseteq Nat
  /\ \A k \in Key : k < NKeys
  /\ \A n \in Nat : n < NKeys => n \in Key
  /\ NKeys \in Nat
  /\ NoOne \notin Client /\ NoOne \notin Worker
  BY KvAssumption DEF Key

\* A request on keys names keys of the dictionary.
LEMMA AskedKeys ==
  ASSUME NEW t \in Worker, NEW ops \in SUBSET KeyOps, Asked(t, ops)
  PROVE  K(t) \in Key /\ K2(t) \in Key
  BY KvAssumption DEF Asked, AllRequests, KeyOps, K, K2, Op

LEMMA LockOrderFacts ==
  ASSUME NEW t \in Worker, K(t) \in Key, K2(t) \in Key
  PROVE  /\ LockOrder(t)[1] \in Key /\ LockOrder(t)[2] \in Key
         /\ LockOrder(t)[1] \in {K(t), K2(t)} /\ LockOrder(t)[2] \in {K(t), K2(t)}
         /\ K(t) # K2(t) => LockOrder(t)[1] < LockOrder(t)[2]
  <1>1. CASE K(t) < K2(t)
    <2>1. LockOrder(t) = <<K(t), K2(t)>>
      BY <1>1 DEF LockOrder
    <2> QED  BY <1>1, <2>1
  <1>2. CASE ~(K(t) < K2(t))
    <2>1. LockOrder(t) = <<K2(t), K(t)>>
      BY <1>2 DEF LockOrder
    <2>2. \A a, b \in Key : ~(a < b) /\ a # b => b < a
      BY KeyFacts
    <2> QED  BY <1>2, <2>1, <2>2
  <1> QED  BY <1>1, <1>2

\* A nonempty set of keys has a greatest one.
LEMMA GreatestKey ==
  ASSUME NEW S \in SUBSET Key, S # {}
  PROVE  \E k \in S : \A l \in S : l <= k
  <1> DEFINE T == {n \in Nat : NKeys - n \in S}
             R == {ss \in Nat \X Nat : ss[1] < ss[2]}
  <1>1. IsWellFoundedOn(R, Nat)
    BY NatLessThanWellFounded, Zenon DEF OpToRel
  <1>2. T \subseteq Nat /\ T # {}
    <2>1. PICK k \in S : TRUE
      OBVIOUS
    <2>2. NKeys - k \in T
      BY <2>1, KeyFacts
    <2> QED  BY <2>2
  <1> HIDE DEF R, T
  <1>3. PICK m \in T : \A n \in T : ~(<<n, m>> \in R)
    BY <1>1, <1>2, WFMin, Zenon
  <1>4. \A n \in T : m <= n
    <2>1. \A n \in T : ~(n < m)
      BY <1>2, <1>3 DEF R
    <2> QED  BY <1>2, <2>1
  <1>5. NKeys - m \in S /\ m \in Nat
    BY DEF T
  <1>6. ASSUME NEW l \in S PROVE l <= NKeys - m
    <2>1. NKeys - l \in T
      BY KeyFacts DEF T
    <2> QED  BY <2>1, <1>4, <1>5, KeyFacts
  <1> QED  BY <1>5, <1>6

LEMMA AcceptIInv ==
  ASSUME IInv, NEW c \in Client, Accept(c)
  PROVE  IInv'
  <1> USE KeyFacts DEF Accept, Goto, Send, Connects, poolVars, dictVars, procVars
  <1>1. TypeOK'
    BY DEF IInv, TypeOK
  <1>2. OnlyDeleteCutsOff'
    BY <1>1 DEF IInv, OnlyDeleteCutsOff
  <1>3. Serving'
    BY DEF IInv, Serving
  <1>4. Queued'
    BY DEF IInv, TypeOK, Queued
  <1>5. Handling'
    BY DEF IInv, Handling, Asked, Op
  <1>6. Mutexes'
    BY DEF IInv, Mutexes, LockOrder, K, K2
  <1>7. Signals'
    <2>1. WokenWorkers' = WokenWorkers
      BY DEF WokenWorkers
    <2>2. Len(queue') = Len(queue) + 1 /\ Len(queue) \in Nat
      BY DEF IInv, TypeOK
    <2>3. Cardinality(WokenWorkers) \in Nat /\ spurious \in Nat
      BY FS_CardinalityType, KvAssumption DEF IInv, Signals, TypeOK
    <2> QED  BY <2>1, <2>2, <2>3 DEF IInv, Signals
  <1>8. PresentHasValue'
    BY DEF IInv, PresentHasValue
  <1> QED  BY <1>1, <1>2, <1>3, <1>4, <1>5, <1>6, <1>7, <1>8 DEF IInv

LEMMA SignalIInv ==
  ASSUME IInv, Signal
  PROVE  IInv'
  <1> USE KeyFacts DEF Signal, Waiting, dictVars, procVars
  <1>1. TypeOK'
    BY DEF IInv, TypeOK, Labels
  <1>2. OnlyDeleteCutsOff'
    BY <1>1 DEF IInv, OnlyDeleteCutsOff
  <1>3. Serving'
    BY DEF IInv, TypeOK, Serving, Idle
  <1>4. Queued'
    BY DEF IInv, Queued
  <1>5. Handling'
    BY DEF IInv, TypeOK, Handling, Asked, Op
  <1>6. Mutexes'
    BY DEF IInv, TypeOK, Mutexes, LockOrder, K, K2
  <1>7. Signals'
    <2>1. Len(queue) \in Nat /\ Cardinality(WokenWorkers) \in Nat /\ spurious \in Nat
      BY FS_CardinalityType, KvAssumption DEF IInv, Signals, TypeOK
    <2>2. CASE UNCHANGED pc
      <3>1. WokenWorkers' = WokenWorkers
        BY <2>2 DEF WokenWorkers
      <3> QED  BY <2>1, <3>1 DEF IInv, Signals
    <2>3. ASSUME NEW t \in Worker, pc[t] = "wait", pc' = [pc EXCEPT ![t] = "woken"]
          PROVE  Signals'
      <3>1. WokenWorkers' = WokenWorkers \cup {t} /\ t \notin WokenWorkers
        BY <2>3 DEF IInv, TypeOK, WokenWorkers
      <3>2. IsFiniteSet(WokenWorkers') /\ Cardinality(WokenWorkers') = Cardinality(WokenWorkers) + 1
        BY <3>1, FS_AddElement DEF IInv, Signals
      <3> QED  BY <2>1, <3>2 DEF IInv, Signals
    <2> QED  BY <2>2, <2>3
  <1>8. PresentHasValue'
    BY DEF IInv, PresentHasValue
  <1> QED  BY <1>1, <1>2, <1>3, <1>4, <1>5, <1>6, <1>7, <1>8 DEF IInv

LEMMA ReadNothingIInv ==
  ASSUME IInv, NEW c \in Client, ReadNothing(c)
  PROVE  IInv'
  <1> USE KeyFacts DEF ReadNothing, Goto, Send, poolVars, dictVars, procVars
  <1>1. TypeOK'
    BY DEF IInv, TypeOK
  <1>2. OnlyDeleteCutsOff'
    BY <1>1 DEF IInv, OnlyDeleteCutsOff
  <1>3. Serving'
    BY DEF IInv, Serving
  <1>4. Queued'
    BY DEF IInv, Queued
  <1>5. Handling'
    BY DEF IInv, Handling, Asked, Op
  <1>6. Mutexes'
    BY DEF IInv, TypeOK, Mutexes, LockOrder, K, K2
  <1>7. Signals'
    <2>1. WokenWorkers' = WokenWorkers
      BY DEF IInv, TypeOK, WokenWorkers
    <2> QED  BY <2>1 DEF IInv, Signals
  <1>8. PresentHasValue'
    BY DEF IInv, PresentHasValue
  <1> QED  BY <1>1, <1>2, <1>3, <1>4, <1>5, <1>6, <1>7, <1>8 DEF IInv

LEMMA CondWaitIInv ==
  ASSUME IInv, NEW t \in Worker, CondWait(t)
  PROVE  IInv'
  <1> USE KeyFacts DEF CondWait, Goto, Send, poolVars, dictVars, procVars
  <1>1. TypeOK'
    BY DEF IInv, TypeOK, Labels
  <1>2. OnlyDeleteCutsOff'
    BY <1>1 DEF IInv, OnlyDeleteCutsOff
  <1>3. Serving'
    BY DEF IInv, TypeOK, Serving, Idle
  <1>4. Queued'
    BY DEF IInv, Queued
  <1>5. Handling'
    BY DEF IInv, Handling, Asked, Op
  <1>6. Mutexes'
    BY DEF IInv, TypeOK, Mutexes, LockOrder, K, K2
  <1>7. Signals'
    <2>1. WokenWorkers' = WokenWorkers
      BY DEF IInv, TypeOK, WokenWorkers
    <2> QED  BY <2>1 DEF IInv, Signals
  <1>8. PresentHasValue'
    BY DEF IInv, PresentHasValue
  <1> QED  BY <1>1, <1>2, <1>3, <1>4, <1>5, <1>6, <1>7, <1>8 DEF IInv

LEMMA SpuriousWakeupIInv ==
  ASSUME IInv, NEW t \in Worker, SpuriousWakeup(t)
  PROVE  IInv'
  <1> USE KeyFacts DEF SpuriousWakeup, Goto, poolVars, dictVars
  <1>1. spurious \in Nat /\ spurious' \in 0..MaxSpurious /\ spurious' = spurious + 1
    BY KvAssumption DEF IInv, TypeOK
  <1>2. TypeOK'
    BY <1>1 DEF IInv, TypeOK, Labels
  <1>3. OnlyDeleteCutsOff'
    BY <1>1, <1>2 DEF IInv, OnlyDeleteCutsOff
  <1>4. Serving'
    BY DEF IInv, TypeOK, Serving, Idle
  <1>5. Queued'
    BY DEF IInv, Queued
  <1>6. Handling'
    BY DEF IInv, TypeOK, Handling, Asked, Op
  <1>7. Mutexes'
    BY DEF IInv, TypeOK, Mutexes, LockOrder, K, K2
  <1>8. Signals'
    <2>1. WokenWorkers' = WokenWorkers \cup {t} /\ t \notin WokenWorkers
      BY DEF IInv, TypeOK, WokenWorkers
    <2>2. /\ IsFiniteSet(WokenWorkers')
          /\ Cardinality(WokenWorkers') = Cardinality(WokenWorkers) + 1
          /\ Cardinality(WokenWorkers) \in Nat
      BY <2>1, FS_AddElement, FS_CardinalityType DEF IInv, Signals
    <2>3. Len(queue) \in Nat
      BY DEF IInv, TypeOK
    <2> QED  BY <1>1, <2>2, <2>3 DEF IInv, Signals
  <1>9. PresentHasValue'
    BY DEF IInv, PresentHasValue
  <1> QED  BY <1>2, <1>3, <1>4, <1>5, <1>6, <1>7, <1>8, <1>9 DEF IInv

\* When the server ends, the connections and the dictionary are what they were.
LEMMA EndsIInv ==
  ASSUME IInv, NEW how \in {"exception", "undefined"}, Ends(how),
         TypeOK', OnlyDeleteCutsOff', Handling', Mutexes'
  PROVE  IInv'
  <1> USE DEF Ends, dictVars
  <1>1. Serving' /\ Queued'
    BY DEF IInv, Serving, Queued
  <1>2. Signals'
    BY DEF IInv, Signals, WokenWorkers
  <1>3. PresentHasValue'
    BY DEF IInv, PresentHasValue
  <1> QED  BY <1>1, <1>2, <1>3 DEF IInv

\* An empty queue is popped after a wakeup that no signal accounts for.
LEMMA PopNothingIInv ==
  ASSUME IInv, NEW t \in Worker, PopNothing(t)
  PROVE  IInv'
  <1> USE KeyFacts DEF PopNothing, Ends, dictVars
  <1>1. TypeOK'
    BY DEF IInv, TypeOK
  <1>2. spurious > 0
    <2>1. WokenWorkers # {} /\ IsFiniteSet(WokenWorkers)
      BY DEF WokenWorkers, IInv, Signals
    <2>2. Cardinality(WokenWorkers) \in Nat /\ Cardinality(WokenWorkers) # 0
      BY <2>1, FS_CardinalityType, FS_EmptySet
    <2>3. Len(queue) = 0 /\ spurious \in Nat
      BY KvAssumption DEF IInv, TypeOK
    <2> QED  BY <2>2, <2>3 DEF IInv, Signals
  <1>3. OnlyDeleteCutsOff'
    BY <1>1, <1>2 DEF IInv, OnlyDeleteCutsOff
  <1>4. Handling' /\ Mutexes'
    BY DEF IInv, Handling, Asked, Op, Mutexes, LockOrder, K, K2
  <1> QED  BY <1>1, <1>3, <1>4, EndsIInv

LEMMA PopIInv ==
  ASSUME IInv, NEW t \in Worker, Pop(t)
  PROVE  IInv'
  <1> USE KeyFacts DEF Pop, Goto, Send, poolVars, dictVars, procVars
  <1>1. TypeOK'
    <2>1. Head(queue) \in Client
      BY HeadTailProperties DEF IInv, TypeOK
    <2> QED  BY <2>1, HeadTailProperties DEF IInv, TypeOK, Labels
  <1>2. OnlyDeleteCutsOff'
    <2>1. Head(queue) \in Client /\ conn[Head(queue)] = "queued"
      BY HeadTailProperties DEF IInv, TypeOK, Queued
    <2> QED  BY <2>1, <1>1 DEF IInv, TypeOK, OnlyDeleteCutsOff
  <1>3. Serving'
    <2>1. Head(queue) \in Client /\ conn[Head(queue)] = "queued"
      BY HeadTailProperties DEF IInv, TypeOK, Queued
    <2> QED  BY <2>1, <1>1 DEF IInv, TypeOK, Serving, Idle
  <1>4. Queued'
    BY DEF IInv, Queued
  <1>5. Handling'
    BY DEF IInv, Handling, Asked, Op
  <1>6. Mutexes'
    BY DEF IInv, TypeOK, Mutexes, LockOrder, K, K2
  <1>7. Signals'
    <2>1. Len(queue) \in Nat /\ Len(queue') = Len(queue) - 1 /\ spurious \in Nat
      BY HeadTailProperties, KvAssumption DEF IInv, TypeOK
    <2>2. WokenWorkers' = WokenWorkers \ {t} /\ t \in WokenWorkers
      BY DEF IInv, TypeOK, WokenWorkers
    <2>3. /\ IsFiniteSet(WokenWorkers')
          /\ Cardinality(WokenWorkers') = Cardinality(WokenWorkers) - 1
          /\ Cardinality(WokenWorkers) \in Nat
      BY <2>2, FS_RemoveElement, FS_CardinalityType DEF IInv, Signals
    <2> QED  BY <2>1, <2>3 DEF IInv, Signals
  <1>8. PresentHasValue'
    BY DEF IInv, PresentHasValue
  <1> QED  BY <1>1, <1>2, <1>3, <1>4, <1>5, <1>6, <1>7, <1>8 DEF IInv

\* A request that parses.
LEMMA ParsedIInv ==
  ASSUME IInv, NEW t \in Worker, NEW r \in Requests, ReadRequest(t, r),
         r.op \notin {"malformed", "stray"}, down = "no"
  PROVE  IInv'
  <1> USE KeyFacts DEF Goto, Send, SendRequest, poolVars, dictVars, procVars
  <1>0. /\ pc[t] = "read"
        /\ SendRequest(cur[t], r)
        /\ idx' = [idx EXCEPT ![t] = 0]
        /\ \/ r.op = "invalid" /\ Send(t, "invalid") /\ Goto(t, "close")
           \/ r.op = "clear" /\ Goto(t, "clear") /\ UNCHANGED answer
           \/ r.op \in KeyOps /\ Goto(t, "check") /\ UNCHANGED answer
        /\ UNCHANGED <<conn, queue, main, cur, dictVars, procVars>>
    BY DEF ReadRequest
  <1>1. TypeOK'
    <2>1. cur[t] \in Client
      BY <1>0 DEF IInv, TypeOK, Serving, Idle
    <2>2. 0 \in 0..NKeys
      OBVIOUS
    <2> QED  BY <1>0, <2>1, <2>2 DEF IInv, TypeOK, Labels, Answers
  <1>2. OnlyDeleteCutsOff'
    <2>1. cur[t] \in Client /\ conn[cur[t]] = "served"
      BY <1>0 DEF IInv, TypeOK, Serving, Idle
    <2>2. \A c \in Client : c # cur[t] => answer'[c] = answer[c] /\ req'[c] = req[c]
      BY <1>0 DEF IInv, TypeOK
    <2> QED  BY <1>0, <1>1, <2>1, <2>2 DEF IInv, OnlyDeleteCutsOff
  <1>3. Serving'
    <2>1. \E l \in Labels \ Idle : pc' = [pc EXCEPT ![t] = l]
      BY <1>0 DEF Labels, Idle
    <2> QED  BY <1>0, <2>1 DEF IInv, TypeOK, Serving, Idle
  <1>4. Queued'
    BY <1>0 DEF IInv, Queued
  <1>5. Handling'
    <2>1. cur[t] \in Client /\ r.op \in KeyOps \cup {"clear", "invalid"}
      BY <1>0, KvAssumption DEF IInv, TypeOK, Serving, Idle, AllRequests
    <2>2. \A u \in Worker \ {t} :
            cur'[u] # NoOne => req'[cur'[u]] = req[cur[u]] /\ answer'[cur'[u]] = answer[cur[u]]
      BY <1>0, <2>1 DEF IInv, TypeOK, Serving
    <2>3. \A u \in Worker \ {t} : pc'[u] = pc[u] /\ idx'[u] = idx[u]
      BY <1>0 DEF IInv, TypeOK
    <2>4. req'[cur'[t]] = r /\ pc'[t] \in {"close", "clear", "check"}
      BY <1>0, <2>1 DEF IInv, TypeOK
    <2>5. pc'[t] = "check" => r.op \in KeyOps
      BY <1>0, <2>1 DEF IInv, TypeOK, KeyOps
    <2>6. pc'[t] = "close" => answer'[cur'[t]] = "invalid"
      BY <1>0, <2>1 DEF IInv, TypeOK, KeyOps
    <2> QED  BY <1>0, <2>2, <2>3, <2>4, <2>5, <2>6 DEF IInv, TypeOK, Handling, Asked, Op, Serving, Idle
  <1>6. Mutexes'
    BY <1>0 DEF IInv, TypeOK, Mutexes, LockOrder, K, K2, Serving
  <1>7. Signals'
    <2>1. WokenWorkers' = WokenWorkers
      BY <1>0 DEF IInv, TypeOK, WokenWorkers
    <2> QED  BY <1>0, <2>1 DEF IInv, Signals
  <1>8. PresentHasValue'
    BY <1>0 DEF IInv, PresentHasValue
  <1> QED  BY <1>1, <1>2, <1>3, <1>4, <1>5, <1>6, <1>7, <1>8 DEF IInv

\* A request that ends the server.
LEMMA FatalIInv ==
  ASSUME IInv, NEW t \in Worker, NEW r \in Requests, ReadRequest(t, r),
         r.op \in {"malformed", "stray"}
  PROVE  IInv'
  <1> USE KeyFacts DEF SendRequest, dictVars
  <1>1. PICK how \in {"exception", "undefined"} :
           how = IF r.op = "stray" THEN "undefined" ELSE "exception"
    OBVIOUS
  <1>2. /\ pc[t] = "read" /\ req' = [req EXCEPT ![cur[t]] = r]
        /\ idx' = [idx EXCEPT ![t] = 0]
        /\ Ends(how) /\ UNCHANGED answer
    BY <1>1 DEF ReadRequest
  <1>3. /\ down' = how
        /\ UNCHANGED <<conn, queue, main, pc, cur, dictVars, alive, spurious>>
    BY <1>2 DEF Ends
  <1>4. cur[t] \in Client /\ conn[cur[t]] = "served"
    BY <1>2 DEF IInv, TypeOK, Serving, Idle
  <1>5. TypeOK'
    <2>1. 0 \in 0..NKeys
      OBVIOUS
    <2> QED  BY <1>2, <1>3, <1>4, <2>1 DEF IInv, TypeOK
  <1>6. req'[cur[t]] = r /\ r # NoOne /\ \A c \in Client : c # cur[t] => req'[c] = req[c]
    <2>1. r # NoOne
      BY KvAssumption
    <2> QED  BY <2>1, <1>2, <1>4 DEF IInv, TypeOK
  <1>7. OnlyDeleteCutsOff'
    BY <1>1, <1>2, <1>3, <1>4, <1>5, <1>6 DEF IInv, OnlyDeleteCutsOff
  <1>8. \A u \in Worker : pc[u] # "read" /\ cur[u] # NoOne => u # t /\ cur[u] # cur[t]
    BY <1>2, <1>4 DEF IInv, Serving
  <1>9. Handling'
    BY <1>2, <1>3, <1>6, <1>8 DEF IInv, TypeOK, Handling, Asked, Op, Serving, Idle
  <1>10. Mutexes'
    BY <1>2, <1>3, <1>6, <1>8 DEF IInv, TypeOK, Mutexes, LockOrder, K, K2, Serving, Idle
  <1> QED  BY <1>2, <1>5, <1>7, <1>9, <1>10, EndsIInv

LEMMA ReadAbortsIInv ==
  ASSUME IInv, NEW t \in Worker, ReadAborts(t)
  PROVE  IInv'
  <1> USE KeyFacts DEF ReadAborts, Ends, dictVars
  <1>1. TypeOK'
    BY DEF IInv, TypeOK
  <1>2. OnlyDeleteCutsOff'
    BY <1>1 DEF IInv, OnlyDeleteCutsOff
  <1>3. Handling' /\ Mutexes'
    BY DEF IInv, Handling, Asked, Op, Mutexes, LockOrder, K, K2
  <1> QED  BY <1>1, <1>2, <1>3, EndsIInv

LEMMA CheckIInv ==
  ASSUME IInv, NEW t \in Worker, Check(t)
  PROVE  IInv'
  <1> USE KeyFacts DEF Check, Goto, Send, poolVars, dictVars, procVars
  <1>1. TypeOK'
    BY DEF IInv, TypeOK, Labels, Answers
  <1>2. OnlyDeleteCutsOff'
    BY <1>1 DEF IInv, TypeOK, OnlyDeleteCutsOff, Serving, Idle
  <1>3. Serving'
    <2>1. \E l \in Labels \ Idle : pc' = [pc EXCEPT ![t] = l]
      BY DEF Labels, Idle
    <2> QED  BY <2>1 DEF IInv, TypeOK, Serving, Idle
  <1>4. Queued'
    BY DEF IInv, Queued
  <1>5. Handling'
    <2>1. cur[t] \in Client
      BY DEF IInv, TypeOK, Serving, Idle
    <2>2. \A u \in Worker \ {t} :
            cur'[u] # NoOne => req'[cur'[u]] = req[cur[u]] /\ answer'[cur'[u]] = answer[cur[u]]
      BY <2>1 DEF IInv, TypeOK, Serving
    <2>3. \A u \in Worker \ {t} : pc'[u] = pc[u] /\ idx'[u] = idx[u] /\ cur'[u] = cur[u]
      BY DEF IInv, TypeOK
    <2>4. cur'[t] = cur[t] /\ req' = req
      OBVIOUS
    <2>5. Asked(t, KeyOps)
      BY DEF IInv, Handling
    <2>6. \/ pc'[t] = "close" /\ answer'[cur[t]] # "none"
          \/ pc'[t] = "remove" /\ Op(t) = "delete"
          \/ pc'[t] = "get" /\ Op(t) = "fetch"
          \/ pc'[t] = "check_this" /\ Op(t) = "concat"
          \/ pc'[t] = "lock" /\ Op(t) \in {"insert", "update"}
      BY <2>1, <2>5 DEF IInv, TypeOK, Asked, KeyOps
    <2>7. req[cur[t]] \in Requests /\ idx' = idx
      BY <2>5 DEF Asked
    <2>8. ASSUME NEW u \in Worker \ {t}
          PROVE  /\ pc'[u] = "check" => Asked(u, KeyOps)'
                 /\ pc'[u] \in {"check_this", "lock2"} => Asked(u, {"concat"})'
                 /\ pc'[u] = "lock" => Asked(u, {"insert", "update", "concat"})'
                 /\ pc'[u] = "get" => Asked(u, {"fetch", "update", "concat"})'
                 /\ pc'[u] \in {"remove", "remove_lock"} => Asked(u, {"delete"})'
                 /\ pc'[u] = "clear_lock" => idx'[u] < NKeys
                 /\ pc'[u] = "close" /\ answer'[cur'[u]] = "none" => Op(u)' = "delete"
      BY <2>2, <2>3, <2>4 DEF IInv, TypeOK, Handling, Asked, Op, Serving, Idle
    <2> QED  BY <2>4, <2>6, <2>7, <2>8 DEF Handling, Asked, Op
  <1>6. Mutexes'
    BY DEF IInv, TypeOK, Mutexes, LockOrder, K, K2
  <1>7. Signals'
    <2>1. WokenWorkers' = WokenWorkers
      BY DEF IInv, TypeOK, WokenWorkers
    <2> QED  BY <2>1 DEF IInv, Signals
  <1>8. PresentHasValue'
    BY DEF IInv, PresentHasValue
  <1> QED  BY <1>1, <1>2, <1>3, <1>4, <1>5, <1>6, <1>7, <1>8 DEF IInv

LEMMA CheckThisIInv ==
  ASSUME IInv, NEW t \in Worker, CheckThis(t)
  PROVE  IInv'
  <1> USE KeyFacts DEF CheckThis, Goto, Send, poolVars, dictVars, procVars
  <1>1. TypeOK'
    BY DEF IInv, TypeOK, Labels, Answers
  <1>2. OnlyDeleteCutsOff'
    <2>1. cur[t] \in Client /\ conn[cur[t]] = "served"
      BY DEF IInv, TypeOK, Serving, Idle
    <2>2. \A c \in Client : c # cur[t] => answer'[c] = answer[c]
      BY DEF IInv, TypeOK
    <2> QED  BY <1>1, <2>1, <2>2 DEF IInv, OnlyDeleteCutsOff
  <1>3. Serving'
    <2>1. \E l \in Labels \ Idle : pc' = [pc EXCEPT ![t] = l]
      BY DEF Labels, Idle
    <2> QED  BY <2>1 DEF IInv, TypeOK, Serving, Idle
  <1>4. Queued'
    BY DEF IInv, Queued
  <1>5. Handling'
    <2>1. cur[t] \in Client
      BY DEF IInv, TypeOK, Serving, Idle
    <2>2. \A u \in Worker \ {t} :
            cur'[u] # NoOne => req'[cur'[u]] = req[cur[u]] /\ answer'[cur'[u]] = answer[cur[u]]
      BY <2>1 DEF IInv, TypeOK, Serving
    <2>3. \A u \in Worker \ {t} : pc'[u] = pc[u] /\ idx'[u] = idx[u] /\ cur'[u] = cur[u]
      BY DEF IInv, TypeOK
    <2>4. cur'[t] = cur[t] /\ req' = req
      OBVIOUS
    <2>5. Asked(t, {"concat"})
      BY DEF IInv, Handling
    <2>6. \/ pc'[t] = "close" /\ answer'[cur[t]] # "none"
          \/ pc'[t] = "lock"
      BY <2>1 DEF IInv, TypeOK
    <2>7. Asked(t, {"concat"})'
      BY <2>4, <2>5 DEF Asked, Op
    <2> HIDE DEF CheckThis, Goto, Send
    <2>8. ASSUME NEW u \in Worker, u # t PROVE Handling!(u)'
      BY <2>2, <2>3, <2>8 DEF IInv, Handling, Asked, Op, Serving, Idle
    <2>9. Handling!(t)'
      BY <2>4, <2>6, <2>7 DEF Asked, Op
    <2> QED  BY <2>8, <2>9 DEF Handling
  <1>6. Mutexes'
    BY DEF IInv, TypeOK, Mutexes, LockOrder, K, K2
  <1>7. Signals'
    <2>1. WokenWorkers' = WokenWorkers
      BY DEF IInv, TypeOK, WokenWorkers
    <2> QED  BY <2>1 DEF IInv, Signals
  <1>8. PresentHasValue'
    BY DEF IInv, PresentHasValue
  <1> QED  BY <1>1, <1>2, <1>3, <1>4, <1>5, <1>6, <1>7, <1>8 DEF IInv

\* An answer to a connection that is being served.
LEMMA AnswerSent ==
  ASSUME IInv, TypeOK', NEW t \in Worker, cur[t] # NoOne, NEW a \in Answers \ {"none"},
         answer' = [answer EXCEPT ![cur[t]] = a],
         UNCHANGED <<conn, req, procVars>>
  PROVE  OnlyDeleteCutsOff'
  <1>1. cur[t] \in Client /\ conn[cur[t]] = "served"
    BY DEF IInv, TypeOK, Serving
  <1>2. \A c \in Client : conn[c] = "closed" => answer'[c] = answer[c]
    BY <1>1 DEF IInv, TypeOK
  <1> QED  BY <1>2 DEF IInv, OnlyDeleteCutsOff, procVars

LEMMA InsertIInv ==
  ASSUME IInv, NEW t \in Worker, Insert(t)
  PROVE  IInv'
  <1> USE KeyFacts DEF Insert, Goto, Send, poolVars, dictVars, procVars
  <1>1. TypeOK'
    <2>1. K(t) \in Key /\ K2(t) \in Key /\ cur[t] \in Client
      BY AskedKeys DEF IInv, TypeOK, Handling, Serving, Idle, KeyOps
    <2>2. <<cur[t]>> \in Seq(Client)
      BY <2>1
    <2>3. str' \in [Key -> Seq(Client)] /\ empty' \in [Key -> BOOLEAN]
      BY <2>1, <2>2 DEF IInv, TypeOK
    <2> QED  BY <2>1, <2>3 DEF IInv, TypeOK, Labels, Answers
  <1>2. OnlyDeleteCutsOff'
    <2>1. cur[t] # NoOne
      BY DEF IInv, Serving, Idle
    <2>2. "ok" \in Answers \ {"none"}
      BY DEF Answers
    <2> QED  BY <1>1, <2>1, <2>2, AnswerSent
  <1>3. Serving'
    BY DEF IInv, TypeOK, Serving, Idle
  <1>4. Queued'
    BY DEF IInv, Queued
  <1>5. Handling'
    <2>1. cur[t] \in Client
      BY DEF IInv, TypeOK, Serving, Idle
    <2>2. ASSUME NEW u \in Worker, u # t PROVE Handling!(u)'
      <3>1. cur[u] # NoOne => answer'[cur[u]] = answer[cur[u]]
        BY <2>1, <2>2 DEF IInv, TypeOK, Serving
      <3>2. pc'[u] = pc[u]
        BY <2>2 DEF IInv, TypeOK
      <3> QED  BY <3>1, <3>2 DEF IInv, Handling, Asked, Op, Serving, Idle
    <2>3. pc'[t] = "close" /\ answer'[cur[t]] # "none"
      BY <2>1 DEF IInv, TypeOK
    <2> QED  BY <2>2, <2>3 DEF Handling
  <1>6. Mutexes'
    <2>1. \A u \in Worker : pc'[u] = "lock2" <=> pc[u] = "lock2"
      BY DEF IInv, TypeOK
    <2>2. \A u \in Worker : LockOrder(u)' = LockOrder(u)
      BY DEF LockOrder, K, K2
    <2> QED  BY <2>1, <2>2 DEF IInv, Mutexes
  <1>7. Signals'
    <2>1. WokenWorkers' = WokenWorkers
      BY DEF IInv, TypeOK, WokenWorkers
    <2> QED  BY <2>1 DEF IInv, Signals
  <1>8. PresentHasValue'
    BY DEF IInv, TypeOK, PresentHasValue
  <1> QED  BY <1>1, <1>2, <1>3, <1>4, <1>5, <1>6, <1>7, <1>8 DEF IInv

LEMMA UpdateIInv ==
  ASSUME IInv, NEW t \in Worker, Update(t)
  PROVE  IInv'
  <1> USE KeyFacts DEF Update, Goto, Send, poolVars, dictVars, procVars
  <1>1. TypeOK'
    <2>1. K(t) \in Key /\ K2(t) \in Key /\ cur[t] \in Client
      BY AskedKeys DEF IInv, TypeOK, Handling, Serving, Idle, KeyOps
    <2>2. <<cur[t]>> \in Seq(Client)
      BY <2>1
    <2>3. str' \in [Key -> Seq(Client)]
      BY <2>1, <2>2 DEF IInv, TypeOK
    <2> QED  BY <2>1, <2>3 DEF IInv, TypeOK, Labels, Answers
  <1>2. OnlyDeleteCutsOff'
    BY <1>1 DEF IInv, OnlyDeleteCutsOff
  <1>3. Serving'
    BY DEF IInv, TypeOK, Serving, Idle
  <1>4. Queued'
    BY DEF IInv, Queued
  <1>5. Handling'
    BY DEF IInv, Handling, Asked, Op
  <1>6. Mutexes'
    BY DEF IInv, Mutexes, LockOrder, K, K2
  <1>7. Signals'
    <2>1. WokenWorkers' = WokenWorkers
      BY DEF IInv, TypeOK, WokenWorkers
    <2> QED  BY <2>1 DEF IInv, Signals
  <1>8. PresentHasValue'
    BY DEF IInv, PresentHasValue
  <1> QED  BY <1>1, <1>2, <1>3, <1>4, <1>5, <1>6, <1>7, <1>8 DEF IInv

LEMMA ConcatLockIInv ==
  ASSUME IInv, NEW t \in Worker, ConcatLock(t)
  PROVE  IInv'
  <1> USE KeyFacts DEF ConcatLock, Goto, Send, poolVars, dictVars, procVars
  <1>1. TypeOK'
    BY DEF IInv, TypeOK, Labels
  <1>2. OnlyDeleteCutsOff'
    BY <1>1 DEF IInv, OnlyDeleteCutsOff
  <1>3. Serving'
    BY DEF IInv, TypeOK, Serving, Idle
  <1>4. Queued'
    BY DEF IInv, Queued
  <1>5. Handling'
    BY DEF IInv, Handling, Asked, Op
  <1>6. Mutexes'
    BY DEF IInv, TypeOK, Mutexes, LockOrder, K, K2
  <1>7. Signals'
    <2>1. WokenWorkers' = WokenWorkers
      BY DEF IInv, TypeOK, WokenWorkers
    <2> QED  BY <2>1 DEF IInv, Signals
  <1>8. PresentHasValue'
    BY DEF IInv, PresentHasValue
  <1> QED  BY <1>1, <1>2, <1>3, <1>4, <1>5, <1>6, <1>7, <1>8 DEF IInv

LEMMA ConcatIInv ==
  ASSUME IInv, NEW t \in Worker, Concat(t)
  PROVE  IInv'
  <1> USE KeyFacts DEF Concat, Goto, Send, poolVars, dictVars, procVars
  <1>1. TypeOK'
    <2>1. K(t) \in Key /\ K2(t) \in Key /\ cur[t] \in Client
      BY AskedKeys DEF IInv, TypeOK, Handling, Serving, Idle, KeyOps
    <2>2. str[K(t)] \o str[K2(t)] \in Seq(Client) /\ str[K2(t)] \o str[K(t)] \in Seq(Client)
      BY <2>1, ConcatProperties DEF IInv, TypeOK
    <2>3. str' \in [Key -> Seq(Client)]
      BY <2>1, <2>2 DEF IInv, TypeOK
    <2>4. lock' \in [Key -> Worker \cup {NoOne}]
      BY <2>1, LockOrderFacts DEF IInv, TypeOK
    <2> QED  BY <2>3, <2>4 DEF IInv, TypeOK, Labels
  <1>2. OnlyDeleteCutsOff'
    BY <1>1 DEF IInv, OnlyDeleteCutsOff
  <1>3. Serving'
    BY DEF IInv, TypeOK, Serving, Idle
  <1>4. Queued'
    BY DEF IInv, Queued
  <1>5. Handling'
    BY DEF IInv, Handling, Asked, Op
  <1>6. Mutexes'
    <2> DEFINE f == LockOrder(t)[1]
    <2>1. \A u \in Worker : LockOrder(u)' = LockOrder(u)
      BY DEF LockOrder, K, K2
    <2>2. f \in Key
      BY AskedKeys, LockOrderFacts DEF IInv, Handling, KeyOps
    <2>3. lock[f] = t /\ lock' = [lock EXCEPT ![f] = NoOne]
      BY <2>2 DEF IInv, Mutexes
    <2>4. \A u \in Worker : pc'[u] = "lock2" <=> pc[u] = "lock2" /\ u # t
      BY DEF IInv, TypeOK
    <2> HIDE DEF f, Concat
    <2>5. \A k \in Key : lock'[k] = IF k = f THEN NoOne ELSE lock[k]
      BY <2>3 DEF IInv, TypeOK
    <2>6. ASSUME NEW k \in Key, NEW u \in Worker
          PROVE  lock'[k] = u <=> pc[u] = "lock2" /\ u # t /\ k = LockOrder(u)[1]
      <3>1. lock[k] = u <=> pc[u] = "lock2" /\ k = LockOrder(u)[1]
        BY DEF IInv, Mutexes
      <3>2. lock[k] = t <=> k = f
        BY <2>2, <2>3 DEF IInv, Mutexes, f
      <3> QED  BY <2>3, <2>5, <3>1, <3>2
    <2> QED  BY <2>1, <2>4, <2>6 DEF Mutexes
  <1>7. Signals'
    <2>1. WokenWorkers' = WokenWorkers
      BY DEF IInv, TypeOK, WokenWorkers
    <2> QED  BY <2>1 DEF IInv, Signals
  <1>8. PresentHasValue'
    <2>1. K(t) \in Key /\ K2(t) \in Key /\ cur[t] \in Client
      BY AskedKeys DEF IInv, TypeOK, Handling, Serving, Idle, KeyOps
    <2>2. /\ str[K(t)] # <<>> => str[K(t)] \o str[K2(t)] # <<>>
          /\ str[K2(t)] # <<>> => str[K2(t)] \o str[K(t)] # <<>>
      BY <2>1, ConcatEqualIffEmpty DEF IInv, TypeOK
    <2>3. \A k \in Key \ {K(t), K2(t)} : str'[k] = str[k]
      BY <2>1 DEF IInv, TypeOK
    <2>4. K(t) # K2(t) => str'[K(t)] = str[K(t)] \o str[K2(t)] /\ str'[K2(t)] = str[K2(t)] \o str[K(t)]
      BY <2>1 DEF IInv, TypeOK
    <2>5. K(t) = K2(t) => str'[K(t)] = str[K(t)] \o str[K2(t)]
      BY <2>1 DEF IInv, TypeOK
    <2> QED  BY <2>2, <2>3, <2>4, <2>5 DEF IInv, PresentHasValue
  <1> QED  BY <1>1, <1>2, <1>3, <1>4, <1>5, <1>6, <1>7, <1>8 DEF IInv

LEMMA GetIInv ==
  ASSUME IInv, NEW t \in Worker, Get(t)
  PROVE  IInv'
  <1> USE KeyFacts DEF Get, Goto, Send, poolVars, dictVars, procVars
  <1>1. TypeOK'
    BY DEF IInv, TypeOK, Labels, Answers
  <1>2. OnlyDeleteCutsOff'
    <2>1. cur[t] # NoOne
      BY DEF IInv, Serving, Idle
    <2>2. "value" \in Answers \ {"none"}
      BY DEF Answers
    <2> QED  BY <1>1, <2>1, <2>2, AnswerSent
  <1>3. Serving'
    BY DEF IInv, TypeOK, Serving, Idle
  <1>4. Queued'
    BY DEF IInv, Queued
  <1>5. Handling'
    <2>1. cur[t] \in Client
      BY DEF IInv, TypeOK, Serving, Idle
    <2>2. ASSUME NEW u \in Worker, u # t PROVE Handling!(u)'
      <3>1. cur[u] # NoOne => answer'[cur[u]] = answer[cur[u]]
        BY <2>1, <2>2 DEF IInv, TypeOK, Serving
      <3>2. pc'[u] = pc[u]
        BY <2>2 DEF IInv, TypeOK
      <3> QED  BY <3>1, <3>2 DEF IInv, Handling, Asked, Op, Serving, Idle
    <2>3. pc'[t] = "close" /\ answer'[cur[t]] # "none"
      BY <2>1 DEF IInv, TypeOK
    <2> QED  BY <2>2, <2>3 DEF Handling
  <1>6. Mutexes'
    BY DEF IInv, TypeOK, Mutexes, LockOrder, K, K2
  <1>7. Signals'
    <2>1. WokenWorkers' = WokenWorkers
      BY DEF IInv, TypeOK, WokenWorkers
    <2> QED  BY <2>1 DEF IInv, Signals
  <1>8. PresentHasValue'
    BY DEF IInv, PresentHasValue
  <1> QED  BY <1>1, <1>2, <1>3, <1>4, <1>5, <1>6, <1>7, <1>8 DEF IInv

LEMMA DeleteIInv ==
  ASSUME IInv, NEW t \in Worker, Delete(t)
  PROVE  IInv'
  <1> USE KeyFacts DEF Delete, Goto, Send, RemoveTest, RemoveLocked, poolVars, dictVars, procVars
  <1>1. TypeOK'
    <2>1. K(t) \in Key /\ K2(t) \in Key /\ cur[t] \in Client
      BY AskedKeys DEF IInv, TypeOK, Handling, Serving, Idle, KeyOps
    <2>2. <<>> \in Seq(Client)
      OBVIOUS
    <2>3. str' \in [Key -> Seq(Client)]
      BY <2>1, <2>2 DEF IInv, TypeOK
    <2>4. empty' \in [Key -> BOOLEAN]
      BY <2>1 DEF IInv, TypeOK
    <2> QED  BY <2>3, <2>4 DEF IInv, TypeOK, Labels
  <1>2. OnlyDeleteCutsOff'
    BY <1>1 DEF IInv, OnlyDeleteCutsOff
  <1>3. Serving'
    <2>1. \E l \in Labels \ Idle : pc' = [pc EXCEPT ![t] = l]
      BY DEF Labels, Idle
    <2> QED  BY <2>1 DEF IInv, TypeOK, Serving, Idle
  <1>4. Queued'
    BY DEF IInv, Queued
  <1>5. Handling'
    BY DEF IInv, TypeOK, Handling, Asked, Op
  <1>6. Mutexes'
    BY DEF IInv, TypeOK, Mutexes, LockOrder, K, K2, Serving, Idle
  <1>7. Signals'
    <2>1. WokenWorkers' = WokenWorkers
      BY DEF IInv, TypeOK, WokenWorkers
    <2> QED  BY <2>1 DEF IInv, Signals
  <1>8. PresentHasValue'
    BY DEF IInv, TypeOK, PresentHasValue
  <1> QED  BY <1>1, <1>2, <1>3, <1>4, <1>5, <1>6, <1>7, <1>8 DEF IInv

LEMMA ClearTurnIInv ==
  ASSUME IInv, NEW t \in Worker, ClearTurn(t)
  PROVE  IInv'
  <1> USE KeyFacts DEF ClearTurn, Goto, Send, RemoveTest, poolVars, dictVars, procVars
  <1>1. TypeOK'
    BY DEF IInv, TypeOK, Labels
  <1>2. OnlyDeleteCutsOff'
    BY <1>1 DEF IInv, OnlyDeleteCutsOff
  <1>3. Serving'
    BY DEF IInv, TypeOK, Serving, Idle
  <1>4. Queued'
    BY DEF IInv, Queued
  <1>5. Handling'
    BY DEF IInv, Handling, Asked, Op
  <1>6. Mutexes'
    BY DEF IInv, Mutexes, LockOrder, K, K2
  <1>7. Signals'
    <2>1. WokenWorkers' = WokenWorkers
      BY DEF IInv, TypeOK, WokenWorkers
    <2> QED  BY <2>1 DEF IInv, Signals
  <1>8. PresentHasValue'
    BY DEF IInv, PresentHasValue
  <1> QED  BY <1>1, <1>2, <1>3, <1>4, <1>5, <1>6, <1>7, <1>8 DEF IInv

LEMMA ClearLockedIInv ==
  ASSUME IInv, NEW t \in Worker, ClearLocked(t)
  PROVE  IInv'
  <1> USE KeyFacts DEF ClearLocked, Goto, Send, RemoveLocked, poolVars, dictVars, procVars
  <1>1. TypeOK'
    <2>1. idx[t] \in Key /\ idx[t] + 1 \in 0..NKeys
      BY DEF IInv, TypeOK, Handling
    <2>2. <<>> \in Seq(Client)
      OBVIOUS
    <2>3. str' \in [Key -> Seq(Client)] /\ empty' \in [Key -> BOOLEAN]
      BY <2>1, <2>2 DEF IInv, TypeOK
    <2> QED  BY <2>1, <2>3 DEF IInv, TypeOK, Labels
  <1>2. OnlyDeleteCutsOff'
    BY <1>1 DEF IInv, OnlyDeleteCutsOff
  <1>3. Serving'
    BY DEF IInv, TypeOK, Serving, Idle
  <1>4. Queued'
    BY DEF IInv, Queued
  <1>5. Handling'
    BY DEF IInv, TypeOK, Handling, Asked, Op
  <1>6. Mutexes'
    BY DEF IInv, TypeOK, Mutexes, LockOrder, K, K2
  <1>7. Signals'
    <2>1. WokenWorkers' = WokenWorkers
      BY DEF IInv, TypeOK, WokenWorkers
    <2> QED  BY <2>1 DEF IInv, Signals
  <1>8. PresentHasValue'
    BY DEF IInv, TypeOK, PresentHasValue
  <1> QED  BY <1>1, <1>2, <1>3, <1>4, <1>5, <1>6, <1>7, <1>8 DEF IInv

LEMMA ClearDoneIInv ==
  ASSUME IInv, NEW t \in Worker, ClearDone(t)
  PROVE  IInv'
  <1> USE KeyFacts DEF ClearDone, Goto, Send, poolVars, dictVars, procVars
  <1>1. TypeOK'
    BY DEF IInv, TypeOK, Labels, Answers
  <1>2. OnlyDeleteCutsOff'
    BY <1>1 DEF IInv, TypeOK, OnlyDeleteCutsOff, Serving, Idle
  <1>3. Serving'
    BY DEF IInv, TypeOK, Serving, Idle
  <1>4. Queued'
    BY DEF IInv, Queued
  <1>5. Handling'
    <2>1. cur[t] \in Client
      BY DEF IInv, TypeOK, Serving, Idle
    <2>2. ASSUME NEW u \in Worker, u # t PROVE Handling!(u)'
      <3>1. cur[u] # NoOne => answer'[cur[u]] = answer[cur[u]]
        BY <2>1, <2>2 DEF IInv, TypeOK, Serving
      <3>2. pc'[u] = pc[u]
        BY <2>2 DEF IInv, TypeOK
      <3> QED  BY <3>1, <3>2 DEF IInv, Handling, Asked, Op, Serving, Idle
    <2>3. pc'[t] = "close" /\ answer'[cur[t]] # "none"
      BY <2>1 DEF IInv, TypeOK
    <2> QED  BY <2>2, <2>3 DEF Handling
  <1>6. Mutexes'
    BY DEF IInv, Mutexes, LockOrder, K, K2
  <1>7. Signals'
    <2>1. WokenWorkers' = WokenWorkers
      BY DEF IInv, TypeOK, WokenWorkers
    <2> QED  BY <2>1 DEF IInv, Signals
  <1>8. PresentHasValue'
    BY DEF IInv, PresentHasValue
  <1> QED  BY <1>1, <1>2, <1>3, <1>4, <1>5, <1>6, <1>7, <1>8 DEF IInv

LEMMA CloseIInv ==
  ASSUME IInv, NEW t \in Worker, Close(t)
  PROVE  IInv'
  <1> USE KeyFacts DEF Close, Goto, dictVars, procVars
  <1>1. TypeOK'
    BY DEF IInv, TypeOK, Labels
  <1>2. OnlyDeleteCutsOff'
    BY <1>1 DEF IInv, TypeOK, OnlyDeleteCutsOff, Handling, Asked, Op, Serving, Idle, Queued
  <1>3. Serving'
    BY DEF IInv, TypeOK, Serving, Idle
  <1>4. Queued'
    BY DEF IInv, TypeOK, Queued, Serving
  <1>5. Handling'
    BY DEF IInv, TypeOK, Handling, Asked, Op
  <1>6. Mutexes'
    BY DEF IInv, TypeOK, Mutexes, LockOrder, K, K2
  <1>7. Signals'
    <2>1. WokenWorkers' = WokenWorkers
      BY DEF IInv, TypeOK, WokenWorkers
    <2> QED  BY <2>1 DEF IInv, Signals
  <1>8. PresentHasValue'
    BY DEF IInv, PresentHasValue
  <1> QED  BY <1>1, <1>2, <1>3, <1>4, <1>5, <1>6, <1>7, <1>8 DEF IInv

LEMMA StutterIInv ==
  ASSUME IInv, UNCHANGED vars
  PROVE  IInv'
  <1> USE DEF vars, poolVars, dictVars, procVars
  <1>1. TypeOK' /\ OnlyDeleteCutsOff' /\ PresentHasValue'
    BY DEF IInv, TypeOK, OnlyDeleteCutsOff, PresentHasValue
  <1>2. Serving' /\ Queued'
    BY DEF IInv, Serving, Queued
  <1>3. Handling' /\ Mutexes'
    BY DEF IInv, Handling, Asked, Op, Mutexes, LockOrder, K, K2
  <1>4. Signals'
    BY DEF IInv, Signals, WokenWorkers
  <1> QED  BY <1>1, <1>2, <1>3, <1>4 DEF IInv

LEMMA InitIInv == Init => IInv
  <1> SUFFICES ASSUME Init PROVE IInv
    OBVIOUS
  <1> USE KeyFacts DEF Init
  <1>1. TypeOK
    <2>1. <<>> \in Seq(Client) /\ 0 \in 0..NKeys
      OBVIOUS
    <2>2. str \in [Key -> Seq(Client)] /\ idx \in [Worker -> 0..NKeys]
      BY <2>1
    <2>3. empty \in [Key -> BOOLEAN] /\ alive \in BOOLEAN
      BY Zenon
    <2>4. queue \in Seq(Client)
      OBVIOUS
    <2>5. spurious \in 0..MaxSpurious
      BY KvAssumption
    <2> QED  BY <2>2, <2>3, <2>4, <2>5 DEF TypeOK, Labels, Answers
  <1>2. OnlyDeleteCutsOff /\ Serving /\ Queued /\ Handling /\ Mutexes /\ PresentHasValue
    BY <1>1 DEF OnlyDeleteCutsOff, Serving, Idle, Queued, Handling, Mutexes, PresentHasValue
  <1>3. Signals
    <2>1. WokenWorkers = {}
      BY DEF WokenWorkers
    <2> QED  BY <2>1, FS_EmptySet DEF Signals
  <1> QED  BY <1>1, <1>2, <1>3 DEF IInv

LEMMA NextIInv == IInv /\ [Next]_vars => IInv'
  <1> SUFFICES ASSUME IInv, [Next]_vars PROVE IInv'
    OBVIOUS
  <1>1. CASE UNCHANGED vars
    BY <1>1, StutterIInv
  <1>2. ASSUME NEW c \in Client, Accept(c) \/ ReadNothing(c) PROVE IInv'
    BY <1>2, AcceptIInv, ReadNothingIInv
  <1>3. CASE Signal
    BY <1>3, SignalIInv
  <1>4. ASSUME NEW t \in Worker, Work(t), down = "no" PROVE IInv'
    BY <1>4, CondWaitIInv, SpuriousWakeupIInv, PopIInv, PopNothingIInv, ParsedIInv,
       FatalIInv, ReadAbortsIInv, CheckIInv,
       CheckThisIInv, InsertIInv, UpdateIInv, ConcatLockIInv, ConcatIInv, GetIInv,
       DeleteIInv, ClearTurnIInv, ClearLockedIInv, ClearDoneIInv, CloseIInv DEF Work
  <1>5. \/ UNCHANGED vars
        \/ \E c \in Client : Accept(c) \/ ReadNothing(c)
        \/ Signal
        \/ down = "no" /\ \E t \in Worker : Work(t)
    BY Zenon DEF Next
  <1> QED  BY <1>1, <1>2, <1>3, <1>4, <1>5

\* IInv holds in every state that the server and its clients reach.
THEOREM Invariance == Spec => []IInv
  BY InitIInv, NextIInv, PTL DEF Spec

\* Whatever the requests, a connection is closed without an answer only after a
\* "delete" of a key that was there, which is also all that ends the client; an
\* exception ends the server for a request that does not parse or for a client
\* that ended so, and what is undefined follows a key outside the dictionary or
\* a spurious wakeup.
THEOREM AnswersSent == Spec => []OnlyDeleteCutsOff
  <1>1. IInv => OnlyDeleteCutsOff
    BY DEF IInv
  <1> QED  BY <1>1, Invariance, PTL

\* For any number of workers and connections, no more workers go to pop than
\* there are requests and wakeups that no signal accounts for.
THEOREM EmptyPopsSpurious == Spec => []NoEmptyPop
  <1>1. IInv => NoEmptyPop
    <2> SUFFICES ASSUME IInv PROVE NoEmptyPop
      OBVIOUS
    <2>1. Cardinality(WokenWorkers) \in Nat /\ Len(queue) \in Nat /\ spurious \in Nat
      BY FS_CardinalityType, KvAssumption DEF IInv, Signals, TypeOK
    <2>2. Cardinality(WokenWorkers) <= Len(queue) + spurious
      BY <2>1 DEF IInv, Signals
    <2> QED  BY <2>2 DEF NoEmptyPop, WokenWorkers
  <1> QED  BY <1>1, Invariance, PTL

\* A key that is present has a value, however the unlocked tests of `empty'
\* interleave with the critical sections.
THEOREM PresentKeys == Spec => []PresentHasValue
  <1>1. IInv => PresentHasValue
    BY DEF IInv
  <1> QED  BY <1>1, Invariance, PTL

\* In a set of workers none waits for a mutex that another holds: the one that
\* has the greatest mutex of those held, wants a greater one.
LEMMA SomeoneGoesOn ==
  ASSUME IInv, NEW S \in SUBSET Worker, S # {}
  PROVE  \E t \in S : \A u \in S : Wants(t) \cap Holds(u) = {}
  <1> DEFINE B == {t \in S : pc[t] = "lock2"}
             First == {LockOrder(t)[1] : t \in B}
  <1>1. CASE B # S
    <2>1. PICK t \in S : pc[t] # "lock2"
      BY <1>1
    <2> QED  BY <2>1 DEF Wants
  <1>2. CASE B = S
    <2>1. \A t \in B : K(t) \in Key /\ K2(t) \in Key
      BY AskedKeys DEF IInv, Handling, KeyOps
    <2>2. First \in SUBSET Key /\ First # {}
      BY <1>2, <2>1, LockOrderFacts
    <2> HIDE DEF First
    <2>3. PICK k \in First : \A l \in First : l <= k
      BY <2>2, GreatestKey
    <2>4. PICK t \in B : k = LockOrder(t)[1]
      BY <2>3 DEF First
    <2>5. ASSUME NEW u \in S, NEW l \in Wants(t) \cap Holds(u) PROVE FALSE
      <3>1. l = LockOrder(t)[2] /\ K(t) # K2(t) /\ l \in Key /\ lock[l] = u
        BY <2>5 DEF Wants, Holds
      <3>2. l = LockOrder(u)[1] /\ u \in B
        BY <3>1, <1>2 DEF IInv, Mutexes
      <3>3. l <= k /\ k \in Key
        BY <3>2, <2>2, <2>3 DEF First
      <3>4. k < l
        BY <3>1, <2>1, <2>4, LockOrderFacts
      <3> QED  BY <3>1, <3>3, <3>4, KeyFacts
    <2> QED  BY <2>4, <2>5
  <1> QED  BY <1>1, <1>2

\* No workers wait for each other's mutexes in a circle, for any number of
\* workers and keys.
THEOREM MutexesOrdered == Spec => []NoLockCycle
  <1>1. IInv => NoLockCycle
    BY SomeoneGoesOn DEF NoLockCycle
  <1> QED  BY <1>1, Invariance, PTL

-----------------------------------------------------------------------------
(***************************************************************************)
(* The stadium                                                             *)
(***************************************************************************)

Trying == \A p \in Persons : try[p] <= Len(ZonesOf[TypeOf[p]])

SeatsIInv == SeatsAccounted /\ Trying

Seated == {"seated", "watching", "goal", "leave"}
InZone(z) == {p \in Persons : zone_id[p] = z}

-----------------------------------------------------------------------------
LEMMA NoZoneIsNone == NoZone \notin Zones
  BY DEF NoZone, Zones

\* The lists of zones name zones only.
LEMMA ZoneLists ==
  ASSUME NEW p \in Persons
  PROVE  LET zones == ZonesOf[TypeOf[p]]
         IN /\ Len(zones) \in 1..3
            /\ \A i \in 1..Len(zones) : zones[i] \in Zones /\ zones[i] \in Range(zones)
<1>1. TypeOf[p] \in {"H", "N", "A"}
  BY StadiumAssumption
<1>2. CASE TypeOf[p] = "H"
  BY <1>2 DEF ZonesOf, Zones, Range
<1>3. CASE TypeOf[p] = "N"
  BY <1>3 DEF ZonesOf, Zones, Range
<1>4. CASE TypeOf[p] = "A"
  BY <1>4 DEF ZonesOf, Zones, Range
<1> QED
  BY <1>1, <1>2, <1>3, <1>4

LEMMA InZoneFinite ==
  ASSUME NEW z
  PROVE  IsFiniteSet(InZone(z)) /\ Cardinality(InZone(z)) \in Nat
<1>1. InZone(z) \in SUBSET Persons
  BY DEF InZone
<1> QED
  BY <1>1, FS_Subset, FS_CardinalityType, StadiumAssumption

LEMMA InitSeatsIInv == StadiumInit => SeatsIInv
<1> SUFFICES ASSUME StadiumInit PROVE SeatsIInv
  OBVIOUS
<1> USE DEF StadiumInit
<1>1. StadiumTypeOK
  <2>1. total \in Nat
    BY StadiumAssumption, FS_CardinalityType
  <2>2. joined \in 0..total
    BY <2>1
  <2>3. goals \in [{"H", "N", "A"} -> Int]
    OBVIOUS
  <2>4. done \in BOOLEAN /\ expired \subseteq Persons
    BY Zenon
  <2>5. capacity \in [Zones -> Nat]
    BY StadiumAssumption
  <2> QED
    BY <2>2, <2>3, <2>4, <2>5 DEF StadiumTypeOK
<1>2. \A z \in Zones : InZone(z) = {}
  BY NoZoneIsNone DEF InZone
<1>3. \A z \in Zones : Cardinality(InZone(z)) = 0
  BY <1>2, FS_EmptySet
<1>4. SeatsAccounted
  <2>1. \A z \in Zones : seating_capacity[z] \in Nat /\ zone[z] # "held"
    BY StadiumAssumption
  <2>2. \A z \in Zones :
          capacity[z] + Cardinality(InZone(z)) + (IF zone[z] = "held" THEN 1 ELSE 0)
            = seating_capacity[z]
    BY <1>3, <2>1
  <2> QED
    BY <1>1, <2>2 DEF SeatsAccounted, InZone
<1>5. Trying
  BY ZoneLists DEF Trying
<1> QED
  BY <1>4, <1>5 DEF SeatsIInv

\* A step in which nobody takes or gives back a seat.
LEMMA NoSeatMoves ==
  ASSUME SeatsIInv, StadiumTypeOK', Trying', UNCHANGED <<capacity, zone_id>>,
         \A z \in Zones : zone'[z] = "held" <=> zone[z] = "held",
         \A p \in Persons : person'[p] # "killed" =>
            person[p] # "killed" /\ (person'[p] \in Seated <=> person[p] \in Seated)
  PROVE  SeatsIInv'
<1>1. \A z \in Zones : InZone(z)' = InZone(z)
  BY DEF InZone
<1> QED
  BY <1>1 DEF SeatsIInv, SeatsAccounted, InZone, Seated

\* A spectator takes a seat that was free or frees the one he had.
LEMMA SeatsBalance ==
  ASSUME SeatsIInv, StadiumTypeOK', Trying', zone' = zone, NEW p \in Persons,
         \A z \in Zones :
           capacity'[z] + Cardinality(InZone(z)') = capacity[z] + Cardinality(InZone(z)),
         \A q \in Persons : q # p => zone_id'[q] = zone_id[q] /\ person'[q] = person[q],
         \/ person'[p] = "seated" /\ zone_id'[p] # NoZone
                              /\ zone_id'[p] \in Range(ZonesOf[TypeOf[p]])
         \/ person'[p] = "gone" /\ zone_id'[p] = NoZone
  PROVE  SeatsIInv'
<1>1. \A z \in Zones :
        capacity'[z] + Cardinality(InZone(z)') + (IF zone'[z] = "held" THEN 1 ELSE 0)
          = seating_capacity[z]
  BY DEF SeatsIInv, SeatsAccounted, InZone
<1>2. \A q \in Persons :
        /\ person'[q] # "killed" =>
             (zone_id'[q] # NoZone <=> person'[q] \in {"seated", "watching", "goal", "leave"})
        /\ zone_id'[q] # NoZone => zone_id'[q] \in Range(ZonesOf[TypeOf[q]])
  BY DEF SeatsIInv, SeatsAccounted
<1> QED
  BY <1>1, <1>2 DEF SeatsIInv, SeatsAccounted, InZone

\* One spectator goes on without a seat, or with the one he has.
LEMMA PersonMoves ==
  ASSUME SeatsIInv, NEW p \in Persons, NEW to, Goes(p, to), person[p] # "killed",
         to \in {"reached", "waiting", "try", "seated", "watching", "leave", "gone"},
         to \in Seated <=> person[p] \in Seated,
         expired' \subseteq Persons, UNCHANGED <<try, zone_id, invalid>>, OnlyPersons
  PROVE  SeatsIInv'
<1> USE DEF OnlyPersons, mainVars, Goes
<1>1. StadiumTypeOK'
  BY DEF SeatsIInv, SeatsAccounted, StadiumTypeOK
<1>2. Trying'
  BY DEF SeatsIInv, Trying
<1>3. \A q \in Persons : person'[q] = IF q = p THEN to ELSE person[q]
  BY DEF SeatsIInv, SeatsAccounted, StadiumTypeOK
<1> QED
  BY <1>1, <1>2, <1>3, NoSeatMoves

LEMMA ExpireIInv ==
  ASSUME SeatsIInv, NEW p \in Persons, Expire(p)
  PROVE  SeatsIInv'
<1> USE DEF Expire, OnlyPersons, mainVars
<1>1. StadiumTypeOK' /\ Trying'
  BY DEF SeatsIInv, SeatsAccounted, StadiumTypeOK, Trying
<1> QED
  BY <1>1, NoSeatMoves

LEMMA WaitingIInv ==
  ASSUME SeatsIInv, NEW p \in Persons,
         \/ Reach(p) \/ Wait(p) \/ NoSeat(p) \/ WaitReturns(p)
         \/ Watch(p) \/ TimeUp(p) \/ CheckGoals(p)
  PROVE  SeatsIInv'
<1>1. expired \subseteq Persons
  BY DEF SeatsIInv, SeatsAccounted, StadiumTypeOK
<1>2. CASE Reach(p) \/ NoSeat(p) \/ WaitReturns(p) \/ TimeUp(p)
  BY <1>1, <1>2, PersonMoves DEF Reach, NoSeat, WaitReturns, TimeUp, Seated
<1>3. CASE Wait(p)
  BY <1>1, <1>3, PersonMoves DEF Wait, Seated
<1>4. CASE Watch(p)
  BY <1>1, <1>4, PersonMoves DEF Watch, Seated
<1>5. CASE CheckGoals(p)
  BY <1>1, <1>5, PersonMoves DEF CheckGoals, Seated
<1> QED
  BY <1>2, <1>3, <1>4, <1>5

\* sem_trywait() succeeds only with a free seat, which is the spectator's then.
LEMMA TrySeatIInv ==
  ASSUME SeatsIInv, NEW p \in Persons, TrySeat(p)
  PROVE  SeatsIInv'
<1> DEFINE zones == ZonesOf[TypeOf[p]]
<1> USE DEF mainVars
<1>1. /\ try[p] \in 1..Len(zones) /\ Len(zones) \in 1..3
      /\ zones[try[p]] \in Zones /\ zones[try[p]] \in Range(zones)
  BY ZoneLists DEF SeatsIInv, Trying, SeatsAccounted, StadiumTypeOK
<1>2. PICK z \in Zones : z = zones[try[p]] /\ z \in Range(zones)
  BY <1>1
<1>3. person[p] = "try" /\ zone_id[p] = NoZone /\ UNCHANGED <<goals, invalid, zone, chance, mainVars>>
  BY DEF TrySeat, SeatsIInv, SeatsAccounted
<1>4. \/ /\ capacity[z] > 0
         /\ capacity' = [capacity EXCEPT ![z] = @ - 1]
         /\ zone_id' = [zone_id EXCEPT ![p] = z]
         /\ try' = [try EXCEPT ![p] = 1]
         /\ expired' = expired \ {p}
         /\ Goes(p, "seated")
      \/ /\ try[p] < Len(zones)
         /\ try' = [try EXCEPT ![p] = @ + 1]
         /\ UNCHANGED <<capacity, zone_id, expired, person>>
      \/ /\ try' = [try EXCEPT ![p] = 1]
         /\ Goes(p, "reached")
         /\ UNCHANGED <<capacity, zone_id, expired>>
  BY <1>2 DEF TrySeat
<1> HIDE DEF zones
<1>5. Trying'
  <2>1. try'[p] <= Len(zones)
    BY <1>1, <1>4 DEF SeatsIInv, SeatsAccounted, StadiumTypeOK
  <2>2. \A q \in Persons : q # p => try'[q] = try[q]
    BY <1>4 DEF SeatsIInv, SeatsAccounted, StadiumTypeOK
  <2> QED
    BY <2>1, <2>2 DEF SeatsIInv, Trying, zones
<1>6. CASE capacity' = capacity
  <2>1. zone_id' = zone_id
    BY <1>2, <1>4, <1>6 DEF SeatsIInv, SeatsAccounted, StadiumTypeOK
  <2>2. StadiumTypeOK'
    <3>1. try' \in [Persons -> 1..4]
      <4>1. try[p] + 1 \in 1..4 \/ ~(try[p] < Len(zones))
        BY <1>1
      <4>2. \E n \in 1..4 : try' = [try EXCEPT ![p] = n]
        BY <1>4, <4>1
      <4> QED
        BY <4>2 DEF SeatsIInv, SeatsAccounted, StadiumTypeOK
    <3>2. expired' \subseteq Persons /\ person' \in [Persons -> {"home", "reached", "waiting",
            "try", "seated", "watching", "goal", "leave", "gone", "killed"}]
      BY <1>4 DEF Goes, SeatsIInv, SeatsAccounted, StadiumTypeOK
    <3> QED
      BY <1>3, <1>6, <2>1, <3>1, <3>2 DEF SeatsIInv, SeatsAccounted, StadiumTypeOK
  <2>3. person' = [person EXCEPT ![p] = "reached"] \/ person' = person
    BY <1>2, <1>4, <1>6 DEF Goes, SeatsIInv, SeatsAccounted, StadiumTypeOK
  <2> QED
    BY <1>3, <1>5, <1>6, <2>1, <2>2, <2>3, NoSeatMoves
       DEF SeatsIInv, SeatsAccounted, StadiumTypeOK, Seated
<1>7. CASE capacity' # capacity
  <2>1. /\ capacity[z] > 0 /\ capacity' = [capacity EXCEPT ![z] = @ - 1]
        /\ zone_id' = [zone_id EXCEPT ![p] = z]
        /\ try' = [try EXCEPT ![p] = 1]
        /\ expired' = expired \ {p} /\ person' = [person EXCEPT ![p] = "seated"]
    BY <1>4, <1>7 DEF Goes
  <2>2. StadiumTypeOK'
    BY <1>2, <1>3, <2>1 DEF SeatsIInv, SeatsAccounted, StadiumTypeOK
  <2>3. \A q \in Persons : zone_id'[q] = IF q = p THEN z ELSE zone_id[q]
    BY <2>1 DEF SeatsIInv, SeatsAccounted, StadiumTypeOK
  <2>4. InZone(z)' = InZone(z) \cup {p} /\ p \notin InZone(z)
    BY <1>2, <1>3, <2>3, NoZoneIsNone DEF InZone
  <2>5. \A y \in Zones : y # z => InZone(y)' = InZone(y)
    BY <1>2, <1>3, <2>3, NoZoneIsNone DEF InZone
  <2>6. Cardinality(InZone(z)') = Cardinality(InZone(z)) + 1
    BY <2>4, InZoneFinite, FS_AddElement
  <2>7. capacity'[z] = capacity[z] - 1 /\ \A y \in Zones : y # z => capacity'[y] = capacity[y]
    BY <1>2, <2>1 DEF SeatsIInv, SeatsAccounted, StadiumTypeOK
  <2>8. \A y \in Zones :
          capacity'[y] + Cardinality(InZone(y)') = capacity[y] + Cardinality(InZone(y))
    <3>1. \A y \in Zones : capacity[y] \in Nat /\ Cardinality(InZone(y)) \in Nat
      BY InZoneFinite DEF SeatsIInv, SeatsAccounted, StadiumTypeOK
    <3> QED
      BY <3>1, <1>2, <2>5, <2>6, <2>7
  <2>9. \A q \in Persons : person'[q] = IF q = p THEN "seated" ELSE person[q]
    BY <2>1 DEF SeatsIInv, SeatsAccounted, StadiumTypeOK
  <2>10. z # NoZone /\ z \in Range(ZonesOf[TypeOf[p]])
    BY <1>2, NoZoneIsNone DEF zones
  <2> QED
    BY <1>3, <1>5, <2>2, <2>3, <2>8, <2>9, <2>10, SeatsBalance
<1> QED
  BY <1>6, <1>7

\* sem_post() of a spectator who leaves.
LEMMA LeaveIInv ==
  ASSUME SeatsIInv, NEW p \in Persons, Leave(p)
  PROVE  SeatsIInv'
<1> USE DEF mainVars
<1>1. PICK z \in Zones : z = zone_id[p] /\ z # NoZone /\ person[p] = "leave"
  BY NoZoneIsNone DEF Leave, SeatsIInv, SeatsAccounted, StadiumTypeOK
<1>2. /\ capacity' = [capacity EXCEPT ![z] = @ + 1]
      /\ zone_id' = [zone_id EXCEPT ![p] = NoZone]
      /\ person' = [person EXCEPT ![p] = "gone"]
      /\ expired' = expired \ {p}
      /\ UNCHANGED <<goals, try, invalid, zone, chance, mainVars>>
  BY <1>1 DEF Leave, Goes
<1>3. StadiumTypeOK' /\ Trying'
  BY <1>1, <1>2 DEF SeatsIInv, SeatsAccounted, StadiumTypeOK, Trying
<1>4. \A q \in Persons : /\ zone_id'[q] = IF q = p THEN NoZone ELSE zone_id[q]
                         /\ person'[q] = IF q = p THEN "gone" ELSE person[q]
  BY <1>2 DEF SeatsIInv, SeatsAccounted, StadiumTypeOK
<1>5. InZone(z)' = InZone(z) \ {p} /\ p \in InZone(z)
  BY <1>1, <1>4 DEF InZone
<1>6. \A y \in Zones : y # z => InZone(y)' = InZone(y)
  BY <1>1, <1>4, NoZoneIsNone DEF InZone
<1>7. Cardinality(InZone(z)') = Cardinality(InZone(z)) - 1
  BY <1>5, InZoneFinite, FS_RemoveElement
<1>8. capacity'[z] = capacity[z] + 1 /\ \A y \in Zones : y # z => capacity'[y] = capacity[y]
  BY <1>1, <1>2 DEF SeatsIInv, SeatsAccounted, StadiumTypeOK
<1>9. \A y \in Zones :
        capacity'[y] + Cardinality(InZone(y)') = capacity[y] + Cardinality(InZone(y))
  <2>1. \A y \in Zones : capacity[y] \in Nat /\ Cardinality(InZone(y)) \in Nat
    BY InZoneFinite DEF SeatsIInv, SeatsAccounted, StadiumTypeOK
  <2> QED
    BY <2>1, <1>1, <1>6, <1>7, <1>8
<1> QED
  BY <1>1, <1>2, <1>3, <1>4, <1>9, SeatsBalance DEF Seated

\* The thread of a zone has one of its seats between sem_wait() and sem_post().
LEMMA ZoneThreadIInv ==
  ASSUME SeatsIInv, NEW z \in Zones, SemWait(z) \/ SemPost(z)
  PROVE  SeatsIInv'
<1> USE DEF mainVars, personVars
<1>1. UNCHANGED <<goals, personVars, chance, mainVars>>
  BY DEF SemWait, SemPost
<1>2. \A y \in Zones : capacity[y] \in Nat
  BY DEF SeatsIInv, SeatsAccounted, StadiumTypeOK
<1>3. \/ /\ capacity[z] > 0 /\ capacity' = [capacity EXCEPT ![z] = @ - 1]
         /\ zone[z] = "wait" /\ zone' = [zone EXCEPT ![z] = "held"]
      \/ /\ capacity' = [capacity EXCEPT ![z] = @ + 1]
         /\ zone[z] = "held" /\ zone' = [zone EXCEPT ![z] = "signal"]
  BY DEF SemWait, SemPost
<1>4. StadiumTypeOK' /\ Trying'
  BY <1>1, <1>2, <1>3 DEF SeatsIInv, SeatsAccounted, StadiumTypeOK, Trying
<1>5. \A y \in Zones : InZone(y)' = InZone(y) /\ Cardinality(InZone(y)) \in Nat
  BY <1>1, InZoneFinite DEF InZone
<1>6. \A y \in Zones : capacity'[y] + (IF zone'[y] = "held" THEN 1 ELSE 0)
                         = capacity[y] + (IF zone[y] = "held" THEN 1 ELSE 0)
  BY <1>2, <1>3 DEF SeatsIInv, SeatsAccounted, StadiumTypeOK
<1>7. \A y \in Zones :
        capacity'[y] + Cardinality(InZone(y)') + (IF zone'[y] = "held" THEN 1 ELSE 0)
          = seating_capacity[y]
  <2>1. \A y \in Zones :
          capacity[y] + Cardinality(InZone(y)) + (IF zone[y] = "held" THEN 1 ELSE 0)
            = seating_capacity[y]
    BY DEF SeatsIInv, SeatsAccounted, InZone
  <2>2. \A y \in Zones : capacity'[y] \in Nat
    BY <1>4 DEF StadiumTypeOK
  <2> QED
    BY <1>2, <1>5, <1>6, <2>1, <2>2
<1> QED
  BY <1>1, <1>4, <1>7 DEF SeatsIInv, SeatsAccounted, InZone

LEMMA SignalFansIInv ==
  ASSUME SeatsIInv, NEW z \in Zones, SignalFans(z)
  PROVE  SeatsIInv'
<1> USE DEF mainVars
<1>1. UNCHANGED <<capacity, goals, try, zone_id, expired, invalid, chance, mainVars>>
  BY DEF SignalFans
<1>2. \A p \in Persons : person'[p] = person[p] \/ (person[p] = "waiting" /\ person'[p] = "try")
  BY DEF SignalFans
<1>3. person' \in [Persons -> {"home", "reached", "waiting", "try", "seated",
                           "watching", "goal", "leave", "gone", "killed"}]
  BY DEF SignalFans, SeatsIInv, SeatsAccounted, StadiumTypeOK
<1>4. StadiumTypeOK' /\ Trying'
  BY <1>1, <1>3 DEF SignalFans, SeatsIInv, SeatsAccounted, StadiumTypeOK, Trying
<1>5. \A y \in Zones : zone'[y] = "held" <=> zone[y] = "held"
  BY DEF SignalFans, SeatsIInv, SeatsAccounted, StadiumTypeOK
<1> QED
  BY <1>1, <1>2, <1>4, <1>5, NoSeatMoves DEF Seated

LEMMA TopIInv ==
  ASSUME SeatsIInv, NEW z \in Zones, Top(z)
  PROVE  SeatsIInv'
<1> USE DEF mainVars, personVars
<1>1. StadiumTypeOK' /\ Trying'
  BY DEF Top, SeatsIInv, SeatsAccounted, StadiumTypeOK, Trying
<1>2. \A y \in Zones : zone'[y] = "held" <=> zone[y] = "held"
  BY DEF Top, SeatsIInv, SeatsAccounted, StadiumTypeOK
<1> QED
  BY <1>1, <1>2, NoSeatMoves DEF Top

LEMMA ShotIInv ==
  ASSUME SeatsIInv, NEW g \in Chances, Shot(g)
  PROVE  SeatsIInv'
<1> USE DEF mainVars, personVars
<1>1. TeamOf[g] \in {"H", "A"}
  BY StadiumAssumption
<1>2. StadiumTypeOK' /\ Trying'
  <2>1. goals' \in [{"H", "N", "A"} -> Int]
    BY <1>1 DEF Shot, SeatsIInv, SeatsAccounted, StadiumTypeOK
  <2>2. chance' \in [Chances -> {"start", "scored", "ended"}]
    BY DEF Shot, SeatsIInv, SeatsAccounted, StadiumTypeOK
  <2> QED
    BY <2>1, <2>2 DEF Shot, SeatsIInv, SeatsAccounted, StadiumTypeOK, Trying
<1> QED
  BY <1>2, NoSeatMoves DEF Shot

LEMMA BroadcastIInv ==
  ASSUME SeatsIInv, NEW g \in Chances, Announce(g) \/ JoinChance(g)
  PROVE  SeatsIInv'
<1> USE DEF mainVars
<1>1. UNCHANGED <<capacity, goals, try, zone_id, expired, invalid, zone, total, joined, done>>
  BY DEF Announce, JoinChance
<1>2. \A p \in Persons : person'[p] = IF person[p] = "watching" THEN "goal" ELSE person[p]
  BY DEF Announce, JoinChance, Broadcast
<1>3. person' \in [Persons -> {"home", "reached", "waiting", "try", "seated",
                           "watching", "goal", "leave", "gone", "killed"}]
  BY DEF Announce, JoinChance, Broadcast, SeatsIInv, SeatsAccounted, StadiumTypeOK
<1>4. StadiumTypeOK' /\ Trying'
  BY <1>1, <1>3 DEF Announce, JoinChance, SeatsIInv, SeatsAccounted, StadiumTypeOK, Trying
<1> QED
  BY <1>1, <1>2, <1>4, NoSeatMoves DEF Seated

LEMMA JoinPersonIInv ==
  ASSUME SeatsIInv, JoinPerson
  PROVE  SeatsIInv'
<1> USE DEF personVars
<1>1. total \in Nat
  BY StadiumAssumption, FS_CardinalityType DEF SeatsIInv, SeatsAccounted, StadiumTypeOK
<1>2. joined' \in 0..total
  BY <1>1 DEF JoinPerson, SeatsIInv, SeatsAccounted, StadiumTypeOK
<1>3. StadiumTypeOK' /\ Trying'
  BY <1>2 DEF JoinPerson, SeatsIInv, SeatsAccounted, StadiumTypeOK, Trying
<1> QED
  BY <1>3, NoSeatMoves DEF JoinPerson

LEMMA MainReturnsIInv ==
  ASSUME SeatsIInv, MainReturns
  PROVE  SeatsIInv'
<1> USE DEF MainReturns, mainVars
<1>1. StadiumTypeOK' /\ Trying'
  BY DEF SeatsIInv, SeatsAccounted, StadiumTypeOK, Trying
<1>2. \A p \in Persons : person'[p] # "killed" => person'[p] = "gone" /\ person[p] = "gone"
  OBVIOUS
<1> QED
  BY <1>1, <1>2, NoSeatMoves

LEMMA NextSeatsIInv == SeatsIInv /\ [StadiumNext]_stadiumVars => SeatsIInv'
<1> SUFFICES ASSUME SeatsIInv, [StadiumNext]_stadiumVars PROVE SeatsIInv'
  OBVIOUS
<1>1. ASSUME NEW p \in Persons, PersonStep(p) \/ Expire(p) PROVE SeatsIInv'
  BY <1>1, ExpireIInv, WaitingIInv, TrySeatIInv, LeaveIInv DEF PersonStep
<1>2. ASSUME NEW z \in Zones, ZoneStep(z) PROVE SeatsIInv'
  BY <1>2, TopIInv, ZoneThreadIInv, SignalFansIInv DEF ZoneStep
<1>3. ASSUME NEW g \in Chances, Shot(g) \/ Announce(g) \/ JoinChance(g) PROVE SeatsIInv'
  BY <1>3, ShotIInv, BroadcastIInv
<1>4. CASE JoinPerson \/ MainReturns
  BY <1>4, JoinPersonIInv, MainReturnsIInv
<1>5. CASE UNCHANGED stadiumVars
  <2>1. StadiumTypeOK' /\ Trying'
    BY <1>5 DEF stadiumVars, mainVars, personVars, SeatsIInv, SeatsAccounted, StadiumTypeOK, Trying
  <2> QED
    BY <1>5, <2>1, NoSeatMoves DEF stadiumVars, personVars
<1> QED
  BY <1>1, <1>2, <1>3, <1>4, <1>5 DEF StadiumNext

\* Seats are neither lost nor made, and nobody sits in a zone closed to his
\* team, for any number of spectators, zones' threads and goals (main.c:58-141,
\* 152-176).
THEOREM NoSeatLost == StadiumSpec => []SeatsAccounted
<1>1. SeatsIInv => SeatsAccounted
  BY DEF SeatsIInv
<1>2. StadiumSpec => []SeatsIInv
  BY InitSeatsIInv, NextSeatsIInv, PTL DEF StadiumSpec
<1> QED
  BY <1>1, <1>2, PTL
=============================================================================
