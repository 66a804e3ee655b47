------------------------------ MODULE KvServer ------------------------------
(***************************************************************************)
(* The dictionary server of Assignment 5 (Q3/server.cpp): the main thread  *)
(* queues one connection per request and signals a condition variable, a   *)
(* pool of worker threads serves the requests on an array of strings that  *)
(* have a mutex each.  And its client (Q3/client.cpp): one process with a  *)
(* thread per request, that connects, sends and reads the answer; a thread *)
(* that reads none ends the whole process.                                 *)
(*                                                                         *)
(* A critical section on one mutex is one step; concat(), which holds two, *)
(* takes them in two steps.  The flag `empty' is read without the mutex,   *)
(* in a step of its own.                                                   *)
(*                                                                         *)
(* Nothing is said of a server that has done what C++ leaves undefined:    *)
(* the model stops there, and says how that can come about.                *)
(***************************************************************************)
EXTENDS Integers, Sequences, FiniteSets

CONSTANTS Client,    \* threads of the client, one connection each
          Worker,    \* worker threads
          NKeys,     \* size of dict, 100 in the code
          Requests,  \* the requests that clients send
          MaxSpurious, \* bound on wakeups that no signal accounts for
          NoOne      \* "nobody"

Key == 0..(NKeys - 1)

\* Requests after parsing; key2 is the second argument of concat.  "invalid" has
\* a number for its key but no operation, "malformed" has no number where a key
\* is expected, and "stray" names a key that is not in the dictionary.
KeyOps == {"insert", "update", "fetch", "delete", "concat"}
AllRequests == [op : KeyOps, key : Key, key2 : Key] \cup
               [op : {"clear", "invalid", "malformed", "stray"}]

ASSUME KvAssumption ==
  /\ NKeys \in Nat \ {0} /\ MaxSpurious \in Nat
  /\ Requests \subseteq AllRequests
  /\ NoOne \notin Client \cup Worker \cup AllRequests

VARIABLES
  conn,     \* per client: "new", "queued", "served" or "closed"
  req,      \* per client: the request it has sent, or NoOne
  answer,   \* per client: what it was sent
  queue,    \* requestsList.queueInternal
  main,     \* the main thread: "accept" or "signal"
  pc,       \* per worker: where it is
  cur,      \* per worker: the client it serves
  idx,      \* per worker: loop index of "clear"
  str,      \* dict[k].str, as the clients whose values it is made of
  empty,    \* dict[k].empty
  lock,     \* holder of dict[k].lock
  alive,    \* the client process has not called exit(-1)
  down,     \* the server has been ended by an "exception" that nobody catches, or
            \* has done something "undefined"; else "no"
  spurious  \* history: wakeups that no signal accounts for

poolVars == <<conn, req, queue, main>>
dictVars == <<str, empty, lock>>
procVars == <<alive, down, spurious>>
vars == <<poolVars, answer, pc, cur, idx, dictVars, procVars>>

Answers == {"none", "ok", "exists", "missing", "value", "cleared", "invalid"}
Labels == {"start", "wait", "woken", "read", "check", "check_this",
           "lock", "lock2", "get", "remove", "remove_lock", "clear",
           "clear_lock", "close"}

TypeOK ==
  /\ conn \in [Client -> {"new", "queued", "served", "closed"}]
  /\ req \in [Client -> Requests \cup {NoOne}]
  /\ answer \in [Client -> Answers]
  /\ queue \in Seq(Client)
  /\ main \in {"accept", "signal"}
  /\ pc \in [Worker -> Labels]
  /\ cur \in [Worker -> Client \cup {NoOne}]
  /\ idx \in [Worker -> 0..NKeys]
  /\ str \in [Key -> Seq(Client)]
  /\ empty \in [Key -> BOOLEAN]
  /\ lock \in [Key -> Worker \cup {NoOne}]
  /\ alive \in BOOLEAN
  /\ down \in {"no", "exception", "undefined"}
  /\ spurious \in 0..MaxSpurious

Init ==
  /\ conn = [c \in Client |-> "new"]
  /\ req = [c \in Client |-> NoOne]
  /\ answer = [c \in Client |-> "none"]
  /\ queue = <<>>
  /\ main = "accept"
  /\ pc = [t \in Worker |-> "start"]
  /\ cur = [t \in Worker |-> NoOne]
  /\ idx = [t \in Worker |-> 0]
  /\ str = [k \in Key |-> <<>>]
  /\ empty = [k \in Key |-> TRUE]
  /\ lock = [k \in Key |-> NoOne]
  /\ alive = TRUE
  /\ down = "no"
  /\ spurious = 0

-----------------------------------------------------------------------------
(***************************************************************************)
(* The main thread.                                                        *)
(***************************************************************************)

\* connect() of a client thread.  Until it is accepted a connection is seen by
\* nobody, so the thread is as well taken to connect at that moment.
Connects(c) == alive /\ conn[c] = "new"

\* main's accept(), and push under queue_lock.
Accept(c) ==
  /\ main = "accept"
  /\ Connects(c)
  /\ conn' = [conn EXCEPT ![c] = "queued"]
  /\ queue' = Append(queue, c)
  /\ main' = "signal"
  /\ UNCHANGED <<req, answer, pc, cur, idx, dictVars, procVars>>

Waiting == {t \in Worker : pc[t] = "wait"}

\* Mutant: every waiter is woken.
Signal_All ==
  /\ main = "signal"
  /\ main' = "accept"
  /\ pc' = [t \in Worker |-> IF pc[t] = "wait" THEN "woken" ELSE pc[t]]
  /\ UNCHANGED <<conn, req, answer, queue, cur, idx, dictVars, procVars>>

\* pthread_cond_signal(), without cond_lock: wakes one waiter, if there is one,
\* or more, see SpuriousWakeup.
Signal ==
  /\ main = "signal"
  /\ main' = "accept"
  /\ \/ \E t \in Waiting : pc' = [pc EXCEPT ![t] = "woken"]
     \/ Waiting = {} /\ UNCHANGED pc
  /\ UNCHANGED <<conn, req, answer, queue, cur, idx, dictVars, procVars>>

(***************************************************************************)
(* The client process: thread_handler()                                    *)
(***************************************************************************)

\* send_string_on_socket().  The request is seen by the worker that reads it
\* only, so it is chosen there; it may have been sent long before.
SendRequest(c, r) == req' = [req EXCEPT ![c] = r]

\* read_string_from_socket() finds the connection closed and nothing in it: it
\* calls exit(-1), in the name of all the threads.
ReadNothing(c) ==
  /\ alive
  /\ conn[c] = "closed" /\ answer[c] = "none"
  /\ alive' = FALSE
  /\ UNCHANGED <<poolVars, answer, pc, cur, idx, dictVars, down, spurious>>

(***************************************************************************)
(* WorkerThread()                                                          *)
(***************************************************************************)

Goto(t, to) == pc' = [pc EXCEPT ![t] = to]
Op(t) == req[cur[t]].op
K(t) == req[cur[t]].key
K2(t) == req[cur[t]].key2

\* SenderWrapper()
Send(t, a) == answer' = [answer EXCEPT ![cur[t]] = a]

\* pthread_cond_wait(): no condition is tested before or after it.
CondWait(t) ==
  /\ pc[t] = "start"
  /\ Goto(t, "wait")
  /\ UNCHANGED <<poolVars, answer, cur, idx, dictVars, procVars>>

\* pthread_cond_wait() returns although nobody signalled, or because a signal
\* for another waiter woke this one as well: POSIX allows both.
SpuriousWakeup(t) ==
  /\ pc[t] = "wait" /\ spurious < MaxSpurious
  /\ Goto(t, "woken")
  /\ spurious' = spurious + 1
  /\ UNCHANGED <<poolVars, answer, cur, idx, dictVars, alive, down>>

\* The process ends here, or nothing is known of what it does next.
Ends(how) ==
  /\ down' = how
  /\ UNCHANGED <<conn, queue, main, pc, cur, dictVars, alive, spurious>>

\* front() and pop() under queue_lock: undefined of an empty queue.
Pop(t) ==
  /\ pc[t] = "woken"
  /\ queue # <<>>
  /\ queue' = Tail(queue)
  /\ cur' = [cur EXCEPT ![t] = Head(queue)]
  /\ conn' = [conn EXCEPT ![Head(queue)] = "served"]
  /\ Goto(t, "read")
  /\ UNCHANGED <<req, main, answer, idx, dictVars, procVars>>

PopNothing(t) ==
  /\ pc[t] = "woken"
  /\ queue = <<>>
  /\ Ends("undefined")
  /\ UNCHANGED <<req, answer, idx>>

\* read_string_from_socket() waits for the request, which is then parsed: clear
\* first, then the key, then the operation.  stoi() throws what nobody catches,
\* and dict[] does not look at its index.
ReadRequest(t, r) ==
  /\ pc[t] = "read"
  /\ SendRequest(cur[t], r)
  /\ idx' = [idx EXCEPT ![t] = 0]
  /\ IF r.op \in {"malformed", "stray"}
     THEN /\ Ends(IF r.op = "stray" THEN "undefined" ELSE "exception")
          /\ UNCHANGED answer
     ELSE /\ \/ /\ r.op = "invalid"
                /\ Send(t, "invalid")
                /\ Goto(t, "close")
             \/ /\ r.op = "clear"
                /\ Goto(t, "clear")
                /\ UNCHANGED answer
             \/ /\ r.op \in KeyOps
                /\ Goto(t, "check")
                /\ UNCHANGED answer
          /\ UNCHANGED <<conn, queue, main, cur, dictVars, procVars>>

\* The client process ended after connect() and before it sent anything: read()
\* returns 0, and stoi() of the empty string throws.
ReadAborts(t) ==
  /\ pc[t] = "read"
  /\ ~alive
  /\ Ends("exception")
  /\ UNCHANGED <<req, answer, idx>>

\* The test of `empty' that comes first, without the mutex: InsertString(),
\* UpdateString(), the fetch and delete branches, and other of concat().
Check(t) ==
  LET tested == IF Op(t) = "concat" THEN K2(t) ELSE K(t)
  IN /\ pc[t] = "check"
     /\ \/ /\ Op(t) = "insert" /\ ~empty[tested]
           /\ Send(t, "exists")
           /\ Goto(t, "close")
        \/ /\ Op(t) \in {"update", "fetch", "concat"} /\ empty[tested]
           /\ Send(t, "missing")
           /\ Goto(t, "close")
        \/ /\ Op(t) = "delete"
           /\ answer' = IF empty[tested]
                        THEN [answer EXCEPT ![cur[t]] = "missing"] ELSE answer
           /\ Goto(t, "remove")
        \/ /\ IF Op(t) = "insert" THEN empty[tested] ELSE ~empty[tested]
           /\ Op(t) # "delete"
           /\ Goto(t, CASE Op(t) = "fetch" -> "get"
                        [] Op(t) = "concat" -> "check_this"
                        [] OTHER -> "lock")
           /\ UNCHANGED answer
  /\ UNCHANGED <<poolVars, cur, idx, dictVars, procVars>>

\* The second test of concat().
CheckThis(t) ==
  /\ pc[t] = "check_this"
  /\ \/ /\ empty[K(t)]
        /\ Send(t, "missing")
        /\ Goto(t, "close")
     \/ /\ ~empty[K(t)]
        /\ Goto(t, "lock")
        /\ UNCHANGED answer
  /\ UNCHANGED <<poolVars, cur, idx, dictVars, procVars>>

\* InsertString() after its test.
Insert(t) ==
  /\ pc[t] = "lock" /\ Op(t) = "insert"
  /\ lock[K(t)] = NoOne
  /\ str' = [str EXCEPT ![K(t)] = <<cur[t]>>]
  /\ empty' = [empty EXCEPT ![K(t)] = FALSE]
  /\ Send(t, "ok")
  /\ Goto(t, "close")
  /\ UNCHANGED <<poolVars, cur, idx, lock, procVars>>

\* UpdateString() after its test; the answer is read back with GetString().
Update(t) ==
  /\ pc[t] = "lock" /\ Op(t) = "update"
  /\ lock[K(t)] = NoOne
  /\ str' = [str EXCEPT ![K(t)] = <<cur[t]>>]
  /\ Goto(t, "get")
  /\ UNCHANGED <<poolVars, answer, cur, idx, empty, lock, procVars>>

\* Mutant: the mutexes are taken in the order of the arguments.
LockOrder_ByArgument(t) == <<K(t), K2(t)>>

\* The two mutexes of concat(), in the order of their indices.
LockOrder(t) == IF K(t) < K2(t) THEN <<K(t), K2(t)>> ELSE <<K2(t), K(t)>>

ConcatLock(t) ==
  /\ pc[t] = "lock" /\ Op(t) = "concat"
  /\ lock[LockOrder(t)[1]] = NoOne
  /\ lock' = [lock EXCEPT ![LockOrder(t)[1]] = t]
  /\ Goto(t, "lock2")
  /\ UNCHANGED <<poolVars, answer, cur, idx, str, empty, procVars>>

\* Take the second mutex (there is none if the keys are equal), append each
\* string to the other, release both.
Concat(t) ==
  /\ pc[t] = "lock2"
  /\ K(t) # K2(t) => lock[LockOrder(t)[2]] = NoOne
  /\ str' = [str EXCEPT ![K(t)] = str[K(t)] \o str[K2(t)],
                        ![K2(t)] = str[K2(t)] \o str[K(t)]]
  /\ lock' = [lock EXCEPT ![LockOrder(t)[1]] = NoOne]
  /\ Goto(t, "get")
  /\ UNCHANGED <<poolVars, answer, cur, idx, empty, procVars>>

\* GetString() and the answer, for fetch, update and concat.
Get(t) ==
  /\ pc[t] = "get"
  /\ lock[IF Op(t) = "concat" THEN K2(t) ELSE K(t)] = NoOne
  /\ Send(t, "value")
  /\ Goto(t, "close")
  /\ UNCHANGED <<poolVars, cur, idx, dictVars, procVars>>

\* Remove() on key k: test `empty' again, then the critical section.
RemoveTest(t, k, locked, out) ==
  /\ Goto(t, IF empty[k] THEN out ELSE locked)
  /\ UNCHANGED <<poolVars, answer, cur, dictVars, procVars>>

\* Mutant: Remove() forgets the flag.
RemoveLocked_NoFlag(t, k, out) ==
  /\ lock[k] = NoOne
  /\ str' = [str EXCEPT ![k] = <<>>]
  /\ Goto(t, out)
  /\ UNCHANGED <<poolVars, answer, cur, empty, lock, procVars>>

RemoveLocked(t, k, out) ==
  /\ lock[k] = NoOne
  /\ str' = [str EXCEPT ![k] = <<>>]
  /\ empty' = [empty EXCEPT ![k] = TRUE]
  /\ Goto(t, out)
  /\ UNCHANGED <<poolVars, answer, cur, lock, procVars>>

\* The delete branch calls Remove() whatever it found, and answers nothing
\* more.
Delete(t) ==
  /\ \/ pc[t] = "remove" /\ RemoveTest(t, K(t), "remove_lock", "close")
     \/ pc[t] = "remove_lock" /\ RemoveLocked(t, K(t), "close")
  /\ UNCHANGED idx

\* Mutant: the answer is forgotten.
ClearDone_Silent(t) ==
  /\ pc[t] = "clear" /\ idx[t] = NKeys
  /\ Goto(t, "close")
  /\ UNCHANGED <<poolVars, answer, cur, idx, dictVars, procVars>>

\* The clear branch calls Remove() on every key.
ClearTurn(t) ==
  /\ pc[t] = "clear" /\ idx[t] < NKeys
  /\ RemoveTest(t, idx[t], "clear_lock", "clear")
  /\ idx' = [idx EXCEPT ![t] = IF empty[@] THEN @ + 1 ELSE @]

ClearLocked(t) ==
  /\ pc[t] = "clear_lock"
  /\ RemoveLocked(t, idx[t], "clear")
  /\ idx' = [idx EXCEPT ![t] = @ + 1]

ClearDone(t) ==
  /\ pc[t] = "clear" /\ idx[t] = NKeys
  /\ Send(t, "cleared")
  /\ Goto(t, "close")
  /\ UNCHANGED <<poolVars, cur, idx, dictVars, procVars>>

\* close(client_socket_fd), and the next turn of the loop.
Close(t) ==
  /\ pc[t] = "close"
  /\ conn' = [conn EXCEPT ![cur[t]] = "closed"]
  /\ cur' = [cur EXCEPT ![t] = NoOne]
  /\ Goto(t, "start")
  /\ UNCHANGED <<req, answer, queue, main, idx, dictVars, procVars>>

-----------------------------------------------------------------------------

Work(t) ==
  \/ CondWait(t) \/ SpuriousWakeup(t) \/ Pop(t) \/ PopNothing(t)
  \/ (\E r \in Requests : ReadRequest(t, r)) \/ ReadAborts(t)
  \/ Check(t) \/ CheckThis(t) \/ Insert(t) \/ Update(t)
  \/ ConcatLock(t) \/ Concat(t) \/ Get(t) \/ Delete(t)
  \/ ClearTurn(t) \/ ClearLocked(t) \/ ClearDone(t) \/ Close(t)

Next ==
  /\ down = "no"
  /\ \/ \E c \in Client : Accept(c) \/ ReadNothing(c)
     \/ Signal
     \/ \E t \in Worker : Work(t)

Spec == Init /\ [][Next]_vars

-----------------------------------------------------------------------------
(***************************************************************************)
(* Properties.                                                             *)
(***************************************************************************)

\* WorkerThread() calls front() and pop() without asking whether the queue is
\* empty, and without a loop around cond_wait (server.cpp:169-176): wakeups that
\* no signal accounts for, each good for one pop of an empty queue, are all that
\* can bring more workers there than there are requests.  Signals bring none too
\* many: main gives one after each push.
NoEmptyPop ==
  Cardinality({t \in Worker : pc[t] = "woken"}) <= Len(queue) + spurious

\* A key that is present has a value, whichever inserts, updates, removals and
\* concats raced past their unlocked tests of `empty' (server.cpp:39-125).
PresentHasValue == \A k \in Key : ~empty[k] => str[k] # <<>>

\* The mutexes that worker t holds, and the one it waits for meanwhile.
Holds(t) == {k \in Key : lock[k] = t}
Wants(t) ==
  IF pc[t] = "lock2" /\ K(t) # K2(t) THEN {LockOrder(t)[2]} ELSE {}

\* No workers wait for each other in a circle: concat() takes its two mutexes in
\* the order of the indices, whatever the order of its arguments
\* (server.cpp:88-112), so in every set of workers one can go on.
NoLockCycle ==
  \A S \in (SUBSET Worker) \ {{}} :
    \E t \in S : \A u \in S : Wants(t) \cap Holds(u) = {}

\* A connection is closed without an answer only after a "delete" of a key
\* that was there (server.cpp:271-276), and only this ends the client while the
\* server goes on.  An exception ends the server for a request without a number
\* where a key should be (server.cpp:207, 257) or for a client that ended like
\* this between connect and send.  Undefined behaviour comes from a key outside
\* the dictionary or follows a wakeup that no signal accounts for.
OnlyDeleteCutsOff ==
  /\ TypeOK
  /\ \A c \in Client : conn[c] = "closed" /\ answer[c] = "none" =>
       req[c].op = "delete"
  /\ ~alive => \E c \in Client : conn[c] = "closed" /\ answer[c] = "none"
  /\ down = "exception" =>
       ~alive \/ \E c \in Client : req[c] # NoOne /\ req[c].op = "malformed"
  /\ down = "undefined" =>
       spurious > 0 \/ \E c \in Client : req[c] # NoOne /\ req[c].op = "stray"

=============================================================================
