-------------------------------- MODULE MCKv --------------------------------
(***************************************************************************)
(* Instances of KvServer for TLC: two keys, and the sets of requests that  *)
(* the runs draw from.                                                     *)
(***************************************************************************)
EXTENDS KvServer, TLC

Req(op, k) == [op |-> op, key |-> k, key2 |-> k]
Cat(k, k2) == [op |-> "concat", key |-> k, key2 |-> k2]

\* Every operation, on keys that it can share with the others.
EveryOperation ==
  {Req("insert", 0), Req("insert", 1), Req("update", 0), Req("fetch", 0),
   Req("delete", 0), Cat(0, 1), Cat(1, 0), Cat(0, 0), [op |-> "clear"],
   [op |-> "invalid"], [op |-> "malformed"], [op |-> "stray"]}

\* What the strings are made of, and the request and the text of an answer
\* that was given, guide no step and no property.
View ==
  <<conn, queue, main, pc, cur, idx, empty, lock, procVars,
    [k \in Key |-> str[k] # <<>>], [c \in Client |-> answer[c] # "none"],
    [c \in Client |-> IF conn[c] = "closed" /\ answer[c] # "none"
                      THEN NoOne ELSE req[c]]>>

Symmetry == Permutations(Client) \cup Permutations(Worker)
=============================================================================
