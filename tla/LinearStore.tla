----------------------------- MODULE LinearStore ------------------------------
(***************************************************************************)
(* What the sharded server promises its clients for commands whose keys    *)
(* are on one shard: it behaves as one store that takes one request at a   *)
(* time, those of a connection in the order they were sent.                *)
(***************************************************************************)
EXTENDS Integers, Sequences, FiniteSetsExt

CONSTANTS Keys, Vals, DBs, Nil, Conns, Requests,
          CoLocated(_)  \* the keys of the request are on one shard

VARIABLES map, db, todo, replies

vars == <<map, db, todo, replies>>

EmptyTable == [k \in Keys |-> Nil]

Init ==
  /\ map = [d \in DBs |-> EmptyTable]
  /\ db = [c \in Conns |-> 0]
  /\ todo = [c \in Conns |-> <<>>]
  /\ replies = [c \in Conns |-> <<>>]

Ok == [type |-> "ok"]
Err(e) == [type |-> "error", error |-> e]
Int64(n) == [type |-> "integer", int |-> n]

Send(c) ==
  /\ \E r \in Requests : todo' = [todo EXCEPT ![c] = Append(@, r)]
  /\ UNCHANGED <<map, db, replies>>

Reply(c, r) ==
  /\ replies' = [replies EXCEPT ![c] = Append(@, r)]
  /\ todo' = [todo EXCEPT ![c] = Tail(@)]

(* Table t with the keys of r set, each to the last value given for it. *)
AllSet(t, r) ==
  [k \in Keys |-> LET given == {i \in DOMAIN r.keys : r.keys[i] = k}
                  IN  IF given = {} THEN t[k] ELSE r.vals[Max(given)]]

(* The request at the head of the connection takes effect. *)
Do(c) ==
  /\ todo[c] # <<>>
  /\ LET r == Head(todo[c])
         t == map[db[c]]
         at(i) == t[r.keys[i]]
         Becomes(new) == map' = [map EXCEPT ![db[c]] = new]
     IN  \/ /\ r.op = "GET" /\ Reply(c, [type |-> "bulk", value |-> at(1)])
            /\ UNCHANGED <<map, db>>
         \/ /\ r.op = "MGET" /\ Reply(c, [type |-> "array", array |-> [i \in DOMAIN r.keys |-> at(i)]])
            /\ UNCHANGED <<map, db>>
         \/ /\ r.op \in {"SET", "MSET"} /\ Reply(c, Ok)
            /\ Becomes(AllSet(t, r)) /\ UNCHANGED db
         \/ /\ r.op = "MSETNX" /\ CoLocated(r) /\ \A i \in DOMAIN r.keys : at(i) = Nil
            /\ Reply(c, Int64(1)) /\ Becomes(AllSet(t, r)) /\ UNCHANGED db
         \/ /\ r.op = "MSETNX" /\ CoLocated(r) /\ \E i \in DOMAIN r.keys : at(i) # Nil
            /\ Reply(c, Int64(0)) /\ UNCHANGED <<map, db>>
         \/ /\ r.op = "RENAME" /\ CoLocated(r) /\ at(1) # Nil
            /\ Reply(c, Ok)
            /\ Becomes([[t EXCEPT ![r.keys[1]] = Nil] EXCEPT ![r.keys[2]] = at(1)])
            /\ UNCHANGED db
         \/ /\ r.op = "RENAME" /\ CoLocated(r) /\ at(1) = Nil
            /\ Reply(c, Err("no such key")) /\ UNCHANGED <<map, db>>
         \/ /\ r.op \in {"MSETNX", "RENAME"} /\ ~CoLocated(r)
            /\ Reply(c, Err("CROSSSLOT")) /\ UNCHANGED <<map, db>>
         \/ /\ r.op = "SELECT" /\ r.db \in DBs
            /\ Reply(c, Ok) /\ db' = [db EXCEPT ![c] = r.db] /\ UNCHANGED map
         \/ /\ r.op = "SELECT" /\ r.db \notin DBs
            /\ Reply(c, Err("DB index is out of range")) /\ UNCHANGED <<map, db>>

Next == \E c \in Conns : Send(c) \/ Do(c)

Spec == Init /\ [][Next]_vars
=============================================================================
