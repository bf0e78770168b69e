------------------------------ MODULE TableMap -------------------------------
(***************************************************************************)
(* What DashTable promises its callers: a map.  A call takes effect at the *)
(* step that returns its reply; retain drops its keys one by one.          *)
(***************************************************************************)
EXTENDS Integers, FiniteSets

CONSTANTS Keys, Vals, Absent

VARIABLES map, last

vars == <<map, last>>

EmptyMap == [k \in Keys |-> Absent]
Domain == {k \in Keys : map[k] # Absent}

Init == map = EmptyMap /\ last = [op |-> "none"]

(* The first two conjuncts are implied by the last, and quicker to decide. *)
Returns(op, k, r) ==
  /\ last'.op = op /\ last'.key = k
  /\ last' = [op |-> op, key |-> k, reply |-> r]

Find(k) == Returns("find", k, map[k]) /\ UNCHANGED map

Insert(k, v) == Returns("insert", k, map[k]) /\ map' = [map EXCEPT ![k] = v]

Remove(k) == Returns("remove", k, map[k]) /\ map' = [map EXCEPT ![k] = Absent]

Iter == last'.op = "iter" /\ last' = [op |-> "iter", reply |-> {<<k, map[k]>> : k \in Domain}] /\ UNCHANGED map

Len == last'.op = "len" /\ last' = [op |-> "len", reply |-> Cardinality(Domain)] /\ UNCHANGED map

Clear == last' = [op |-> "clear"] /\ map' = EmptyMap

Drop(k) == UNCHANGED last /\ map'[k] = Absent /\ map' = [map EXCEPT ![k] = Absent]

Retained == last' = [op |-> "retain"] /\ UNCHANGED map

Next ==
  \/ \E k \in Keys : Find(k) \/ Remove(k) \/ Drop(k) \/ \E v \in Vals : Insert(k, v)
  \/ Iter \/ Len \/ Clear \/ Retained

Spec == Init /\ [][Next]_vars
=============================================================================
