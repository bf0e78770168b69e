---------------------------- MODULE MCDashTable ------------------------------
(* DashTable on small instances. *)
EXTENDS DashMap, TLC

CONSTANT leaves  \* one of the keys of Crowd

Hash(seg, home, fp) == [seg |-> seg, home |-> home, fp |-> fp]

(* All keys have one home bucket.  Six of them fill it, the next bucket    *)
(* and a stash bucket of two slots each, with one stash item more than     *)
(* there are pointers.  Key `leaves` changes its segment when the table grows.   *)
Crowd == [k \in Keys |-> Hash(IF k = leaves THEN 1 ELSE 0, 0, 0)]
CrowdSymmetry == Permutations(Keys \ {leaves})
DropSome == {{leaves}, Keys}

(* Home buckets next to each other, and equal fingerprints. *)
Neighbours == [k \in Keys |-> Hash(0, k % 2, 0)]

Contents == <<segs, size, job>>
=============================================================================
