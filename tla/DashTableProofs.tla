--------------------------- MODULE DashTableProofs ---------------------------
(***************************************************************************)
(* Entries stay where find looks for them and size counts them: for every  *)
(* number of buckets, slots, stash buckets, segments and keys and every    *)
(* hash, through growth that succeeds, repeats or panics, and retain.      *)
(* The books a bucket keeps of its stash items never overflow.             *)
(***************************************************************************)
EXTENDS DashTable, FiniteSetTheorems, TLAPS

(* The prover of the leaves that name none. *)
USE ZenonT(40)

TableOK(t) ==
  /\ \E n \in Nat \ {0} : DOMAIN t = 0 .. n - 1
  /\ t = [g \in DOMAIN t |-> t[g]]
  /\ \A g \in DOMAIN t : t[g].slot \in [Pos -> Items \cup {Empty}]

(* An item may be in bucket b of the segment its hash selects. *)
GoodPlace(item, b) ==
  \/ b = home_bucket(item.key) /\ ~item.probing
  \/ b = next_bucket(home_bucket(item.key)) /\ item.probing
  \/ b >= NumBuckets /\ ~item.probing

ItemAt(t, x) == t[x[1]].slot[x[2]]

PlacedIn(t) ==
  \A x \in Entries(t) : x[1] = seg_id(t, ItemAt(t, x).key) /\ GoodPlace(ItemAt(t, x), x[2][1])

(* A growing table has entries of the old one left, and the pair that      *)
(* found no room; retain has entries of the table left to delete.          *)
JobOK ==
  /\ job.what = "grow" =>
       /\ job = [what |-> "grow", key |-> job.key, val |-> job.val, tries |-> job.tries,
                 old |-> job.old, left |-> job.left]
       /\ job.key \in Keys /\ job.val \in Vals
       /\ TableOK(job.old) /\ job.left \subseteq Entries(job.old)
  /\ job.what = "retain" =>
       job = [what |-> "retain", left |-> job.left] /\ job.left \subseteq Entries(segs)

(* What makes Placed and SizeExact inductive: size counts the entries      *)
(* within calls, too.                                                      *)
IInv == TableOK(segs) /\ PlacedIn(segs) /\ size = Cardinality(Entries(segs)) /\ JobOK

-----------------------------------------------------------------------------
(* Least and greatest elements. *)

(* A set of numbers has a least element. *)
LEMMA NatMin ==
  ASSUME NEW T \in SUBSET Nat, T # {}
  PROVE  \E m \in T : \A n \in T : m <= n
<1>1. PICK m \in T : \A n \in T : ~ (<<n, m>> \in OpToRel(<, Nat))
  BY WFMin, NatLessThanWellFounded
<1>2. \A n \in T : ~ (n < m)
  BY <1>1 DEF OpToRel
<1> QED
  BY <1>2, SMTT(30)

(* A set of numbers up to N has a greatest element. *)
LEMMA NatMax ==
  ASSUME NEW N \in Nat, NEW T \in SUBSET (0 .. N), T # {}
  PROVE  \E m \in T : \A n \in T : n <= m
<1> DEFINE U == {N - t : t \in T}
<1>1. U \in SUBSET Nat /\ U # {}
  <2>1. \A t \in T : t \in 0 .. N /\ N - t \in Nat
    BY SMTT(30)
  <2>2. PICK t \in T : TRUE
    OBVIOUS
  <2>3. N - t \in U
    OBVIOUS
  <2> QED
    BY <2>1, <2>3
<1>2. PICK u \in U : \A w \in U : u <= w
  BY <1>1, NatMin
<1>3. PICK m \in T : u = N - m
  BY <1>2
<1>4. \A n \in T : N - m <= N - n
  BY <1>2, <1>3
<1> QED
  BY <1>4, SMTT(30)

(* What Least chooses is in the set. *)
LEMMA LeastIn ==
  ASSUME NEW T \in SUBSET Nat, T # {}
  PROVE  Least(T) \in T
BY NatMin DEF Least

(* Positions are pairs of numbers. *)
LEMMA PosPairs ==
  /\ Pos \subseteq Nat \X Nat
  /\ Pos = (0 .. NumBuckets + NumStash - 1) \X (0 .. NumSlots - 1)
  /\ NumBuckets \in Nat \ {0} /\ NumStash \in Nat \ {0} /\ NumSlots \in Nat \ {0}
BY SegmentAssumption, SMTT(30) DEF Pos, Slots

(* What First chooses, the first slot in table order, is in the set. *)
LEMMA FirstIn ==
  ASSUME NEW P \in SUBSET Pos, P # {}
  PROVE  First(P) \in P
<1>1. P \subseteq Nat \X Nat
  BY PosPairs
<1>2. PICK a \in {p[1] : p \in P} : \A n \in {p[1] : p \in P} : a <= n
  <2>1. {p[1] : p \in P} \in SUBSET Nat /\ {p[1] : p \in P} # {}
    BY <1>1
  <2> QED
    BY <2>1, NatMin
<1> DEFINE Q == {p \in P : p[1] = a}
<1>3. PICK b \in {p[2] : p \in Q} : \A n \in {p[2] : p \in Q} : b <= n
  <2>1. {p[2] : p \in Q} \in SUBSET Nat /\ {p[2] : p \in Q} # {}
    BY <1>1, <1>2
  <2> QED
    BY <2>1, NatMin
<1>4. PICK p \in Q : p[2] = b
  BY <1>3
<1>5. p = <<a, b>> /\ p \in P
  BY <1>1, <1>4, SMTT(30)
<1>6. ASSUME NEW q \in P \ {p} PROVE Before(p, q)
  <2>1. q \in Nat \X Nat /\ a <= q[1] /\ q = <<q[1], q[2]>> /\ a \in Nat /\ b \in Nat
    BY <1>1, <1>2, <1>3, SMTT(30)
  <2>2. CASE q[1] = a
    <3>1. b <= q[2]
      BY <1>3, <2>2
    <3>2. q[2] # b
      BY <1>5, <2>1, <2>2
    <3> QED
      BY <1>5, <2>1, <2>2, <3>1, <3>2, SMTT(30) DEF Before
  <2>3. CASE q[1] # a
    BY <1>5, <2>1, <2>3, SMTT(30) DEF Before
  <2> QED
    BY <2>2, <2>3
<1> QED
  BY <1>5, <1>6 DEF First

(* A set of slots has a last one in table order. *)
LEMMA LastPos ==
  ASSUME NEW P \in SUBSET Pos, P # {}
  PROVE  \E p \in P : \A q \in P \ {p} : Before(q, p)
<1> DEFINE N == NumBuckets + NumStash - 1
           M == NumSlots - 1
<1>0. P \subseteq (0 .. N) \X (0 .. M) /\ N \in Nat /\ M \in Nat
  BY PosPairs, SMTT(30)
<1> HIDE DEF N, M
<1>2. PICK a \in {p[1] : p \in P} : \A n \in {p[1] : p \in P} : n <= a
  <2>1. {p[1] : p \in P} \in SUBSET (0 .. N) /\ {p[1] : p \in P} # {}
    BY <1>0
  <2> QED
    BY <1>0, <2>1, NatMax
<1> DEFINE Q == {p \in P : p[1] = a}
<1>3. PICK b \in {p[2] : p \in Q} : \A n \in {p[2] : p \in Q} : n <= b
  <2>1. {p[2] : p \in Q} \in SUBSET (0 .. M) /\ {p[2] : p \in Q} # {}
    BY <1>0, <1>2
  <2> QED
    BY <1>0, <2>1, NatMax
<1>4. PICK p \in Q : p[2] = b
  BY <1>3
<1>5. p = <<a, b>> /\ p \in P
  BY <1>0, <1>4, SMTT(30)
<1>6. ASSUME NEW q \in P \ {p} PROVE Before(q, p)
  <2>1. q \in Nat \X Nat /\ q[1] <= a /\ q = <<q[1], q[2]>> /\ a \in Nat /\ b \in Nat
    BY <1>0, <1>2, <1>3, SMTT(30)
  <2>2. CASE q[1] = a
    <3>1. q[2] <= b
      BY <1>3, <2>2
    <3>2. q[2] # b
      BY <1>5, <2>1, <2>2
    <3> QED
      BY <1>5, <2>1, <2>2, <3>1, <3>2, SMTT(30) DEF Before
  <2>3. CASE q[1] # a
    BY <1>5, <2>1, <2>3, SMTT(30) DEF Before
  <2> QED
    BY <2>2, <2>3
<1> QED
  BY <1>5, <1>6

-----------------------------------------------------------------------------
(* Slots of a segment. *)

(* A segment has finitely many slots. *)
LEMMA PosFinite == IsFiniteSet(Pos)
<1>1. IsFiniteSet(0 .. NumBuckets + NumStash - 1) /\ IsFiniteSet(0 .. NumSlots - 1)
  BY PosPairs, FS_Interval, SMTT(30)
<1> QED
  BY <1>1, PosPairs, FS_Product

(* A slot that find returns holds the key. *)
LEMMA FindIn ==
  ASSUME NEW sg, NEW k, find(sg, k) # {}
  PROVE  /\ First(find(sg, k)) \in Occupied(sg)
         /\ sg.slot[First(find(sg, k))].key = k
<1> DEFINE own == find_in_bucket(sg, home_bucket(k), FALSE, k)
           probing == find_in_bucket(sg, next_bucket(home_bucket(k)), TRUE, k)
           Q == CASE own # {} -> own
                  [] own = {} /\ probing # {} -> probing
                  [] OTHER -> FindInStash(sg, k)
           Here == {p \in Occupied(sg) : sg.slot[p].key = k}
<1>1. \A b, probe : find_in_bucket(sg, b, probe, k) \subseteq Here
  BY DEF find_in_bucket
<1>2. \A i : InStash(sg, i, k) \subseteq Here
  BY DEF InStash
<1>3. \A b, probe : find_in_stash_via_ptrs(sg, b, probe, k) \subseteq Here
  BY <1>2 DEF find_in_stash_via_ptrs
<1>4. UNION {find_in_bucket(sg, StashBucket(i), FALSE, k) : i \in StashIds} \subseteq Here
  BY <1>1
<1>5. FindInStash(sg, k) \subseteq Here
  <2> HIDE DEF Here
  <2> QED
    BY <1>3, <1>4 DEF FindInStash
<1>6. Q \subseteq Here
  <2> HIDE DEF Here
  <2> QED
    BY <1>1, <1>5
<1>7. find(sg, k) = IF Q = {} THEN {} ELSE {First(Q)}
  BY DEF find
<1> HIDE DEF Q
<1>8. Q # {} /\ find(sg, k) = {First(Q)}
  BY <1>7
<1>9. Q \in SUBSET Pos
  BY <1>6 DEF Occupied
<1>10. First(Q) \in Q
  BY <1>8, <1>9, FirstIn
<1>11. First({First(Q)}) = First(Q)
  BY DEF First
<1> QED
  BY <1>6, <1>8, <1>10, <1>11

(* A new item goes to a free slot of a bucket that find considers. *)
LEMMA InsertNewSlot ==
  ASSUME NEW sg, NEW k \in Keys, NEW v \in Vals, ~Full(sg, k)
  PROVE  \E p \in Pos, probing \in BOOLEAN :
           LET item == [key |-> k, val |-> v, probing |-> probing]
           IN  /\ sg.slot[p] = Empty
               /\ insert_new(sg, k, v).slot = [sg.slot EXCEPT ![p] = item]
               /\ GoodPlace(item, p[1])
<1> DEFINE home == home_bucket(k)
           next == next_bucket(home)
           J == {j \in StashIds : ~is_full(sg, StashBucket(j))}
           i == Least(J)
           It(probing) == [key |-> k, val |-> v, probing |-> probing]
           Goes(p, probing) ==
             /\ sg.slot[p] = Empty
             /\ insert_new(sg, k, v).slot = [sg.slot EXCEPT ![p] = It(probing)]
             /\ GoodPlace(It(probing), p[1])
<1> SUFFICES \E p \in Pos, probing \in BOOLEAN : Goes(p, probing)
  OBVIOUS
<1>0. NumBuckets \in Nat \ {0}
  BY SegmentAssumption
<1>1. ASSUME NEW b, ~is_full(sg, b), NEW probing \in BOOLEAN
      PROVE  /\ First(Free(sg, b)) \in Pos /\ First(Free(sg, b))[1] = b
             /\ sg.slot[First(Free(sg, b))] = Empty
             /\ try_insert(sg, b, k, v, probing).slot = [sg.slot EXCEPT ![First(Free(sg, b))] = It(probing)]
  <2>1. Free(sg, b) \in SUBSET Pos /\ Free(sg, b) # {}
    BY <1>1 DEF is_full, Free, InBucket
  <2>2. First(Free(sg, b)) \in Free(sg, b)
    BY <2>1, FirstIn
  <2>3. \A p \in Free(sg, b) : p \in Pos /\ p[1] = b /\ sg.slot[p] = Empty
    BY DEF Free, InBucket, Occupied
  <2> QED
    BY <2>2, <2>3 DEF try_insert, PutSlot
<1>2. CASE ~is_full(sg, home)
  <2>1. insert_new(sg, k, v) = try_insert(sg, home, k, v, FALSE)
    BY <1>2 DEF insert_new
  <2>2. GoodPlace(It(FALSE), home)
    BY DEF GoodPlace
  <2> HIDE DEF It
  <2>7. First(Free(sg, home)) \in Pos /\ Goes(First(Free(sg, home)), FALSE)
    BY <1>1, <1>2, <2>1, <2>2
  <2> HIDE DEF Goes
  <2> QED
    BY <2>7
<1>3. CASE is_full(sg, home) /\ ~is_full(sg, next)
  <2>1. insert_new(sg, k, v) = try_insert(sg, next, k, v, TRUE)
    BY <1>3 DEF insert_new
  <2>2. GoodPlace(It(TRUE), next)
    BY DEF GoodPlace
  <2> HIDE DEF It
  <2>7. First(Free(sg, next)) \in Pos /\ Goes(First(Free(sg, next)), TRUE)
    BY <1>1, <1>3, <2>1, <2>2
  <2> HIDE DEF Goes
  <2> QED
    BY <2>7
<1>4. CASE is_full(sg, home) /\ is_full(sg, next)
  <2>1. i \in J
    <3>1. J \in SUBSET Nat /\ J # {}
      BY <1>4, SegmentAssumption, SMTT(30) DEF Full, StashIds
    <3> QED
      BY <3>1, LeastIn
  <2>2. ~is_full(sg, StashBucket(i)) /\ StashBucket(i) >= NumBuckets
    BY <1>0, <2>1, SMTT(30) DEF StashBucket, StashIds
  <2> DEFINE new == try_insert(sg, StashBucket(i), k, v, FALSE)
  <2>3. insert_new(sg, k, v) = set_stash_ptr(new, home, i, fingerprint(k), FALSE)
    BY <1>4 DEF insert_new
  <2>4. set_stash_ptr(new, home, i, fingerprint(k), FALSE).slot = new.slot
    <3> HIDE DEF new
    <3> QED
      BY DEF set_stash_ptr, SetPtr, SetOver
  <2>5. GoodPlace(It(FALSE), StashBucket(i))
    BY <2>2 DEF GoodPlace
  <2> HIDE DEF i
  <2>6. new.slot = [sg.slot EXCEPT ![First(Free(sg, StashBucket(i)))] = It(FALSE)]
    BY <1>1, <2>2
  <2> HIDE DEF It
  <2>7. First(Free(sg, StashBucket(i))) \in Pos /\ Goes(First(Free(sg, StashBucket(i))), FALSE)
    BY <1>1, <2>2, <2>3, <2>4, <2>5, <2>6
  <2> HIDE DEF Goes
  <2> QED
    BY <2>7
<1> QED
  BY <1>2, <1>3, <1>4

(* delete empties one slot, whatever it does to the stash pointers. *)
LEMMA DeleteSlot ==
  ASSUME NEW sg, NEW p
  PROVE  delete(sg, p).slot = [sg.slot EXCEPT ![p] = Empty]
<1>1. \A s, b, fp, i : unset_stash_ptr(s, b, fp, i).slot = s.slot
  BY SMTT(30) DEF unset_stash_ptr, SetPtr, SetOver
<1> QED
  BY <1>1, SMTT(30) DEF delete, PutSlot

-----------------------------------------------------------------------------
(* Entries of a table. *)

(* A table has finitely many entries. *)
LEMMA EntriesFinite ==
  ASSUME NEW t, TableOK(t)
  PROVE  IsFiniteSet(Entries(t)) /\ Cardinality(Entries(t)) \in Nat
<1>1. PICK n \in Nat \ {0} : DOMAIN t = 0 .. n - 1
  BY DEF TableOK
<1>2. IsFiniteSet(DOMAIN t)
  BY <1>1, FS_Interval, SMTT(30)
<1>3. IsFiniteSet((DOMAIN t) \X Pos)
  BY <1>2, PosFinite, FS_Product
<1>4. Entries(t) \in SUBSET ((DOMAIN t) \X Pos)
  BY DEF Entries
<1>5. IsFiniteSet(Entries(t))
  BY <1>3, <1>4, FS_Subset
<1> QED
  BY <1>5, FS_CardinalityType

(* The hash of a key selects a segment of the table. *)
LEMMA SegIdIn ==
  ASSUME NEW t, TableOK(t)
  PROVE  /\ Count(t) \in Nat \ {0} /\ DOMAIN t = 0 .. Count(t) - 1
         /\ \A k \in Keys : seg_id(t, k) \in DOMAIN t
<1>1. PICK n \in Nat \ {0} : DOMAIN t = 0 .. n - 1
  BY DEF TableOK
<1>2. Count(t) = n
  BY <1>1, FS_Interval, SMTT(30) DEF Count
<1>3. ASSUME NEW k \in Keys PROVE seg_id(t, k) \in DOMAIN t
  <2>1. Seg(k) \in Nat
    BY SegmentAssumption
  <2>2. Seg(k) % n \in 0 .. n - 1
    BY <2>1, SMTT(30)
  <2> QED
    BY <1>1, <1>2, <2>2 DEF seg_id
<1> QED
  BY <1>1, <1>2, <1>3

(* A table of new segments is well-formed and empty. *)
LEMMA NewTable ==
  ASSUME NEW n \in Nat \ {0}
  PROVE  /\ TableOK(NewSegs(n)) /\ PlacedIn(NewSegs(n))
         /\ Entries(NewSegs(n)) = {} /\ Cardinality(Entries(NewSegs(n))) = 0
<1> DEFINE t == NewSegs(n)
<1>1. DOMAIN t = 0 .. n - 1 /\ t = [g \in DOMAIN t |-> t[g]] /\ \A g \in DOMAIN t : t[g] = NewSegment
  BY DEF NewSegs
<1>2. NewSegment.slot = [p \in Pos |-> Empty]
  BY DEF NewSegment
<1> HIDE DEF t
<1>3. TableOK(t)
  BY <1>1, <1>2 DEF TableOK
<1>4. Entries(t) = {}
  BY <1>1, <1>2, SMTT(30) DEF Entries
<1> QED
  BY <1>3, <1>4, FS_EmptySet DEF t, PlacedIn

(* Table u is table t with one slot of one segment set; it has the item in *)
(* that slot, and everything else where t has it.                          *)
SetsSlot(t, u, g, p, item) ==
  \E sg : u = [t EXCEPT ![g] = sg] /\ sg.slot = [t[g].slot EXCEPT ![p] = item]

DiffersAt(t, u, x0, item) ==
  /\ DOMAIN u = DOMAIN t
  /\ \A k : seg_id(u, k) = seg_id(t, k)
  /\ ItemAt(u, x0) = item
  /\ \A x \in (DOMAIN t) \X Pos : x # x0 => ItemAt(u, x) = ItemAt(t, x)

(* Setting a slot keeps the table well-formed and changes nothing else. *)
LEMMA SetEntry ==
  ASSUME NEW t, TableOK(t), NEW g \in DOMAIN t, NEW p \in Pos,
         NEW item \in Items \cup {Empty}, NEW u, SetsSlot(t, u, g, p, item)
  PROVE  TableOK(u) /\ DiffersAt(t, u, <<g, p>>, item)
<1>0. PICK sg : u = [t EXCEPT ![g] = sg] /\ sg.slot = [t[g].slot EXCEPT ![p] = item]
  BY DEF SetsSlot
<1>1. /\ DOMAIN u = DOMAIN t /\ u = [h \in DOMAIN u |-> u[h]] /\ u[g] = sg
      /\ \A h \in DOMAIN t : h # g => u[h] = t[h]
  BY <1>0 DEF TableOK
<1>2. t[g].slot \in [Pos -> Items \cup {Empty}]
  BY DEF TableOK
<1>3. sg.slot \in [Pos -> Items \cup {Empty}] /\ sg.slot[p] = item
  BY <1>0, <1>2
<1>4. \A q \in Pos : q # p => sg.slot[q] = t[g].slot[q]
  BY <1>0, <1>2
<1>5. TableOK(u)
  BY <1>1, <1>3 DEF TableOK
<1>6. ItemAt(u, <<g, p>>) = item
  BY <1>1, <1>3 DEF ItemAt
<1>7. ASSUME NEW x \in (DOMAIN t) \X Pos, x # <<g, p>> PROVE ItemAt(u, x) = ItemAt(t, x)
  <2>1. x = <<x[1], x[2]>> /\ x[1] \in DOMAIN t /\ x[2] \in Pos
    BY SMTT(30)
  <2>2. CASE x[1] = g
    BY <1>1, <1>4, <1>7, <2>1, <2>2 DEF ItemAt
  <2>3. CASE x[1] # g
    BY <1>1, <2>1, <2>3 DEF ItemAt
  <2> QED
    BY <2>2, <2>3
<1>8. \A k : seg_id(u, k) = seg_id(t, k)
  BY <1>1 DEF seg_id, Count
<1> QED
  BY <1>1, <1>5, <1>6, <1>7, <1>8 DEF DiffersAt

(* Table u is table t with a new pair, and without an entry. *)
Inserts(t, u, k, v) ==
  LET g == seg_id(t, k) IN ~Full(t[g], k) /\ u = [t EXCEPT ![g] = insert_new(t[g], k, v)]

(* Entry x of u is the pair k, v; the other entries are those of t. *)
OneMore(t, u, x, k, v) ==
  /\ Entries(u) = Entries(t) \cup {x} /\ x \notin Entries(t)
  /\ ItemAt(u, x).key = k /\ ItemAt(u, x).val = v

Deletes(t, u, x) == u = [t EXCEPT ![x[1]] = delete(t[x[1]], x[2])]

(* An item in a free slot is one entry more. *)
LEMMA InsertedEntry ==
  ASSUME NEW t, TableOK(t), PlacedIn(t), NEW k \in Keys, NEW v \in Vals,
         NEW u, Inserts(t, u, k, v)
  PROVE  /\ TableOK(u) /\ PlacedIn(u)
         /\ Cardinality(Entries(u)) = Cardinality(Entries(t)) + 1
         /\ \A x \in Entries(t) : x \in Entries(u) /\ ItemAt(u, x) = ItemAt(t, x)
         /\ \E x : OneMore(t, u, x, k, v)
<1> DEFINE g == seg_id(t, k)
           sg == insert_new(t[g], k, v)
<1>0. u = [t EXCEPT ![g] = sg] /\ ~Full(t[g], k)
  BY DEF Inserts
<1>1. g \in DOMAIN t
  BY SegIdIn
<1>2. PICK p \in Pos, probing \in BOOLEAN :
        LET item == [key |-> k, val |-> v, probing |-> probing]
        IN  /\ t[g].slot[p] = Empty
            /\ sg.slot = [t[g].slot EXCEPT ![p] = item]
            /\ GoodPlace(item, p[1])
  BY <1>0, InsertNewSlot
<1> DEFINE item == [key |-> k, val |-> v, probing |-> probing]
           x0 == <<g, p>>
<1>3. item \in Items /\ item.key = k /\ item.val = v /\ item # Empty
  BY SegmentAssumption, SMTT(30) DEF Items
<1>4. sg.slot = [t[g].slot EXCEPT ![p] = item] /\ GoodPlace(item, p[1])
  BY <1>2
<1>5. /\ ItemAt(t, x0) = Empty /\ x0 \in (DOMAIN t) \X Pos
      /\ x0[1] = g /\ x0[2] = p /\ g = seg_id(t, k)
  BY <1>1, <1>2 DEF ItemAt
<1> HIDE DEF g, sg, item
<1>6. /\ TableOK(u) /\ DOMAIN u = DOMAIN t
      /\ \A kk : seg_id(u, kk) = seg_id(t, kk)
      /\ ItemAt(u, x0) = item
      /\ \A x \in (DOMAIN t) \X Pos : x # x0 => ItemAt(u, x) = ItemAt(t, x)
  <2>1. SetsSlot(t, u, g, p, item)
    BY <1>0, <1>4 DEF SetsSlot
  <2>2. TableOK(u) /\ DiffersAt(t, u, x0, item)
    BY <1>1, <1>3, <2>1, SetEntry
  <2> QED
    BY <2>2 DEF DiffersAt
<1> HIDE DEF x0
<1>7. /\ Entries(u) = {x \in (DOMAIN t) \X Pos : ItemAt(u, x) # Empty}
      /\ Entries(t) = {x \in (DOMAIN t) \X Pos : ItemAt(t, x) # Empty}
  BY <1>6 DEF Entries, ItemAt
<1>8. Entries(u) = Entries(t) \cup {x0} /\ x0 \notin Entries(t)
  BY <1>3, <1>5, <1>6, <1>7, SMTT(30)
<1>9. Cardinality(Entries(u)) = Cardinality(Entries(t)) + 1
  BY <1>8, EntriesFinite, FS_AddElement
<1>10. PlacedIn(u)
  <2> SUFFICES ASSUME NEW x \in Entries(u)
               PROVE  x[1] = seg_id(u, ItemAt(u, x).key) /\ GoodPlace(ItemAt(u, x), x[2][1])
    BY DEF PlacedIn
  <2>1. CASE x = x0
    <3>1. ItemAt(u, x) = item /\ x[1] = g /\ x[2] = p
      BY <1>5, <1>6, <2>1
    <3>2. seg_id(u, item.key) = g
      BY <1>3, <1>5, <1>6
    <3> QED
      BY <1>4, <3>1, <3>2
  <2>2. CASE x # x0
    <3>1. x \in Entries(t) /\ ItemAt(u, x) = ItemAt(t, x)
      BY <1>6, <1>7, <1>8, <2>2
    <3> QED
      BY <1>6, <3>1 DEF PlacedIn
  <2> QED
    BY <2>1, <2>2
<1>11. \A x \in Entries(t) : x \in Entries(u) /\ ItemAt(u, x) = ItemAt(t, x)
  BY <1>6, <1>7, <1>8
<1>12. OneMore(t, u, x0, k, v)
  BY <1>3, <1>6, <1>8 DEF OneMore
<1> QED
  BY <1>6, <1>9, <1>10, <1>11, <1>12

(* A deleted entry is one entry less, the others stay. *)
LEMMA DeletedEntry ==
  ASSUME NEW t, TableOK(t), PlacedIn(t), NEW x0 \in Entries(t),
         NEW u, Deletes(t, u, x0)
  PROVE  /\ TableOK(u) /\ PlacedIn(u) /\ Entries(u) = Entries(t) \ {x0}
         /\ Cardinality(Entries(u)) = Cardinality(Entries(t)) - 1
         /\ \A x \in Entries(u) : ItemAt(u, x) = ItemAt(t, x)
<1> DEFINE g == x0[1]
           p == x0[2]
           sg == delete(t[g], p)
<1>0. u = [t EXCEPT ![g] = sg]
  BY DEF Deletes
<1>1. g \in DOMAIN t /\ p \in Pos /\ x0 = <<g, p>>
  BY SMTT(30) DEF Entries
<1>2. sg.slot = [t[g].slot EXCEPT ![p] = Empty]
  BY DeleteSlot
<1> HIDE DEF g, p, sg
<1>3. /\ TableOK(u) /\ DOMAIN u = DOMAIN t
      /\ \A kk : seg_id(u, kk) = seg_id(t, kk)
      /\ ItemAt(u, x0) = Empty
      /\ \A x \in (DOMAIN t) \X Pos : x # x0 => ItemAt(u, x) = ItemAt(t, x)
  <2>1. SetsSlot(t, u, g, p, Empty)
    BY <1>0, <1>2 DEF SetsSlot
  <2>2. TableOK(u) /\ DiffersAt(t, u, <<g, p>>, Empty)
    BY <1>1, <2>1, SetEntry
  <2> QED
    BY <1>1, <2>2 DEF DiffersAt
<1>4. /\ Entries(u) = {x \in (DOMAIN t) \X Pos : ItemAt(u, x) # Empty}
      /\ Entries(t) = {x \in (DOMAIN t) \X Pos : ItemAt(t, x) # Empty}
  BY <1>3 DEF Entries, ItemAt
<1>5. Entries(u) = Entries(t) \ {x0}
  <2>1. \A x : x \in Entries(u) => x \in Entries(t) \ {x0}
    BY <1>3, <1>4
  <2>2. \A x : x \in Entries(t) \ {x0} => x \in Entries(u)
    BY <1>3, <1>4
  <2> QED
    BY <2>1, <2>2
<1>6. Cardinality(Entries(u)) = Cardinality(Entries(t)) - 1
  BY <1>5, EntriesFinite, FS_RemoveElement
<1>7. \A x \in Entries(u) : x \in Entries(t) /\ ItemAt(u, x) = ItemAt(t, x)
  BY <1>1, <1>3, <1>4, <1>5
<1>8. PlacedIn(u)
  BY <1>3, <1>7 DEF PlacedIn
<1> QED
  BY <1>3, <1>5, <1>6, <1>7, <1>8

(* A value that is replaced leaves the entries where they are. *)
LEMMA ReplacedValue ==
  ASSUME NEW t, TableOK(t), PlacedIn(t), NEW g \in DOMAIN t, NEW p \in Pos,
         t[g].slot[p] # Empty, NEW item \in Items,
         item.key = t[g].slot[p].key, item.probing = t[g].slot[p].probing,
         NEW u, SetsSlot(t, u, g, p, item)
  PROVE  /\ TableOK(u) /\ PlacedIn(u) /\ Entries(u) = Entries(t)
         /\ \A x \in Entries(t) : ItemAt(u, x).key = ItemAt(t, x).key
         /\ ItemAt(u, <<g, p>>) = item /\ \A x \in Entries(t) : x # <<g, p>> => ItemAt(u, x) = ItemAt(t, x)
<1> DEFINE old == t[g].slot[p]
           x0 == <<g, p>>
<1>2. item.key = old.key /\ item.probing = old.probing
  OBVIOUS
<1>3. item # Empty /\ old # Empty
  BY SegmentAssumption DEF Items
<1>4. ItemAt(t, x0) = old /\ x0 \in (DOMAIN t) \X Pos
  BY DEF ItemAt
<1> HIDE DEF old
<1>6. /\ TableOK(u) /\ DOMAIN u = DOMAIN t
      /\ \A kk : seg_id(u, kk) = seg_id(t, kk)
      /\ ItemAt(u, x0) = item
      /\ \A x \in (DOMAIN t) \X Pos : x # x0 => ItemAt(u, x) = ItemAt(t, x)
  <2>1. TableOK(u) /\ DiffersAt(t, u, x0, item)
    BY SetEntry
  <2> QED
    BY <2>1 DEF DiffersAt
<1> HIDE DEF x0
<1>7. /\ Entries(u) = {x \in (DOMAIN t) \X Pos : ItemAt(u, x) # Empty}
      /\ Entries(t) = {x \in (DOMAIN t) \X Pos : ItemAt(t, x) # Empty}
  BY <1>6 DEF Entries, ItemAt
<1>8. Entries(u) = Entries(t)
  BY <1>3, <1>4, <1>6, <1>7
<1>9. \A x \in Entries(t) : /\ ItemAt(u, x).key = ItemAt(t, x).key
                            /\ ItemAt(u, x).probing = ItemAt(t, x).probing
  BY <1>2, <1>4, <1>6, <1>7
<1>10. PlacedIn(u)
  BY <1>6, <1>8, <1>9 DEF PlacedIn, GoodPlace
<1> QED
  BY <1>6, <1>7, <1>8, <1>9, <1>10 DEF x0

(* The entry that is put back next during growth, and the one that retain  *)
(* deletes next, exist.                                                    *)
LEMMA Extremes ==
  ASSUME NEW t, TableOK(t), NEW E \in SUBSET Entries(t), E # {}
  PROVE  /\ \E x \in E : \A y \in E \ {x} :
              x[1] < y[1] \/ (x[1] = y[1] /\ Before(y[2], x[2]))
         /\ \E x \in E : \A y \in E \ {x} : EntryBefore(y, x)
<1>1. PICK n \in Nat \ {0} : DOMAIN t = 0 .. n - 1
  BY DEF TableOK
<1>2. \A x \in E : x = <<x[1], x[2]>> /\ x[1] \in 0 .. n - 1 /\ x[2] \in Pos
  BY <1>1, SMTT(30) DEF Entries
<1> DEFINE G == {x[1] : x \in E}
<1>3. G \in SUBSET (0 .. n - 1) /\ G # {} /\ n - 1 \in Nat
  BY <1>2, SMTT(30)
<1>4. G \in SUBSET Nat
  BY <1>3, SMTT(30)
<1> HIDE DEF G
<1>5. ASSUME NEW a \in G
      PROVE  \E x \in E : x[1] = a /\ \A y \in E \ {x} : y[1] = a => Before(y[2], x[2])
  <2> DEFINE P == {x[2] : x \in {y \in E : y[1] = a}}
  <2>1. P \in SUBSET Pos /\ P # {}
    BY <1>2, <1>5 DEF G
  <2>2. PICK p \in P : \A q \in P \ {p} : Before(q, p)
    BY <2>1, LastPos
  <2>3. PICK x \in E : x[1] = a /\ x[2] = p
    BY <2>2
  <2>4. ASSUME NEW y \in E \ {x}, y[1] = a PROVE Before(y[2], x[2])
    <3>1. y[2] \in P /\ y[2] # p
      BY <1>2, <2>3, <2>4
    <3> QED
      BY <2>2, <2>3, <3>1
  <2> QED
    BY <2>3, <2>4
<1>6. \E x \in E : \A y \in E \ {x} : x[1] < y[1] \/ (x[1] = y[1] /\ Before(y[2], x[2]))
  <2>1. PICK a \in G : \A b \in G : a <= b
    BY <1>3, <1>4, NatMin
  <2>2. PICK x \in E : x[1] = a /\ \A y \in E \ {x} : y[1] = a => Before(y[2], x[2])
    BY <1>5
  <2>3. \A y \in E : y[1] \in G /\ y[1] \in Nat
    BY <1>2, SMTT(30) DEF G
  <2>4. \A y \in E : a < y[1] \/ a = y[1]
    BY <1>4, <2>1, <2>3, SMTT(30)
  <2> QED
    BY <2>2, <2>4
<1>7. \E x \in E : \A y \in E \ {x} : EntryBefore(y, x)
  <2>1. PICK a \in G : \A b \in G : b <= a
    BY <1>3, NatMax
  <2>2. PICK x \in E : x[1] = a /\ \A y \in E \ {x} : y[1] = a => Before(y[2], x[2])
    BY <1>5
  <2>3. \A y \in E : y[1] \in G /\ y[1] \in Nat
    BY <1>2, SMTT(30) DEF G
  <2>4. \A y \in E : y[1] < a \/ y[1] = a
    BY <1>4, <2>1, <2>3, SMTT(30)
  <2> QED
    BY <2>2, <2>4 DEF EntryBefore
<1> QED
  BY <1>6, <1>7

-----------------------------------------------------------------------------
(* Calls and the steps of their loops. *)

(* Growth starts with empty segments and the entries of the old table. *)
LEMMA StartGrowStep ==
  ASSUME IInv, NEW k \in Keys, NEW v \in Vals, NEW tries, StartGrow(k, v, tries)
  PROVE  IInv'
<1>1. 2 * Count(segs) \in Nat \ {0}
  BY SegIdIn, SMTT(30) DEF IInv
<1>2. segs' = NewSegs(2 * Count(segs)) /\ size' = 0
  BY DEF StartGrow
<1>3. TableOK(segs)' /\ PlacedIn(segs)' /\ (size = Cardinality(Entries(segs)))'
  BY <1>1, <1>2, NewTable
<1>4. job' = [what |-> "grow", key |-> k, val |-> v, tries |-> tries,
              old |-> segs, left |-> Entries(segs)]
  BY DEF StartGrow
<1>5. JobOK'
  BY <1>4 DEF JobOK, IInv
<1> QED
  BY <1>3, <1>5 DEF IInv

(* A step that leaves the table alone and starts or ends no loop. *)
LEMMA IdleStep ==
  ASSUME IInv, UNCHANGED <<segs, size>>, job' = job \/ job'.what \in {"idle", "panic"}
  PROVE  IInv'
<1>1. TableOK(segs)' /\ PlacedIn(segs)' /\ (size = Cardinality(Entries(segs)))'
  BY DEF IInv
<1>2. JobOK'
  BY DEF IInv, JobOK
<1> QED
  BY <1>1, <1>2 DEF IInv

(* One entry more, in a call that is idle or growing. *)
LEMMA InsertNewStep ==
  ASSUME IInv, NEW k \in Keys, NEW v \in Vals, ~Full(segs[seg_id(segs, k)], k),
         segs' = [segs EXCEPT ![seg_id(segs, k)] = insert_new(@, k, v)],
         size' = size + 1
  PROVE  TableOK(segs)' /\ PlacedIn(segs)' /\ (size = Cardinality(Entries(segs)))'
<1>1. Inserts(segs, segs', k, v)
  BY DEF Inserts
<1>2. TableOK(segs) /\ PlacedIn(segs) /\ size = Cardinality(Entries(segs))
  BY DEF IInv
<1>3. /\ TableOK(segs') /\ PlacedIn(segs')
      /\ Cardinality(Entries(segs')) = Cardinality(Entries(segs)) + 1
  BY <1>1, <1>2, InsertedEntry, SMTT(30)
<1> QED
  BY <1>2, <1>3

(* The slot find returns holds an entry of the table. *)
LEMMA FoundEntry ==
  ASSUME NEW t, TableOK(t), NEW k \in Keys, find(t[seg_id(t, k)], k) # {}
  PROVE  LET g == seg_id(t, k)
             p == First(find(t[g], k))
         IN  /\ g \in DOMAIN t /\ p \in Pos /\ t[g].slot[p] # Empty
             /\ <<g, p>> \in Entries(t) /\ t[g].slot[p] \in Items
<1> DEFINE g == seg_id(t, k)
           p == First(find(t[g], k))
<1>1. g \in DOMAIN t /\ p \in Pos /\ t[g].slot[p] # Empty
  BY SegIdIn, FindIn DEF Occupied
<1> HIDE DEF g, p
<1>2. <<g, p>> \in Entries(t) /\ t[g].slot[p] \in Items
  BY <1>1 DEF Entries, TableOK
<1> QED
  BY <1>1, <1>2 DEF g, p

(* insert of a key that is found replaces the value of its entry. *)
Replaces(t, u, k, v) ==
  LET g == seg_id(t, k)
      p == First(find(t[g], k))
  IN  /\ find(t[g], k) # {}
      /\ u = [t EXCEPT ![g] = PutSlot(t[g], p, [t[g].slot[p] EXCEPT !.val = v])]

LEMMA ReplaceFound ==
  ASSUME NEW t, TableOK(t), PlacedIn(t), NEW k \in Keys, NEW v \in Vals, NEW u, Replaces(t, u, k, v)
  PROVE  /\ TableOK(u) /\ PlacedIn(u) /\ Entries(u) = Entries(t)
         /\ \A x \in Entries(t) : ItemAt(u, x).key = ItemAt(t, x).key
         /\ LET x0 == <<seg_id(t, k), First(find(t[seg_id(t, k)], k))>>
            IN  ItemAt(u, x0).val = v /\ \A x \in Entries(t) : x # x0 => ItemAt(u, x) = ItemAt(t, x)
<1> DEFINE g == seg_id(t, k)
           p == First(find(t[g], k))
           item == [t[g].slot[p] EXCEPT !.val = v]
           sg == PutSlot(t[g], p, item)
<1>1. u = [t EXCEPT ![g] = sg] /\ find(t[g], k) # {}
  BY DEF Replaces
<1>2. g \in DOMAIN t /\ p \in Pos /\ t[g].slot[p] # Empty /\ t[g].slot[p] \in Items
  BY <1>1, FoundEntry
<1> HIDE DEF g, p
<1>3. item \in Items /\ item.key = t[g].slot[p].key /\ item.probing = t[g].slot[p].probing /\ item.val = v
  BY <1>2 DEF Items
<1> HIDE DEF item
<1>4. sg.slot = [t[g].slot EXCEPT ![p] = item]
  BY DEF PutSlot
<1> HIDE DEF sg
<1>5. SetsSlot(t, u, g, p, item)
  BY <1>1, <1>4 DEF SetsSlot
<1>6. /\ TableOK(u) /\ PlacedIn(u) /\ Entries(u) = Entries(t)
      /\ \A x \in Entries(t) : ItemAt(u, x).key = ItemAt(t, x).key
      /\ ItemAt(u, <<g, p>>) = item /\ \A x \in Entries(t) : x # <<g, p>> => ItemAt(u, x) = ItemAt(t, x)
  BY <1>2, <1>3, <1>5, ReplacedValue, SMTT(30)
<1> QED
  BY <1>3, <1>6 DEF g, p

(* insert replaces a value, fills a slot, or starts to grow. *)
LEMMA InsertStep ==
  ASSUME IInv, NEW k \in Keys, NEW v \in Vals, Insert(k, v)
  PROVE  IInv'
<1> DEFINE g == seg_id(segs, k)
           P == find(segs[g], k)
           p == First(P)
<1>0. g \in DOMAIN segs /\ TableOK(segs) /\ PlacedIn(segs) /\ size = Cardinality(Entries(segs))
  BY SegIdIn DEF IInv
<1>1. job = Idle
  BY DEF Insert, Busy
<1>2. job' = job => JobOK'
  BY <1>1, SMTT(30) DEF JobOK, Idle
<1>3. CASE /\ P # {}
           /\ segs' = [segs EXCEPT ![g] = PutSlot(@, p, [segs[g].slot[p] EXCEPT !.val = v])]
           /\ UNCHANGED <<size, job>>
  <2>1. Replaces(segs, segs', k, v)
    BY <1>3 DEF Replaces
  <2>2. TableOK(segs') /\ PlacedIn(segs') /\ Entries(segs') = Entries(segs)
    BY <1>0, <2>1, ReplaceFound
  <2> QED
    BY <1>0, <1>2, <1>3, <2>2 DEF IInv
<1>4. CASE /\ P = {} /\ ~Full(segs[g], k)
           /\ segs' = [segs EXCEPT ![g] = insert_new(@, k, v)]
           /\ size' = size + 1
           /\ UNCHANGED job
  BY <1>2, <1>4, InsertNewStep DEF IInv
<1>5. CASE StartGrow(k, v, 0)
  BY <1>5, StartGrowStep
<1> QED
  BY <1>3, <1>4, <1>5 DEF Insert

(* The key and value of an entry. *)
LEMMA EntryTyped ==
  ASSUME NEW t, TableOK(t), NEW x \in Entries(t)
  PROVE  EntryKey(t, x) \in Keys /\ EntryVal(t, x) \in Vals
<1>1. x \in (DOMAIN t) \X Pos /\ t[x[1]].slot[x[2]] # Empty
  BY DEF Entries
<1>2. t[x[1]].slot[x[2]] \in Items
  BY <1>1, SMTT(30) DEF TableOK
<1> QED
  BY <1>2 DEF Items, EntryKey, EntryVal

(* Growth moves one entry, or panics. *)
LEMMA ReinsertStep ==
  ASSUME IInv, Reinsert
  PROVE  IInv'
<1> DEFINE x == NextLeft
           k == EntryKey(job.old, x)
           v == EntryVal(job.old, x)
           g == seg_id(segs, k)
<1>1. /\ job = [what |-> "grow", key |-> job.key, val |-> job.val, tries |-> job.tries,
                old |-> job.old, left |-> job.left]
      /\ job.what = "grow" /\ job.left # {} /\ job.key \in Keys /\ job.val \in Vals
      /\ TableOK(job.old) /\ job.left \in SUBSET Entries(job.old)
  BY DEF Reinsert, IInv, JobOK
<1>2. x \in job.left
  BY <1>1, Extremes DEF NextLeft
<1> HIDE DEF x
<1>3. k \in Keys /\ v \in Vals
  BY <1>1, <1>2, EntryTyped
<1>4. CASE /\ ~Full(segs[g], k)
           /\ segs' = [segs EXCEPT ![g] = insert_new(@, k, v)]
           /\ size' = size + 1
           /\ job' = [job EXCEPT !.left = @ \ {x}]
  <2> HIDE DEF k, v
  <2>1. TableOK(segs)' /\ PlacedIn(segs)' /\ (size = Cardinality(Entries(segs)))'
    BY <1>3, <1>4, InsertNewStep
  <2>2. job' = [what |-> "grow", key |-> job.key, val |-> job.val, tries |-> job.tries,
                old |-> job.old, left |-> job.left \ {x}]
    BY <1>1, <1>4
  <2>3. JobOK'
    BY <1>1, <2>2 DEF JobOK
  <2> QED
    BY <2>1, <2>3 DEF IInv
<1>5. CASE Panic
  <2>1. UNCHANGED <<segs, size>> /\ job'.what \in {"idle", "panic"}
    BY <1>5, SMTT(30) DEF Panic, Idle
  <2> QED
    BY <2>1, IdleStep
<1> QED
  BY <1>4, <1>5 DEF Reinsert, x

(* After growth the pair goes in, or growth starts again, or panics. *)
LEMMA InsertNoDupStep ==
  ASSUME IInv, insert_no_dup
  PROVE  IInv'
<1> DEFINE k == job.key
           g == seg_id(segs, k)
<1>1. k \in Keys /\ job.val \in Vals
  BY DEF insert_no_dup, IInv, JobOK
<1>2. CASE /\ ~Full(segs[g], k)
           /\ segs' = [segs EXCEPT ![g] = insert_new(@, k, job.val)]
           /\ size' = size + 1
           /\ job' = Idle
  <2>1. TableOK(segs)' /\ PlacedIn(segs)' /\ (size = Cardinality(Entries(segs)))'
    BY <1>1, <1>2, InsertNewStep
  <2>2. JobOK'
    BY <1>2 DEF JobOK, Idle
  <2> QED
    BY <2>1, <2>2 DEF IInv
<1>3. CASE StartGrow(k, job.val, job.tries + 1)
  BY <1>1, <1>3, StartGrowStep
<1>4. CASE Panic
  <2>1. UNCHANGED <<segs, size>> /\ job'.what \in {"idle", "panic"}
    BY <1>4, SMTT(30) DEF Panic, Idle
  <2> QED
    BY <2>1, IdleStep
<1> QED
  BY <1>2, <1>3, <1>4 DEF insert_no_dup

(* remove deletes the entry that find returns. *)
LEMMA RemoveStep ==
  ASSUME IInv, NEW k \in Keys, Remove(k)
  PROVE  IInv'
<1> DEFINE g == seg_id(segs, k)
           P == find(segs[g], k)
           x == <<g, First(P)>>
<1>1. job' = Idle
  BY DEF Remove, Busy
<1>2. CASE P = {}
  BY <1>2, IdleStep DEF Remove
<1>3. CASE P # {}
  <2>1. segs' = [segs EXCEPT ![g] = delete(@, First(P))] /\ size' = size - 1
    BY <1>3 DEF Remove
  <2>2. x \in Entries(segs)
    BY <1>3, FoundEntry DEF IInv
  <2> HIDE DEF g, P
  <2>3. x \in Entries(segs) /\ x[1] = g /\ x[2] = First(P)
    BY <2>2
  <2> HIDE DEF x
  <2>4. Deletes(segs, segs', x)
    BY <2>1, <2>3 DEF Deletes
  <2>5. /\ TableOK(segs') /\ PlacedIn(segs')
        /\ Cardinality(Entries(segs')) = Cardinality(Entries(segs)) - 1
    BY <2>3, <2>4, DeletedEntry DEF IInv
  <2>6. JobOK'
    BY <1>1 DEF JobOK, Idle
  <2> QED
    BY <2>1, <2>5, <2>6 DEF IInv
<1> QED
  BY <1>2, <1>3

(* retain deletes its next entry, or returns. *)
LEMMA RetainStep ==
  ASSUME IInv, retain
  PROVE  IInv'
<1> DEFINE x == CHOOSE x \in job.left : \A y \in job.left \ {x} : EntryBefore(y, x)
<1>1. job = [what |-> "retain", left |-> job.left] /\ job.left \in SUBSET Entries(segs)
  BY DEF retain, IInv, JobOK
<1>2. CASE /\ job.left # {}
           /\ segs' = [segs EXCEPT ![x[1]] = delete(@, x[2])]
           /\ size' = size - 1
           /\ job' = [job EXCEPT !.left = @ \ {x}]
  <2>1. x \in job.left
    BY <1>1, <1>2, Extremes DEF IInv
  <2> HIDE DEF x
  <2>2. Deletes(segs, segs', x)
    BY <1>2 DEF Deletes
  <2>3. /\ TableOK(segs') /\ PlacedIn(segs') /\ Entries(segs') = Entries(segs) \ {x}
        /\ Cardinality(Entries(segs')) = Cardinality(Entries(segs)) - 1
    BY <1>1, <2>1, <2>2, DeletedEntry DEF IInv
  <2>4. job' = [what |-> "retain", left |-> job.left \ {x}]
    BY <1>1, <1>2, SMTT(30)
  <2>5. JobOK'
    BY <1>1, <2>3, <2>4 DEF JobOK
  <2> QED
    BY <1>2, <2>3, <2>5 DEF IInv
<1>3. CASE job' = Idle /\ UNCHANGED <<segs, size>>
  BY <1>3, IdleStep DEF Idle
<1> QED
  BY <1>2, <1>3 DEF retain

(* The invariant holds of a new table ... *)
LEMMA InitInv == Init => IInv
<1> SUFFICES ASSUME Init PROVE IInv
  OBVIOUS
<1>1. TableOK(segs) /\ PlacedIn(segs) /\ size = Cardinality(Entries(segs))
  BY NewTable, TableAssumption DEF Init
<1>2. JobOK
  BY DEF Init, JobOK, Idle
<1> QED
  BY <1>1, <1>2 DEF IInv

(* ... every call and every step of a loop keeps it ... *)
LEMMA NextInv == IInv /\ [Next]_vars => IInv'
<1> SUFFICES ASSUME IInv, [Next]_vars PROVE IInv'
  OBVIOUS
<1>1. ASSUME NEW k \in Keys, Find(k) PROVE IInv'
  BY <1>1, IdleStep DEF Find
<1>2. CASE Iter \/ Len
  BY <1>2, IdleStep DEF Iter, Len
<1>3. CASE clear
  <2>1. TableOK(segs)' /\ PlacedIn(segs)' /\ (size = Cardinality(Entries(segs)))'
    BY <1>3, NewTable, TableAssumption DEF clear
  <2>2. JobOK'
    BY <1>3, SMTT(30) DEF clear, Busy, JobOK, Idle
  <2> QED
    BY <2>1, <2>2 DEF IInv
<1>4. ASSUME NEW D \in RetainSets, StartRetain(D) PROVE IInv'
  <2>1. job' = [what |-> "retain", left |-> {x \in Entries(segs) : EntryKey(segs, x) \in D}]
    BY <1>4 DEF StartRetain
  <2>2. UNCHANGED <<segs, size>>
    BY <1>4 DEF StartRetain
  <2>3. JobOK'
    BY <2>1, <2>2 DEF JobOK
  <2> QED
    BY <2>2, <2>3 DEF IInv
<1>5. CASE UNCHANGED vars
  BY <1>5, IdleStep DEF vars
<1> QED
  BY <1>1, <1>2, <1>3, <1>4, <1>5, InsertStep, RemoveStep, ReinsertStep, InsertNoDupStep,
     RetainStep DEF Next

(* ... and so it holds at every moment, within calls too. *)
LEMMA Invariant == Spec => []IInv
BY InitInv, NextInv, PTL DEF Spec

(* Wherever an entry was put, moved by growth, or left by a panic half-way *)
(* through, it is in the segment its hash selects and in a bucket in which *)
(* Segment::find looks for it, with the probing mark find expects.         *)
THEOREM AlwaysPlaced == Spec => []Placed
<1>1. IInv => Placed
  BY DEF IInv, PlacedIn, GoodPlace, ItemAt, Placed, EntryKey
<1> QED
  BY <1>1, Invariant, PTL

(* The size DashTable::len returns counts the entries of the table between *)
(* calls, however many growths, panics and retains came before.            *)
THEOREM SizeAlwaysExact == Spec => []SizeExact
<1>1. IInv => SizeExact
  BY DEF IInv, SizeExact
<1> QED
  BY <1>1, Invariant, PTL

-----------------------------------------------------------------------------
(* The books a bucket keeps of its stash items: every pointer in use and   *)
(* every unit of the count stands for an item of its own, so that the      *)
(* count never exceeds the room in the stash and never overflows.          *)
StashPos == (NumBuckets .. NumBuckets + NumStash - 1) \X Slots

(* The pointers of bucket b that are in use, and the units of its count. *)
Trackers(sg, b) == {j \in StashIds : sg.ptr[b][j] # NoPtr} \cup (NumStash .. NumStash + sg.over[b] - 1)

(* Tracker m of bucket b may stand for the item at p. *)
MayTrack(sg, b, m, p) ==
  /\ p \in StashPos /\ sg.slot[p] # Empty /\ home_bucket(sg.slot[p].key) = b
  /\ m \in StashIds =>
       /\ sg.ptr[b][m].probe = FALSE /\ sg.ptr[b][m].fp = fingerprint(sg.slot[p].key)
       /\ StashBucket(sg.ptr[b][m].stash) = p[1]

(* f gives every tracker of b an item of its own. *)
Assigns(sg, b, f) ==
  /\ f = [m \in Trackers(sg, b) |-> f[m]]
  /\ \A m \in Trackers(sg, b) : MayTrack(sg, b, m, f[m])
  /\ \A m, n \in Trackers(sg, b) : f[m] = f[n] => m = n

SegmentTypes ==
  [slot : [Pos -> Items \cup {Empty}],
   ptr : [Buckets -> [StashIds -> Pointers \cup {NoPtr}]],
   over : [Buckets -> Nat]]

SegmentOK(sg) ==
  /\ sg \in SegmentTypes
  /\ \A b \in Buckets : \E f : Assigns(sg, b, f)

(* Under f every stash item of home bucket b has a tracker. *)
Covers(sg, b, f) ==
  \A p \in StashPos :
    sg.slot[p] # Empty /\ home_bucket(sg.slot[p].key) = b => \E m \in Trackers(sg, b) : f[m] = p

Tracked(sg) == \A b \in Buckets : \E f : Assigns(sg, b, f) /\ Covers(sg, b, f)

(* The step from sg to u keeps the books right, and complete. *)
BooksFollow(sg, u) ==
  /\ u \in SegmentTypes
  /\ \A b \in Buckets : \A f :
       Assigns(sg, b, f) => \E e : Assigns(u, b, e) /\ (Covers(sg, b, f) => Covers(u, b, e))

(* What makes TypeOK inductive. *)
BooksInv ==
  /\ \A g \in DOMAIN segs : SegmentOK(segs[g])
  /\ job.what \in {"idle", "grow", "retain", "panic"}

-----------------------------------------------------------------------------
LEMMA Follows ==
  ASSUME NEW sg, SegmentOK(sg), NEW u, BooksFollow(sg, u)
  PROVE  SegmentOK(u) /\ (Tracked(sg) => Tracked(u))
BY DEF SegmentOK, Tracked, BooksFollow

(* A bucket tracks at most the items the stash has room for. *)
LEMMA CountFits ==
  ASSUME NEW sg, SegmentOK(sg), NEW b \in Buckets
  PROVE  sg.over[b] \in 0 .. NumStash * NumSlots
<1> DEFINE T == Trackers(sg, b)
           U == NumStash .. NumStash + sg.over[b] - 1
<1>1. NumBuckets \in Nat /\ NumStash \in Nat /\ NumSlots \in Nat /\ sg.over[b] \in Nat
  BY SegmentAssumption DEF SegmentOK, SegmentTypes
<1>2. PICK f : Assigns(sg, b, f)
  BY DEF SegmentOK
<1>3. U \subseteq T
  BY DEF Trackers
<1>4. IsFiniteSet(U) /\ Cardinality(U) = sg.over[b]
  <2> DEFINE top == NumStash + sg.over[b] - 1
  <2>1. NumStash \in Int /\ top \in Int
    BY <1>1, SMTT(30)
  <2> HIDE DEF top
  <2>2. IsFiniteSet(NumStash .. top)
        /\ Cardinality(NumStash .. top) = IF NumStash > top THEN 0 ELSE top - NumStash + 1
    BY <2>1, FS_Interval
  <2> QED
    BY <1>1, <2>2, SMTT(30) DEF top
<1>5. IsFiniteSet(StashPos) /\ Cardinality(StashPos) = NumStash * NumSlots
  <2> DEFINE A == NumBuckets .. NumBuckets + NumStash - 1
             B == 0 .. NumSlots - 1
  <2>1. IsFiniteSet(A) /\ Cardinality(A) = NumStash
    <3>1. NumBuckets \in Int /\ NumBuckets + NumStash - 1 \in Int
      BY <1>1, SMTT(30)
    <3>2. IsFiniteSet(A) /\ Cardinality(A) = IF NumBuckets > NumBuckets + NumStash - 1 THEN 0
                                             ELSE (NumBuckets + NumStash - 1) - NumBuckets + 1
      BY <3>1, FS_Interval
    <3> QED
      BY <1>1, <3>2, SMTT(30)
  <2>2. IsFiniteSet(B) /\ Cardinality(B) = NumSlots
    <3>1. 0 \in Int /\ NumSlots - 1 \in Int
      BY <1>1, SMTT(30)
    <3>2. IsFiniteSet(B) /\ Cardinality(B) = IF 0 > NumSlots - 1 THEN 0 ELSE (NumSlots - 1) - 0 + 1
      BY <3>1, FS_Interval
    <3> QED
      BY <1>1, <3>2, SMTT(30)
  <2> HIDE DEF A, B
  <2>3. IsFiniteSet(A \X B) /\ Cardinality(A \X B) = Cardinality(A) * Cardinality(B)
    BY <2>1, <2>2, FS_Product
  <2> QED
    BY <2>1, <2>2, <2>3 DEF StashPos, Slots, A, B
<1> HIDE DEF U, T
<1> DEFINE h == [m \in U |-> f[m]]
<1>6. h \in Injection(U, StashPos)
  <2>1. h \in [U -> StashPos]
    BY <1>2, <1>3 DEF Assigns, MayTrack, T
  <2>2. \A m, n \in U : h[m] = h[n] => m = n
    BY <1>2, <1>3 DEF Assigns, T
  <2> QED
    BY <2>1, <2>2 DEF Injection, IsInjective
<1>7. Cardinality(U) <= Cardinality(StashPos)
  BY <1>5, <1>6, FS_Injection
<1>8. NumStash * NumSlots \in Nat
  BY <1>1, SMTT(30)
<1> QED
  BY <1>1, <1>4, <1>5, <1>7, <1>8, SMTT(30)

(* The books stay right when the stash keeps its keys. *)
LEMMA SameBooks ==
  ASSUME NEW sg, SegmentOK(sg), NEW slot \in [Pos -> Items \cup {Empty}],
         \A p \in StashPos : sg.slot[p] # Empty => slot[p] # Empty /\ slot[p].key = sg.slot[p].key,
         \A p \in StashPos : slot[p] # Empty => sg.slot[p] # Empty
  PROVE  BooksFollow(sg, [slot |-> slot, ptr |-> sg.ptr, over |-> sg.over])
<1> DEFINE u == [slot |-> slot, ptr |-> sg.ptr, over |-> sg.over]
<1>1. u.slot = slot /\ u.ptr = sg.ptr /\ u.over = sg.over
  OBVIOUS
<1>2. u \in SegmentTypes
  BY DEF SegmentOK, SegmentTypes
<1> HIDE DEF u
<1>3. ASSUME NEW b \in Buckets, NEW f, Assigns(sg, b, f)
      PROVE  Assigns(u, b, f) /\ (Covers(sg, b, f) => Covers(u, b, f))
  <2>2. Trackers(u, b) = Trackers(sg, b)
    BY <1>1 DEF Trackers
  <2>3. \A m \in Trackers(u, b) : MayTrack(u, b, m, f[m])
    BY <1>1, <1>3, <2>2, SMTT(30) DEF Assigns, MayTrack
  <2>4. Covers(sg, b, f) => Covers(u, b, f)
    BY <1>1, <2>2 DEF Covers
  <2> QED
    BY <1>3, <2>2, <2>3, <2>4 DEF Assigns
<1> QED
  BY <1>2, <1>3 DEF BooksFollow, u

LEMMA NewBooks == SegmentOK(NewSegment) /\ Tracked(NewSegment)
<1>1. NewSegment \in SegmentTypes
  BY DEF NewSegment, SegmentTypes
<1>2. ASSUME NEW b \in Buckets PROVE \E f : Assigns(NewSegment, b, f) /\ Covers(NewSegment, b, f)
  <2>1. Trackers(NewSegment, b) = {}
    BY SegmentAssumption, SMTT(30) DEF Trackers, NewSegment
  <2>2. Assigns(NewSegment, b, [m \in {} |-> m])
    BY <2>1 DEF Assigns
  <2>3. \A p \in StashPos : NewSegment.slot[p] = Empty
    BY SegmentAssumption, SMTT(30) DEF NewSegment, StashPos, Pos
  <2>4. Covers(NewSegment, b, [m \in {} |-> m])
    BY <2>3 DEF Covers
  <2> QED
    BY <2>2, <2>4
<1> QED
  BY <1>1, <1>2 DEF SegmentOK, Tracked

-----------------------------------------------------------------------------
Elsewhere(sg, u, b) == \A c \in Buckets \ {b} : u.ptr[c] = sg.ptr[c] /\ u.over[c] = sg.over[c]

(* The books of u are those of sg with one more tracker j in bucket b. *)
Adds(sg, u, b, j, i, fp) ==
  /\ Elsewhere(sg, u, b)
  /\ j \notin Trackers(sg, b) /\ Trackers(u, b) = Trackers(sg, b) \cup {j}
  /\ \A m \in StashIds \ {j} : u.ptr[b][m] = sg.ptr[b][m]
  /\ j \in StashIds => u.ptr[b][j].fp = fp /\ u.ptr[b][j].stash = i /\ u.ptr[b][j].probe = FALSE

LEMMA IntervalEnd ==
  ASSUME NEW a \in Int, NEW n \in Nat
  PROVE  a .. a + (n + 1) - 1 = (a .. a + n - 1) \cup {a + n}
BY SMTT(30)

(* set_stash_ptr adds one tracker to the bucket. *)
LEMMA SetAdds ==
  ASSUME NEW sg, SegmentOK(sg), NEW slot \in [Pos -> Items \cup {Empty}],
         NEW b \in Buckets, NEW i \in StashIds, NEW fp \in Fingerprints
  PROVE  LET w == [slot |-> slot, ptr |-> sg.ptr, over |-> sg.over]
             u == set_stash_ptr(w, b, i, fp, FALSE)
         IN  u \in SegmentTypes /\ u.slot = slot /\ \E j : Adds(sg, u, b, j, i, fp)
<1> DEFINE w == [slot |-> slot, ptr |-> sg.ptr, over |-> sg.over]
           u == set_stash_ptr(w, b, i, fp, FALSE)
           unused == {j \in StashIds : sg.ptr[b][j] = NoPtr}
           new == [fp |-> fp, stash |-> i, probe |-> FALSE]
<1>0. /\ sg.ptr \in [Buckets -> [StashIds -> Pointers \cup {NoPtr}]] /\ sg.over \in [Buckets -> Nat]
      /\ NumStash \in Nat \ {0} /\ new \in Pointers /\ NoPtr \notin Pointers
      /\ \A m \in StashIds : m \in Int /\ m < NumStash
  BY SegmentAssumption, SMTT(30) DEF SegmentOK, SegmentTypes, Pointers, StashIds
<1>1. CASE unused # {}
  <2> DEFINE j == Least(unused)
  <2>1. j \in StashIds /\ sg.ptr[b][j] = NoPtr
    <3>1. unused \subseteq Nat
      BY SegmentAssumption, SMTT(30) DEF StashIds
    <3> QED
      BY <1>1, <3>1, LeastIn
  <2>2. u = [slot |-> slot, ptr |-> [sg.ptr EXCEPT ![b] = [sg.ptr[b] EXCEPT ![j] = new]], over |-> sg.over]
    BY <1>1 DEF set_stash_ptr, SetPtr
  <2> HIDE DEF u, j, new, unused
  <2>3. u \in SegmentTypes
    BY <1>0, <2>1, <2>2 DEF SegmentTypes
  <2>4. /\ u.slot = slot /\ u.over = sg.over
        /\ \A c \in Buckets \ {b} : u.ptr[c] = sg.ptr[c]
        /\ u.ptr[b] = [sg.ptr[b] EXCEPT ![j] = new]
    BY <1>0, <2>2
  <2>5. u.ptr[b][j] = new /\ \A m \in StashIds \ {j} : u.ptr[b][m] = sg.ptr[b][m]
    BY <1>0, <2>1, <2>4
  <2>6. j \notin Trackers(sg, b)
    BY <1>0, <2>1, SMTT(30) DEF Trackers
  <2>7. Trackers(u, b) = Trackers(sg, b) \cup {j}
    BY <1>0, <2>1, <2>4, <2>5, SMTT(30) DEF Trackers
  <2>8. u.ptr[b][j].fp = fp /\ u.ptr[b][j].stash = i /\ u.ptr[b][j].probe = FALSE
    BY <2>5, SMTT(30) DEF new
  <2> QED
    BY <2>3, <2>4, <2>5, <2>6, <2>7, <2>8 DEF u, Adds, Elsewhere
<1>2. CASE unused = {}
  <2> DEFINE j == NumStash + sg.over[b]
  <2>2. u = [slot |-> slot, ptr |-> sg.ptr, over |-> [sg.over EXCEPT ![b] = sg.over[b] + 1]]
    BY <1>2 DEF set_stash_ptr, SetOver
  <2> HIDE DEF u, new, unused
  <2>3. u \in SegmentTypes
    BY <1>0, <2>2, SMTT(30) DEF SegmentTypes
  <2>4. /\ u.slot = slot /\ u.ptr = sg.ptr
        /\ \A c \in Buckets \ {b} : u.over[c] = sg.over[c]
        /\ u.over[b] = sg.over[b] + 1
    BY <1>0, <2>2
  <2>5. sg.over[b] \in Nat
    BY <1>0
  <2>6. j \notin Trackers(sg, b) /\ j \notin StashIds
    BY <1>0, <2>5, SMTT(30) DEF Trackers
  <2>7. NumStash .. NumStash + u.over[b] - 1 = (NumStash .. NumStash + sg.over[b] - 1) \cup {j}
    BY <1>0, <2>4, <2>5, IntervalEnd, SMTT(30)
  <2>8. Trackers(u, b) = Trackers(sg, b) \cup {j}
    BY <2>4, <2>7 DEF Trackers
  <2> QED
    BY <2>3, <2>4, <2>6, <2>8 DEF u, Adds, Elsewhere
<1> QED
  BY <1>1, <1>2

(* A stash item is entered in the books of its home bucket. *)
LEMMA InsertedBooks ==
  ASSUME NEW sg, SegmentOK(sg), NEW k \in Keys, NEW v \in Vals, NEW i \in StashIds,
         NEW p \in StashPos, p \in Pos, p[1] = StashBucket(i), sg.slot[p] = Empty
  PROVE  BooksFollow(sg, set_stash_ptr(PutSlot(sg, p, [key |-> k, val |-> v, probing |-> FALSE]),
                                       home_bucket(k), i, fingerprint(k), FALSE))
<1> DEFINE item == [key |-> k, val |-> v, probing |-> FALSE]
           slot == [sg.slot EXCEPT ![p] = item]
           w == [slot |-> slot, ptr |-> sg.ptr, over |-> sg.over]
           h == home_bucket(k)
           u == set_stash_ptr(w, h, i, fingerprint(k), FALSE)
<1>1. item \in Items /\ item # Empty /\ item.key = k /\ h \in Buckets /\ fingerprint(k) \in Fingerprints
  <2>1. item \in Items /\ item.key = k
    BY DEF Items
  <2>2. Empty \notin Items /\ h \in Buckets
    BY SegmentAssumption DEF Items
  <2>3. fingerprint(k) \in Fingerprints
    BY DEF Fingerprints
  <2> QED
    BY <2>1, <2>2, <2>3
<1>2. sg.slot \in [Pos -> Items \cup {Empty}] /\ StashPos \subseteq Pos
  BY SegmentAssumption, SMTT(30) DEF SegmentOK, SegmentTypes, StashPos, Pos
<1>3. PutSlot(sg, p, item) = w
  BY DEF PutSlot
<1> HIDE DEF item
<1>4. slot \in [Pos -> Items \cup {Empty}]
  BY <1>1, <1>2
<1>5. /\ slot[p] = item /\ \A q \in Pos : sg.slot[q] # Empty => slot[q] = sg.slot[q]
      /\ \A q \in Pos \ {p} : slot[q] = sg.slot[q]
  BY <1>2
<1> HIDE DEF slot, h
<1> DEFINE fp == fingerprint(k)
<1> HIDE DEF fp
<1>u. u = set_stash_ptr(w, h, i, fp, FALSE) /\ fp \in Fingerprints
  BY <1>1 DEF fp
<1> HIDE DEF u
<1>h. h \in Buckets
  BY <1>1
<1>6. u \in SegmentTypes /\ u.slot = slot /\ \E j : Adds(sg, u, h, j, i, fp)
  BY <1>4, <1>u, <1>h, SetAdds
<1>j. PICK j : Adds(sg, u, h, j, i, fp)
  BY <1>6
<1>7. ASSUME NEW b \in Buckets, NEW f, Assigns(sg, b, f), NEW m \in Trackers(sg, b),
             m \in StashIds => u.ptr[b][m] = sg.ptr[b][m]
      PROVE  MayTrack(u, b, m, f[m]) /\ f[m] # p
  <2>1. MayTrack(sg, b, m, f[m])
    BY <1>7 DEF Assigns
  <2>2. sg.slot[f[m]] # Empty /\ f[m] \in Pos
    BY <1>2, <2>1 DEF MayTrack
  <2>3. u.slot[f[m]] = sg.slot[f[m]] /\ f[m] # p
    BY <1>5, <1>6, <2>2
  <2> QED
    BY <1>7, <2>1, <2>3 DEF MayTrack
<1>8. ASSUME NEW b \in Buckets, NEW f, Assigns(sg, b, f)
      PROVE  \E e : Assigns(u, b, e) /\ (Covers(sg, b, f) => Covers(u, b, e))
  <2>1. Assigns(sg, b, f)
    BY <1>8
  <2>2. CASE b # h
    <3>1. u.ptr[b] = sg.ptr[b] /\ u.over[b] = sg.over[b]
      BY <1>j, <2>2 DEF Adds, Elsewhere
    <3>2. Trackers(u, b) = Trackers(sg, b)
      BY <3>1 DEF Trackers
    <3>3. Covers(sg, b, f) => Covers(u, b, f)
      BY <1>1, <1>2, <1>5, <1>6, <2>2, <3>2 DEF Covers, h
    <3> QED
      BY <1>7, <2>1, <3>1, <3>2, <3>3 DEF Assigns
  <2>3. CASE b = h
    <3>1. /\ j \notin Trackers(sg, h) /\ Trackers(u, h) = Trackers(sg, h) \cup {j}
          /\ \A m \in StashIds \ {j} : u.ptr[h][m] = sg.ptr[h][m]
          /\ j \in StashIds =>
               u.ptr[h][j].fp = fingerprint(k) /\ u.ptr[h][j].stash = i /\ u.ptr[h][j].probe = FALSE
      BY <1>j DEF Adds, fp
    <3> DEFINE f2 == [m \in Trackers(u, b) |-> IF m = j THEN p ELSE f[m]]
    <3>2. \A m \in Trackers(sg, b) : m # j /\ MayTrack(u, b, m, f[m]) /\ f[m] # p
      BY <1>7, <2>1, <2>3, <3>1
    <3>3. MayTrack(u, b, j, p)
      BY <1>1, <1>5, <1>6, <2>3, <3>1 DEF MayTrack, h
    <3>4. \A m \in Trackers(u, b) : MayTrack(u, b, m, f2[m])
      BY <2>3, <3>1, <3>2, <3>3
    <3>5. \A m, n \in Trackers(u, b) : f2[m] = f2[n] => m = n
      BY <2>1, <2>3, <3>1, <3>2 DEF Assigns
    <3>6. Covers(sg, b, f) => Covers(u, b, f2)
      <4>1. j \in Trackers(u, b) /\ f2[j] = p /\ \A m \in Trackers(sg, b) : m \in Trackers(u, b) /\ f2[m] = f[m]
        BY <2>3, <3>1, <3>2
      <4> HIDE DEF f2
      <4> QED
        BY <1>2, <1>5, <1>6, <4>1, SMTT(30) DEF Covers
    <3> QED
      BY <3>4, <3>5, <3>6 DEF Assigns
  <2> QED
    BY <2>2, <2>3
<1> QED
  BY <1>3, <1>6, <1>8 DEF BooksFollow, u, h, item, fp

-----------------------------------------------------------------------------
(* The books of u are those of sg without tracker j of bucket b, which     *)
(* stood for an item with fingerprint fp in stash bucket i; a unit of the  *)
(* count goes only when no pointer is for such an item.                    *)
Matches(sg, b, fp, i) ==
  {j \in StashIds : sg.ptr[b][j] # NoPtr /\ sg.ptr[b][j].fp = fp /\ sg.ptr[b][j].stash = i}

Drops(sg, u, b, j, fp, i) ==
  /\ Elsewhere(sg, u, b)
  /\ j \in Trackers(sg, b) /\ Trackers(u, b) = Trackers(sg, b) \ {j}
  /\ \A m \in StashIds \ {j} : u.ptr[b][m] = sg.ptr[b][m]
  /\ IF j \in StashIds THEN j \in Matches(sg, b, fp, i) ELSE Matches(sg, b, fp, i) = {}

(* There was nothing to take off the books. *)
Keeps(sg, u, b, fp, i) ==
  u.ptr = sg.ptr /\ u.over = sg.over /\ Matches(sg, b, fp, i) = {} /\ sg.over[b] = 0

(* unset_stash_ptr takes at most one tracker from the bucket. *)
LEMMA UnsetDrops ==
  ASSUME NEW w \in SegmentTypes, NEW b \in Buckets, NEW i, NEW fp
  PROVE  LET u == unset_stash_ptr(w, b, fp, i)
         IN  /\ u \in SegmentTypes /\ u.slot = w.slot
             /\ Keeps(w, u, b, fp, i) \/ \E j : Drops(w, u, b, j, fp, i)
<1> DEFINE u == unset_stash_ptr(w, b, fp, i)
           match == Matches(w, b, fp, i)
<1>0. /\ w.ptr \in [Buckets -> [StashIds -> Pointers \cup {NoPtr}]] /\ w.over \in [Buckets -> Nat]
      /\ w.slot \in [Pos -> Items \cup {Empty}]
      /\ NumStash \in Nat \ {0} /\ w.over[b] \in Nat
      /\ \A m \in StashIds : m \in Int /\ m < NumStash
  BY SegmentAssumption, SMTT(30) DEF SegmentTypes, StashIds
<1>1. CASE match # {}
  <2> DEFINE j == Least(match)
  <2>1. j \in match /\ match \subseteq StashIds
    <3>1. match \subseteq Nat
      BY SegmentAssumption, SMTT(30) DEF StashIds, Matches
    <3>2. j \in match
      BY <1>1, <3>1, LeastIn
    <3> QED
      BY <3>2 DEF Matches
  <2>2. u = [slot |-> w.slot, ptr |-> [w.ptr EXCEPT ![b] = [w.ptr[b] EXCEPT ![j] = NoPtr]], over |-> w.over]
    BY <1>1 DEF unset_stash_ptr, SetPtr, Matches
  <2>3. w.ptr[b][j] # NoPtr
    BY <2>1 DEF Matches
  <2> HIDE DEF u, j, match
  <2>4. u \in SegmentTypes
    BY <1>0, <2>1, <2>2 DEF SegmentTypes
  <2>5. /\ u.slot = w.slot /\ u.over = w.over
        /\ \A c \in Buckets \ {b} : u.ptr[c] = w.ptr[c]
        /\ u.ptr[b] = [w.ptr[b] EXCEPT ![j] = NoPtr]
    BY <1>0, <2>2
  <2>6. u.ptr[b][j] = NoPtr /\ \A m \in StashIds \ {j} : u.ptr[b][m] = w.ptr[b][m]
    BY <1>0, <2>1, <2>5
  <2>7. j \in Trackers(w, b) /\ j \in StashIds /\ j \in match
    BY <2>1, <2>3 DEF Trackers
  <2>8. Trackers(u, b) = Trackers(w, b) \ {j}
    BY <1>0, <2>1, <2>5, <2>6, SMTT(30) DEF Trackers
  <2>9. Drops(w, u, b, j, fp, i)
    BY <2>5, <2>6, <2>7, <2>8 DEF Drops, Elsewhere, match
  <2> QED
    BY <2>4, <2>5, <2>9 DEF u
<1>2. CASE match = {} /\ w.over[b] > 0
  <2> DEFINE j == NumStash + (w.over[b] - 1)
  <2>1. u = [slot |-> w.slot, ptr |-> w.ptr, over |-> [w.over EXCEPT ![b] = w.over[b] - 1]]
    BY <1>2 DEF unset_stash_ptr, SetOver, Matches
  <2> HIDE DEF u, match
  <2>2. u \in SegmentTypes
    BY <1>0, <1>2, <2>1, SMTT(30) DEF SegmentTypes
  <2>3. /\ u.slot = w.slot /\ u.ptr = w.ptr
        /\ \A c \in Buckets \ {b} : u.over[c] = w.over[c]
        /\ u.over[b] = w.over[b] - 1
    BY <1>0, <2>1
  <2>4. w.over[b] - 1 \in Nat /\ w.over[b] = (w.over[b] - 1) + 1
    BY <1>0, <1>2, SMTT(30)
  <2>5. NumStash .. NumStash + w.over[b] - 1 = (NumStash .. NumStash + u.over[b] - 1) \cup {j}
    BY <1>0, <2>3, <2>4, IntervalEnd, SMTT(30)
  <2>6. j \notin StashIds /\ j \notin NumStash .. NumStash + u.over[b] - 1
    BY <1>0, <2>3, <2>4, SMTT(30)
  <2> HIDE DEF j
  <2>7. j \in Trackers(w, b) /\ Trackers(u, b) = Trackers(w, b) \ {j}
    BY <2>3, <2>5, <2>6 DEF Trackers
  <2>8. Drops(w, u, b, j, fp, i)
    BY <1>2, <2>3, <2>6, <2>7 DEF Drops, Elsewhere, match
  <2> QED
    BY <2>2, <2>3, <2>8 DEF u
<1>3. CASE match = {} /\ ~(w.over[b] > 0)
  <2>1. u = w
    BY <1>3 DEF unset_stash_ptr, Matches
  <2>2. w.over[b] = 0
    BY <1>0, <1>3, SMTT(30)
  <2> QED
    BY <1>3, <2>1, <2>2 DEF Keeps
<1> QED
  BY <1>1, <1>2, <1>3

(* The next bucket may lose a tracker of an item that stays: what is left  *)
(* still stands for items of its own.                                      *)
LEMMA UnsetBooks ==
  ASSUME NEW sg, SegmentOK(sg), NEW b \in Buckets, NEW i, NEW fp
  PROVE  SegmentOK(unset_stash_ptr(sg, b, fp, i))
<1> DEFINE u == unset_stash_ptr(sg, b, fp, i)
<1>1. /\ u \in SegmentTypes /\ u.slot = sg.slot
      /\ Keeps(sg, u, b, fp, i) \/ \E j : Drops(sg, u, b, j, fp, i)
  BY UnsetDrops DEF SegmentOK
<1> HIDE DEF u
<1>2. ASSUME NEW c \in Buckets PROVE \E f : Assigns(u, c, f)
  <2>1. PICK f : Assigns(sg, c, f)
    BY DEF SegmentOK
  <2>2. /\ Trackers(u, c) \subseteq Trackers(sg, c)
        /\ \A m \in Trackers(u, c) \cap StashIds : u.ptr[c][m] = sg.ptr[c][m]
    <3>1. CASE u.ptr[c] = sg.ptr[c] /\ u.over[c] = sg.over[c]
      BY <3>1 DEF Trackers
    <3>2. CASE c = b /\ \E j : Drops(sg, u, b, j, fp, i)
      BY <3>2 DEF Drops
    <3> QED
      BY <1>1, <3>1, <3>2 DEF Keeps, Drops, Elsewhere
  <2> DEFINE f2 == [m \in Trackers(u, c) |-> f[m]]
  <2>3. \A m \in Trackers(u, c) : MayTrack(u, c, m, f2[m])
    BY <1>1, <2>1, <2>2, SMTT(30) DEF Assigns, MayTrack
  <2>4. \A m, n \in Trackers(u, c) : f2[m] = f2[n] => m = n
    BY <2>1, <2>2 DEF Assigns
  <2> QED
    BY <2>3, <2>4 DEF Assigns
<1> QED
  BY <1>1, <1>2 DEF SegmentOK, u

(* A stash item that is deleted goes with a tracker that could stand for   *)
(* it; the item that tracker stood for is left to the one of the deleted   *)
(* item.                                                                   *)
LEMMA DeletedBooks ==
  ASSUME NEW sg, SegmentOK(sg), NEW p \in StashPos, p \in Pos, sg.slot[p] # Empty
  PROVE  LET k == sg.slot[p].key
         IN  BooksFollow(sg, unset_stash_ptr(PutSlot(sg, p, Empty), home_bucket(k), fingerprint(k),
                                             p[1] - NumBuckets))
<1> DEFINE h == home_bucket(sg.slot[p].key)
           fp == fingerprint(sg.slot[p].key)
           i == p[1] - NumBuckets
           w == PutSlot(sg, p, Empty)
           u == unset_stash_ptr(w, h, fp, i)
<1>1. /\ sg.slot \in [Pos -> Items \cup {Empty}] /\ StashPos \subseteq Pos /\ h \in Buckets
      /\ sg.ptr \in [Buckets -> [StashIds -> Pointers \cup {NoPtr}]] /\ sg.over \in [Buckets -> Nat]
  <2>1. sg.slot \in [Pos -> Items \cup {Empty}] /\ StashPos \subseteq Pos
        /\ sg.ptr \in [Buckets -> [StashIds -> Pointers \cup {NoPtr}]] /\ sg.over \in [Buckets -> Nat]
    BY SegmentAssumption, SMTT(30) DEF SegmentOK, SegmentTypes, StashPos, Pos
  <2>2. sg.slot[p] \in Items
    BY <2>1
  <2>3. sg.slot[p].key \in Keys
    BY <2>2 DEF Items
  <2> QED
    BY <2>1, <2>3, SegmentAssumption
<1>2. /\ w \in SegmentTypes /\ w.ptr = sg.ptr /\ w.over = sg.over
      /\ w.slot[p] = Empty /\ \A q \in Pos \ {p} : w.slot[q] = sg.slot[q]
  BY <1>1 DEF PutSlot, SegmentTypes
<1>3. Matches(w, h, fp, i) = Matches(sg, h, fp, i) /\ \A b : Trackers(w, b) = Trackers(sg, b)
  BY <1>2 DEF Matches, Trackers
<1> HIDE DEF w, fp, i, h
<1>4. /\ u \in SegmentTypes /\ u.slot = w.slot
      /\ Keeps(w, u, h, fp, i) \/ \E j : Drops(w, u, h, j, fp, i)
  BY <1>1, <1>2, UnsetDrops
<1> HIDE DEF u
<1>5. ASSUME NEW b \in Buckets, NEW q, NEW m, MayTrack(sg, b, m, q), q # p,
             m \in StashIds => u.ptr[b][m] = sg.ptr[b][m]
      PROVE  MayTrack(u, b, m, q)
  <2>1. u.slot[q] = sg.slot[q]
    BY <1>1, <1>2, <1>4, <1>5 DEF MayTrack
  <2> QED
    BY <1>5, <2>1 DEF MayTrack
<1>6. ASSUME NEW b \in Buckets, NEW m \in Trackers(sg, b), MayTrack(sg, b, m, p)
      PROVE  b = h /\ (m \in StashIds => m \in Matches(sg, h, fp, i))
  <2>1. b = h
    BY <1>6 DEF MayTrack, h
  <2>2. ASSUME m \in StashIds PROVE m \in Matches(sg, h, fp, i)
    <3>0. NumBuckets \in Nat /\ NumStash \in Nat
      BY SegmentAssumption
    <3>1. sg.ptr[h][m] # NoPtr
      BY <1>6, <2>1, <2>2, <3>0, SMTT(30) DEF Trackers, StashIds
    <3>2. sg.ptr[h][m].fp = fp
      BY <1>6, <2>1, <2>2 DEF MayTrack, fp
    <3>3. sg.ptr[h][m] \in Pointers
      BY <1>1, <2>2, <3>1
    <3>4. sg.ptr[h][m].stash \in Int
      BY <3>3, <3>0, SMTT(30) DEF Pointers, StashIds
    <3>5. NumBuckets + sg.ptr[h][m].stash = p[1]
      BY <1>6, <2>1, <2>2 DEF MayTrack, StashBucket
    <3>6. sg.ptr[h][m].stash = i
      BY <3>0, <3>4, <3>5, SMTT(30) DEF i
    <3> QED
      BY <2>2, <3>1, <3>2, <3>6 DEF Matches
  <2> QED
    BY <2>1, <2>2
<1>7. ASSUME NEW b \in Buckets, NEW f, Assigns(sg, b, f)
      PROVE  \E e : Assigns(u, b, e) /\ (Covers(sg, b, f) => Covers(u, b, e))
  <2>1. Assigns(sg, b, f)
    BY <1>7
  <2>6. \A q \in StashPos : u.slot[q] # Empty => q # p /\ u.slot[q] = sg.slot[q] /\ sg.slot[q] # Empty
    BY <1>1, <1>2, <1>4
  <2>2. CASE u.ptr[b] = sg.ptr[b] /\ u.over[b] = sg.over[b]
             /\ (b = h => Matches(sg, h, fp, i) = {} /\ sg.over[h] = 0)
    <3>1. Trackers(u, b) = Trackers(sg, b)
      BY <2>2 DEF Trackers
    <3>2. ASSUME NEW m \in Trackers(sg, b) PROVE f[m] # p
      <4>1. SUFFICES ASSUME f[m] = p PROVE FALSE
        OBVIOUS
      <4>2. b = h /\ (m \in StashIds => m \in Matches(sg, h, fp, i))
        BY <1>6, <2>1, <4>1 DEF Assigns
      <4>3. NumStash \in Nat /\ sg.over[b] = 0
        BY <2>2, <4>2, SegmentAssumption
      <4>4. m \in StashIds
        BY <4>3, SMTT(30) DEF Trackers
      <4> QED
        BY <2>2, <4>2, <4>4
    <3>3. \A m \in Trackers(u, b) : MayTrack(u, b, m, f[m])
      BY <1>5, <2>1, <2>2, <3>1, <3>2 DEF Assigns
    <3>4. Covers(sg, b, f) => Covers(u, b, f)
      BY <2>6, <3>1 DEF Covers
    <3> QED
      BY <2>1, <3>1, <3>3, <3>4 DEF Assigns
  <2>3. ASSUME b = h, NEW j, Drops(w, u, h, j, fp, i)
        PROVE  \E e : Assigns(u, b, e) /\ (Covers(sg, b, f) => Covers(u, b, e))
    <3>1. /\ j \in Trackers(sg, b) /\ Trackers(u, b) = Trackers(sg, b) \ {j}
          /\ \A m \in StashIds \ {j} : u.ptr[b][m] = sg.ptr[b][m]
          /\ IF j \in StashIds THEN j \in Matches(sg, h, fp, i) ELSE Matches(sg, h, fp, i) = {}
      BY <1>2, <1>3, <2>3 DEF Drops
    <3> DEFINE e == [m \in Trackers(u, b) |-> IF f[m] = p THEN f[j] ELSE f[m]]
    <3>2. \A m \in Trackers(u, b) : m \in Trackers(sg, b) /\ m # j /\ MayTrack(sg, b, m, f[m]) /\ f[m] # f[j]
      BY <2>1, <3>1 DEF Assigns
    <3>3. ASSUME NEW m \in Trackers(u, b) PROVE MayTrack(u, b, m, e[m])
      <4>1. CASE f[m] # p
        BY <1>5, <3>1, <3>2, <4>1
      <4>2. CASE f[m] = p
        <5>1. MayTrack(sg, b, j, f[j]) /\ f[j] # p
          BY <2>1, <3>1, <3>2, <4>2 DEF Assigns
        <5>2. ASSUME m \in StashIds
              PROVE  sg.ptr[b][m].fp = sg.ptr[b][j].fp /\ sg.ptr[b][m].stash = sg.ptr[b][j].stash
                     /\ j \in StashIds
          <6>1. m \in Matches(sg, h, fp, i)
            BY <1>6, <3>2, <4>2, <5>2
          <6> QED
            BY <2>3, <3>1, <6>1 DEF Matches
        <5>3. MayTrack(sg, b, m, f[j])
          BY <3>2, <5>1, <5>2 DEF MayTrack
        <5>4. MayTrack(u, b, m, f[j])
          BY <1>5, <3>1, <3>2, <5>1, <5>3
        <5> QED
          BY <4>2, <5>4
      <4> QED
        BY <4>1, <4>2
    <3>4. \A m, n \in Trackers(u, b) : e[m] = e[n] => m = n
      BY <2>1, <3>2 DEF Assigns
    <3>5. ASSUME Covers(sg, b, f), NEW q \in StashPos, u.slot[q] # Empty, home_bucket(u.slot[q].key) = b
          PROVE  \E m \in Trackers(u, b) : e[m] = q
      <4>1. PICK m \in Trackers(sg, b) : f[m] = q
        BY <2>6, <3>5 DEF Covers
      <4>2. PICK n \in Trackers(sg, b) : f[n] = p
        BY <2>3, <3>5 DEF Covers, h
      <4>3. q # p
        BY <2>6, <3>5
      <4>4. CASE m # j
        BY <3>1, <4>1, <4>3, <4>4
      <4>5. CASE m = j
        <5>1. n # j /\ n \in Trackers(u, b)
          BY <3>1, <4>1, <4>2, <4>3, <4>5
        <5> QED
          BY <4>1, <4>2, <4>5, <5>1
      <4> QED
        BY <4>4, <4>5
    <3>6. Covers(sg, b, f) => Covers(u, b, e)
      <4> HIDE DEF e
      <4> QED
        BY <3>5 DEF Covers
    <3> QED
      BY <3>3, <3>4, <3>6 DEF Assigns
  <2>4. CASE b # h /\ \E j : Drops(w, u, h, j, fp, i)
    BY <1>2, <2>2, <2>4 DEF Drops, Elsewhere
  <2>5. CASE Keeps(w, u, h, fp, i)
    BY <1>2, <1>3, <2>2, <2>5 DEF Keeps
  <2> QED
    BY <1>4, <2>3, <2>4, <2>5
<1> QED
  BY <1>4, <1>7 DEF BooksFollow, u, w, h, fp, i

-----------------------------------------------------------------------------
(* The operations on a segment keep its books. *)
LEMMA PutBooks ==
  ASSUME NEW sg, SegmentOK(sg), NEW p \in Pos, NEW item \in Items \cup {Empty},
         p \in StashPos => sg.slot[p] # Empty /\ item # Empty /\ item.key = sg.slot[p].key
  PROVE  BooksFollow(sg, PutSlot(sg, p, item))
<1> DEFINE slot == [sg.slot EXCEPT ![p] = item]
<1>1. sg.slot \in [Pos -> Items \cup {Empty}] /\ StashPos \subseteq Pos
  BY SegmentAssumption, SMTT(30) DEF SegmentOK, SegmentTypes, StashPos, Pos
<1>2. slot \in [Pos -> Items \cup {Empty}]
  BY <1>1
<1>3. /\ \A q \in StashPos : sg.slot[q] # Empty => slot[q] # Empty /\ slot[q].key = sg.slot[q].key
      /\ \A q \in StashPos : slot[q] # Empty => sg.slot[q] # Empty
  BY <1>1
<1>4. PutSlot(sg, p, item) = [slot |-> slot, ptr |-> sg.ptr, over |-> sg.over]
  BY DEF PutSlot
<1> HIDE DEF slot
<1> QED
  BY <1>2, <1>3, <1>4, SameBooks

LEMMA InsertNewBooks ==
  ASSUME NEW sg, SegmentOK(sg), NEW k \in Keys, NEW v \in Vals, ~Full(sg, k)
  PROVE  BooksFollow(sg, insert_new(sg, k, v))
<1> DEFINE home == home_bucket(k)
           next == next_bucket(home)
           J == {j \in StashIds : ~is_full(sg, StashBucket(j))}
           i == Least(J)
<1>1. ASSUME NEW b, ~is_full(sg, b)
      PROVE  First(Free(sg, b)) \in Pos /\ First(Free(sg, b))[1] = b /\ sg.slot[First(Free(sg, b))] = Empty
  <2>1. Free(sg, b) \in SUBSET Pos /\ Free(sg, b) # {}
    BY <1>1 DEF is_full, Free, InBucket
  <2>2. First(Free(sg, b)) \in Free(sg, b)
    BY <2>1, FirstIn
  <2> QED
    BY <2>2 DEF Free, InBucket, Occupied
<1>0. home \in Buckets /\ next \in Buckets
  <2>1. NumBuckets \in Nat \ {0} /\ home \in 0 .. NumBuckets - 1
    BY SegmentAssumption DEF Buckets
  <2> HIDE DEF home
  <2> QED
    BY <2>1, SMTT(30) DEF next_bucket, Buckets
<1>2. ASSUME NEW b \in Buckets, ~is_full(sg, b), NEW probing \in BOOLEAN
      PROVE  BooksFollow(sg, try_insert(sg, b, k, v, probing))
  <2>1. [key |-> k, val |-> v, probing |-> probing] \in Items
    BY DEF Items
  <2>2. First(Free(sg, b)) \notin StashPos
    BY <1>1, <1>2, SegmentAssumption, SMTT(30) DEF StashPos, Buckets
  <2> QED
    BY <1>1, <1>2, <2>1, <2>2, PutBooks DEF try_insert
<1>3. CASE ~is_full(sg, home) \/ ~is_full(sg, next)
  <2>1. \/ ~is_full(sg, home) /\ insert_new(sg, k, v) = try_insert(sg, home, k, v, FALSE)
        \/ ~is_full(sg, next) /\ insert_new(sg, k, v) = try_insert(sg, next, k, v, TRUE)
    BY <1>3 DEF insert_new
  <2> QED
    BY <1>0, <1>2, <2>1
<1>4. CASE is_full(sg, home) /\ is_full(sg, next)
  <2>1. i \in J
    <3>1. J \in SUBSET Nat /\ J # {}
      BY <1>4, SegmentAssumption, SMTT(30) DEF Full, StashIds
    <3> QED
      BY <3>1, LeastIn
  <2>2. insert_new(sg, k, v) = set_stash_ptr(try_insert(sg, StashBucket(i), k, v, FALSE),
                                             home, i, fingerprint(k), FALSE)
    BY <1>4 DEF insert_new
  <2> HIDE DEF i
  <2> DEFINE p == First(Free(sg, StashBucket(i)))
  <2>3. i \in StashIds /\ p \in Pos /\ p[1] = StashBucket(i) /\ sg.slot[p] = Empty
    BY <1>1, <2>1
  <2>4. p \in StashPos
    BY <2>3, SegmentAssumption, SMTT(30) DEF Pos, StashPos, StashBucket, StashIds
  <2>5. try_insert(sg, StashBucket(i), k, v, FALSE)
          = PutSlot(sg, p, [key |-> k, val |-> v, probing |-> FALSE])
    BY DEF try_insert
  <2> HIDE DEF p
  <2> QED
    BY <2>2, <2>3, <2>4, <2>5, InsertedBooks
<1> QED
  BY <1>3, <1>4

LEMMA DeleteBooks ==
  ASSUME NEW sg, SegmentOK(sg), NEW p \in Pos, sg.slot[p] # Empty
  PROVE  SegmentOK(delete(sg, p))
<1> DEFINE k == sg.slot[p].key
           home == home_bucket(k)
           i == p[1] - NumBuckets
           rest == PutSlot(sg, p, Empty)
           fp == fingerprint(k)
<1>0. NumBuckets \in Nat \ {0} /\ NumStash \in Nat \ {0} /\ NumSlots \in Nat \ {0}
  BY SegmentAssumption
<1>1. CASE p[1] < NumBuckets
  <2>1. p \notin StashPos
    BY <1>0, <1>1, SMTT(30) DEF StashPos
  <2>2. SegmentOK(rest)
    BY <2>1, PutBooks, Follows
  <2> QED
    BY <1>1, <2>2 DEF delete
<1>2. CASE ~(p[1] < NumBuckets)
  <2>1. p \in StashPos
    BY <1>0, <1>2, SMTT(30) DEF Pos, StashPos
  <2>2. next_bucket(home) \in Buckets
    <3>1. sg.slot[p] \in Items
      BY DEF SegmentOK, SegmentTypes
    <3>2. k \in Keys
      BY <3>1 DEF Items
    <3>3. home \in Buckets
      BY <3>2, SegmentAssumption
    <3> HIDE DEF home
    <3> QED
      BY <1>0, <3>3, SMTT(30) DEF next_bucket, Buckets
  <2>3. delete(sg, p) = unset_stash_ptr(unset_stash_ptr(rest, home, fp, i), next_bucket(home), fp, i)
    BY <1>2 DEF delete
  <2>4. SegmentOK(unset_stash_ptr(rest, home, fp, i))
    BY <2>1, DeletedBooks, Follows
  <2> HIDE DEF home, fp, i, rest
  <2> QED
    BY <2>2, <2>3, <2>4, UnsetBooks
<1> QED
  BY <1>1, <1>2

-----------------------------------------------------------------------------
(* A step of the table replaces one segment by one with right books, or    *)
(* all of them by new ones.                                                *)
LEMMA OneSegment ==
  ASSUME IInv, BooksInv, NEW g \in DOMAIN segs, NEW u, SegmentOK(u), segs' = [segs EXCEPT ![g] = u]
  PROVE  \A h \in DOMAIN segs' : SegmentOK(segs'[h])
BY DEF BooksInv, IInv, TableOK

LEMMA NewBooksAll ==
  ASSUME NEW n, segs' = NewSegs(n)
  PROVE  \A h \in DOMAIN segs' : SegmentOK(segs'[h])
BY NewBooks DEF NewSegs

LEMMA BooksStep == IInv /\ BooksInv /\ [Next]_vars => BooksInv'
<1> SUFFICES ASSUME IInv, BooksInv, [Next]_vars PROVE BooksInv'
  OBVIOUS
<1>0. TableOK(segs) /\ \A k \in Keys : seg_id(segs, k) \in DOMAIN segs
  BY SegIdIn DEF IInv
<1>i. "idle" = Idle.what
  BY DEF Idle
<1>1. CASE segs' = segs /\ (job' = job \/ job'.what \in {"idle", "retain", "panic"})
  BY <1>1 DEF BooksInv
<1>2. ASSUME NEW k \in Keys, NEW v \in Vals,
             LET g == seg_id(segs, k)
             IN  ~Full(segs[g], k) /\ segs' = [segs EXCEPT ![g] = insert_new(@, k, v)]
      PROVE  \A h \in DOMAIN segs' : SegmentOK(segs'[h])
  BY <1>0, <1>2, InsertNewBooks, Follows, OneSegment DEF BooksInv
<1>3. ASSUME NEW x \in Entries(segs), segs' = [segs EXCEPT ![x[1]] = delete(@, x[2])]
      PROVE  \A h \in DOMAIN segs' : SegmentOK(segs'[h])
  <2>1. x[1] \in DOMAIN segs /\ x[2] \in Pos /\ segs[x[1]].slot[x[2]] # Empty
    BY DEF Entries
  <2> QED
    BY <1>3, <2>1, DeleteBooks, OneSegment DEF BooksInv
<1>4. ASSUME NEW k, NEW v, NEW tries, StartGrow(k, v, tries) PROVE BooksInv'
  BY <1>4, NewBooksAll DEF StartGrow, BooksInv
<1>5. CASE Panic
  BY <1>1, <1>5, <1>i, SMTT(30) DEF Panic
<1>6. ASSUME NEW k \in Keys, NEW v \in Vals, Insert(k, v) PROVE BooksInv'
  <2> DEFINE g == seg_id(segs, k)
             P == find(segs[g], k)
             p == First(P)
  <2>1. CASE P # {} /\ segs' = [segs EXCEPT ![g] = PutSlot(@, p, [segs[g].slot[p] EXCEPT !.val = v])]
             /\ UNCHANGED job
    <3>1. g \in DOMAIN segs /\ p \in Pos /\ segs[g].slot[p] # Empty /\ segs[g].slot[p] \in Items
      BY <1>0, <2>1, FoundEntry
    <3> HIDE DEF g, p
    <3>2. [segs[g].slot[p] EXCEPT !.val = v] \in Items
          /\ [segs[g].slot[p] EXCEPT !.val = v].key = segs[g].slot[p].key
      BY <3>1 DEF Items
    <3>3. Empty \notin Items
      BY SegmentAssumption DEF Items
    <3>4. SegmentOK(PutSlot(segs[g], p, [segs[g].slot[p] EXCEPT !.val = v]))
      BY <3>1, <3>2, <3>3, PutBooks, Follows DEF BooksInv
    <3> QED
      BY <2>1, <3>1, <3>4, OneSegment DEF BooksInv
  <2>2. CASE ~Full(segs[g], k) /\ segs' = [segs EXCEPT ![g] = insert_new(@, k, v)] /\ UNCHANGED job
    BY <1>2, <2>2 DEF BooksInv
  <2> QED
    BY <1>4, <1>6, <2>1, <2>2 DEF Insert
<1>7. ASSUME NEW k \in Keys, Remove(k) PROVE BooksInv'
  <2> DEFINE g == seg_id(segs, k)
             P == find(segs[g], k)
             x == <<g, First(P)>>
  <2>1. CASE P = {}
    BY <1>1, <1>7, <2>1 DEF Remove
  <2>2. CASE P # {}
    <3>1. x \in Entries(segs)
      BY <1>0, <2>2, FoundEntry
    <3>2. segs' = [segs EXCEPT ![x[1]] = delete(@, x[2])] /\ job' = job
      BY <1>7, <2>2 DEF Remove
    <3> HIDE DEF x
    <3> QED
      BY <1>3, <3>1, <3>2 DEF BooksInv
  <2> QED
    BY <2>1, <2>2
<1>8. CASE Reinsert
  <2> DEFINE x == NextLeft
             k == EntryKey(job.old, x)
             v == EntryVal(job.old, x)
             g == seg_id(segs, k)
  <2>1. /\ job.what = "grow" /\ job.left # {} /\ TableOK(job.old) /\ job.left \in SUBSET Entries(job.old)
        /\ job = [what |-> "grow", key |-> job.key, val |-> job.val, tries |-> job.tries,
                  old |-> job.old, left |-> job.left]
    BY <1>8 DEF Reinsert, IInv, JobOK
  <2>2. x \in job.left
    BY <2>1, Extremes DEF NextLeft
  <2> HIDE DEF x
  <2>3. k \in Keys /\ v \in Vals
    BY <2>1, <2>2, EntryTyped DEF EntryKey, EntryVal
  <2>4. CASE ~Full(segs[g], k) /\ segs' = [segs EXCEPT ![g] = insert_new(@, k, v)]
             /\ job' = [job EXCEPT !.left = @ \ {x}]
    <3>1. job'.what = "grow"
      BY <2>1, <2>4
    <3> HIDE DEF k, v
    <3> QED
      BY <1>2, <2>3, <2>4, <3>1 DEF BooksInv
  <2> QED
    BY <1>5, <1>8, <2>4 DEF Reinsert, x
<1>9. CASE insert_no_dup
  <2> DEFINE k == job.key
             g == seg_id(segs, k)
  <2>1. k \in Keys /\ job.val \in Vals
    BY <1>9 DEF insert_no_dup, IInv, JobOK
  <2>2. CASE ~Full(segs[g], k) /\ segs' = [segs EXCEPT ![g] = insert_new(@, k, job.val)] /\ job' = Idle
    BY <1>2, <1>i, <2>1, <2>2 DEF BooksInv
  <2> QED
    BY <1>4, <1>5, <1>9, <2>2 DEF insert_no_dup
<1>10. CASE retain
  <2> DEFINE x == CHOOSE x \in job.left : \A y \in job.left \ {x} : EntryBefore(y, x)
  <2>1. job = [what |-> "retain", left |-> job.left] /\ job.left \in SUBSET Entries(segs)
    BY <1>10 DEF retain, IInv, JobOK
  <2>2. CASE job.left # {} /\ segs' = [segs EXCEPT ![x[1]] = delete(@, x[2])]
             /\ job' = [job EXCEPT !.left = @ \ {x}]
    <3>1. x \in job.left
      BY <1>0, <2>1, <2>2, Extremes
    <3> HIDE DEF x
    <3>2. job'.what = "retain"
      BY <2>1, <2>2, SMTT(30)
    <3> QED
      BY <1>3, <2>1, <2>2, <3>1, <3>2 DEF BooksInv
  <2>3. CASE job' = Idle /\ segs' = segs
    BY <1>1, <1>i, <2>3
  <2> QED
    BY <1>10, <2>2, <2>3 DEF retain
<1>11. CASE clear
  <2>1. segs' = NewSegs(InitSegs) /\ job' = job
    BY <1>11 DEF clear
  <2> QED
    BY <2>1, NewBooksAll DEF BooksInv
<1>12. ASSUME NEW D, StartRetain(D) PROVE BooksInv'
  BY <1>1, <1>12 DEF StartRetain
<1>13. CASE (\E k \in Keys : Find(k)) \/ Iter \/ Len \/ UNCHANGED vars
  BY <1>1, <1>13 DEF Find, Iter, Len, vars
<1> QED
  BY <1>6, <1>7, <1>8, <1>9, <1>10, <1>11, <1>12, <1>13 DEF Next

(* The table stays what Segments describes: in particular no bucket counts *)
(* more stash items than the stash has room for, so that its count (a u8,  *)
(* lowered only when positive) neither overflows nor underflows, although  *)
(* deleting an item may take trackers of two buckets off the books.        *)
THEOREM CountsNeverOverflow == Spec => []TypeOK
<1>1. Init => BooksInv
  BY NewBooks, SMTT(30) DEF Init, NewSegs, Idle, BooksInv
<1>2. IInv /\ BooksInv => TypeOK
  <2> SUFFICES ASSUME IInv, BooksInv PROVE TypeOK
    OBVIOUS
  <2>1. ASSUME NEW g \in DOMAIN segs PROVE segs[g] \in Segments
    <3>1. SegmentOK(segs[g]) /\ segs[g] \in SegmentTypes
      BY DEF BooksInv, SegmentOK
    <3>2. \A b \in Buckets : segs[g].over[b] \in 0 .. NumStash * NumSlots
      BY <3>1, CountFits
    <3> QED
      BY <3>1, <3>2 DEF SegmentTypes, Segments
  <2>2. DOMAIN segs = 0 .. Count(segs) - 1
    BY SegIdIn DEF IInv
  <2>3. size \in Nat
    BY EntriesFinite DEF IInv
  <2> QED
    BY <2>1, <2>2, <2>3 DEF TypeOK, BooksInv
<1> QED
  BY <1>1, <1>2, Invariant, BooksStep, PTL DEF Spec
=============================================================================
