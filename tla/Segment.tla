------------------------------- MODULE Segment -------------------------------
(***************************************************************************)
(* One segment of a DashTable: NumBuckets buckets and NumStash stash       *)
(* buckets of NumSlots slots.  A key goes to its home bucket, else to the  *)
(* next bucket (where it is "probing"), else to a stash bucket.  The home  *)
(* bucket tracks its stash items with NumStash pointers (fingerprint and   *)
(* stash bucket) and, when these run out, with a count.                    *)
(*                                                                         *)
(* Left out: the bit layout of the bitmaps, the counters item_count and    *)
(* SlotBitmap.size (the number of occupied slots), and the has_stash bit,  *)
(* which is set exactly when a pointer is in use or the count is positive. *)
(***************************************************************************)
EXTENDS Integers, FiniteSets

CONSTANTS
  Keys,
  Vals,
  HashOf,      \* key -> [seg, home, fp]: bits 48.., 8..13 and 0..7 of its hash
  NumBuckets,  \* 64
  NumSlots,    \* 12
  NumStash,    \* 4
  Empty,       \* a free slot
  NoPtr        \* a free stash pointer

Buckets == 0 .. NumBuckets - 1
StashIds == 0 .. NumStash - 1
Slots == 0 .. NumSlots - 1
Pos == (0 .. NumBuckets + NumStash - 1) \X Slots

Seg(k) == HashOf[k].seg
home_bucket(k) == HashOf[k].home
fingerprint(k) == HashOf[k].fp
Fingerprints == {fingerprint(k) : k \in Keys}

ASSUME SegmentAssumption ==
  /\ NumBuckets \in Nat \ {0} /\ NumSlots \in Nat \ {0} /\ NumStash \in Nat \ {0}
  /\ \A k \in Keys : Seg(k) \in Nat /\ home_bucket(k) \in Buckets
  /\ Empty \notin [key : Keys, val : Vals, probing : BOOLEAN]
  /\ NoPtr \notin [fp : Fingerprints, stash : StashIds, probe : BOOLEAN]

Items == [key : Keys, val : Vals, probing : BOOLEAN]
Pointers == [fp : Fingerprints, stash : StashIds, probe : BOOLEAN]

(* The number of tracked stash items is at most the room in the stash: the *)
(* count of a bucket, a u8, does not overflow.                             *)
Segments ==
  [slot : [Pos -> Items \cup {Empty}],
   ptr : [Buckets -> [StashIds -> Pointers \cup {NoPtr}]],
   over : [Buckets -> 0 .. NumStash * NumSlots]]

NewSegment ==
  [slot |-> [p \in Pos |-> Empty],
   ptr |-> [b \in Buckets |-> [i \in StashIds |-> NoPtr]],
   over |-> [b \in Buckets |-> 0]]

next_bucket(b) == IF b < NumBuckets - 1 THEN b + 1 ELSE 0

StashBucket(i) == NumBuckets + i

(* Slots are visited bucket by bucket, each from its lowest slot on. *)
Before(p, q) == p[1] < q[1] \/ (p[1] = q[1] /\ p[2] < q[2])
First(P) == CHOOSE p \in P : \A q \in P \ {p} : Before(p, q)
Least(S) == CHOOSE i \in S : \A j \in S : i <= j

Occupied(sg) == {p \in Pos : sg.slot[p] # Empty}
InBucket(b) == {p \in Pos : p[1] = b}
Free(sg, b) == InBucket(b) \ Occupied(sg)
is_full(sg, b) == Free(sg, b) = {}

-----------------------------------------------------------------------------
(* Looking a key up.  A stored fingerprint is that of the stored key, so   *)
(* comparing fingerprints before keys changes nothing here.                *)
find_in_bucket(sg, b, probe, k) ==
  {p \in InBucket(b) \cap Occupied(sg) : sg.slot[p].key = k /\ sg.slot[p].probing = probe}

has_stash_overflow(sg, b) == sg.over[b] > 0

has_stash(sg, b) == has_stash_overflow(sg, b) \/ \E i \in StashIds : sg.ptr[b][i] # NoPtr

InStash(sg, i, k) == {p \in InBucket(StashBucket(i)) \cap Occupied(sg) : sg.slot[p].key = k}

PtrMatches(sg, b, fp, probe) ==
  {i \in StashIds : sg.ptr[b][i] # NoPtr /\ sg.ptr[b][i].fp = fp /\ sg.ptr[b][i].probe = probe}

(* The slots of k in the stash bucket of the first pointer that leads to k. *)
find_in_stash_via_ptrs(sg, b, probe, k) ==
  LET hits == {i \in PtrMatches(sg, b, fingerprint(k), probe) :
                 InStash(sg, sg.ptr[b][i].stash, k) # {}}
  IN  IF hits = {} THEN {} ELSE InStash(sg, sg.ptr[b][Least(hits)].stash, k)

FindInStash(sg, k) ==
  LET home == home_bucket(k)
      next == next_bucket(home)
      viaHome == find_in_stash_via_ptrs(sg, home, FALSE, k)
  IN  CASE ~has_stash(sg, home) -> {}
        [] has_stash_overflow(sg, home) ->
             UNION {find_in_bucket(sg, StashBucket(i), FALSE, k) : i \in StashIds}
        [] OTHER -> IF viaHome # {} THEN viaHome
                                    ELSE find_in_stash_via_ptrs(sg, next, TRUE, k)

(* Mutant: the next bucket is not searched. *)
find_skips_next(sg, k) ==
  LET own == find_in_bucket(sg, home_bucket(k), FALSE, k)
      P == IF own # {} THEN own ELSE FindInStash(sg, k)
  IN  IF P = {} THEN {} ELSE {First(P)}

(* The slot at which k is found: a set with at most one element. *)
find(sg, k) ==
  LET home == home_bucket(k)
      own == find_in_bucket(sg, home, FALSE, k)
      probing == find_in_bucket(sg, next_bucket(home), TRUE, k)
      P == CASE own # {} -> own
             [] own = {} /\ probing # {} -> probing
             [] OTHER -> FindInStash(sg, k)
  IN  IF P = {} THEN {} ELSE {First(P)}

-----------------------------------------------------------------------------
(* Changing a segment. *)
PutSlot(sg, p, item) ==
  [slot |-> [sg.slot EXCEPT ![p] = item], ptr |-> sg.ptr, over |-> sg.over]

SetPtr(sg, b, i, ptr) ==
  [slot |-> sg.slot, ptr |-> [sg.ptr EXCEPT ![b] = [@ EXCEPT ![i] = ptr]], over |-> sg.over]

SetOver(sg, b, n) == [slot |-> sg.slot, ptr |-> sg.ptr, over |-> [sg.over EXCEPT ![b] = n]]

try_insert(sg, b, k, v, probing) ==
  PutSlot(sg, First(Free(sg, b)), [key |-> k, val |-> v, probing |-> probing])

(* Mutant: an item beyond the pointers is not counted. *)
set_stash_ptr_uncounted(sg, b, i, fp, probe) ==
  LET unused == {j \in StashIds : sg.ptr[b][j] = NoPtr}
  IN  IF unused # {}
      THEN SetPtr(sg, b, Least(unused), [fp |-> fp, stash |-> i, probe |-> probe])
      ELSE sg

set_stash_ptr(sg, b, i, fp, probe) ==
  LET unused == {j \in StashIds : sg.ptr[b][j] = NoPtr}
  IN  IF unused # {}
      THEN SetPtr(sg, b, Least(unused), [fp |-> fp, stash |-> i, probe |-> probe])
      ELSE SetOver(sg, b, sg.over[b] + 1)

(* Mutant: the count is lowered whether or not it is positive. *)
unset_stash_ptr_unguarded(sg, b, fp, i) ==
  LET match == {j \in StashIds : sg.ptr[b][j] # NoPtr /\ sg.ptr[b][j].fp = fp
                                 /\ sg.ptr[b][j].stash = i}
  IN  IF match # {} THEN SetPtr(sg, b, Least(match), NoPtr) ELSE SetOver(sg, b, sg.over[b] - 1)

unset_stash_ptr(sg, b, fp, i) ==
  LET match == {j \in StashIds : sg.ptr[b][j] # NoPtr /\ sg.ptr[b][j].fp = fp
                                 /\ sg.ptr[b][j].stash = i}
  IN  CASE match # {} -> SetPtr(sg, b, Least(match), NoPtr)
        [] match = {} /\ sg.over[b] > 0 -> SetOver(sg, b, sg.over[b] - 1)
        [] OTHER -> sg

(* insert_new fails on a segment that is full for k. *)
Full(sg, k) ==
  /\ is_full(sg, home_bucket(k))
  /\ is_full(sg, next_bucket(home_bucket(k)))
  /\ \A i \in StashIds : is_full(sg, StashBucket(i))

insert_new(sg, k, v) ==
  LET home == home_bucket(k)
      next == next_bucket(home)
      i == Least({j \in StashIds : ~is_full(sg, StashBucket(j))})
  IN  CASE ~is_full(sg, home) -> try_insert(sg, home, k, v, FALSE)
        [] is_full(sg, home) /\ ~is_full(sg, next) -> try_insert(sg, next, k, v, TRUE)
        [] OTHER -> set_stash_ptr(try_insert(sg, StashBucket(i), k, v, FALSE),
                                  home, i, fingerprint(k), FALSE)

(* The item at p goes; a stash item is taken off the books of its home     *)
(* bucket and of the next bucket.                                          *)
delete(sg, p) ==
  LET k == sg.slot[p].key
      home == home_bucket(k)
      i == p[1] - NumBuckets
      rest == PutSlot(sg, p, Empty)
  IN  IF p[1] < NumBuckets
      THEN rest
      ELSE unset_stash_ptr(unset_stash_ptr(rest, home, fingerprint(k), i),
                           next_bucket(home), fingerprint(k), i)
=============================================================================
