---------------------------- MODULE DashViewProofs ---------------------------
(***************************************************************************)
(* What the users of a DashTable see, for every number of buckets, slots,  *)
(* stash buckets, segments and keys and every hash.  The table is a map,   *)
(* as long as no delete takes the stash record of another key and no panic *)
(* is caught.  A SCAN iteration during which entries are only added or     *)
(* replaced misses no key, whatever the COUNT of its calls, also in a      *)
(* table in which find misses an entry.                                    *)
(***************************************************************************)
EXTENDS DashMap, DashScan, DashTableProofs

(* The prover of the leaves that name none. *)
USE ZenonT(40)

UniqueKeys(t) == \A x, y \in Entries(t) : EntryKey(t, x) = EntryKey(t, y) => x = y

(* A table in which every entry is found. *)
Sound(t) ==
  /\ TableOK(t) /\ PlacedIn(t) /\ UniqueKeys(t)
  /\ \A g \in DOMAIN t : SegmentOK(t[g]) /\ Tracked(t[g])

-----------------------------------------------------------------------------
LEMMA NextIn == \A b \in Buckets : next_bucket(b) \in Buckets
BY SegmentAssumption, SMTT(30) DEF Buckets, next_bucket

(* find looks where a tracker of the stash item leads. *)
LEMMA InStashFound ==
  ASSUME NEW sg, SegmentOK(sg), Tracked(sg), NEW p \in StashPos, p \in Pos, sg.slot[p] # Empty,
         sg.slot[p].probing = FALSE, NEW k \in Keys, sg.slot[p].key = k
  PROVE  FindInStash(sg, k) # {}
<1> DEFINE h == home_bucket(k)
<1>0. h \in Buckets /\ NumBuckets \in Nat /\ NumStash \in Nat \ {0}
  BY SegmentAssumption
<1>1. PICK f : Assigns(sg, h, f) /\ Covers(sg, h, f)
  BY <1>0 DEF Tracked
<1>2. PICK m \in Trackers(sg, h) : f[m] = p
  BY <1>1 DEF Covers
<1>3. MayTrack(sg, h, m, p)
  BY <1>1, <1>2 DEF Assigns
<1> HIDE DEF h
<1>4. CASE sg.over[h] > 0
  <2> DEFINE i == p[1] - NumBuckets
  <2>1. i \in StashIds /\ StashBucket(i) = p[1]
    BY <1>0, SMTT(30) DEF StashPos, StashIds, StashBucket
  <2>2. p \in find_in_bucket(sg, StashBucket(i), FALSE, k)
    BY <2>1 DEF find_in_bucket, InBucket, Occupied
  <2>3. FindInStash(sg, k) = UNION {find_in_bucket(sg, StashBucket(j), FALSE, k) : j \in StashIds}
    BY <1>4 DEF FindInStash, has_stash, has_stash_overflow, h
  <2> QED
    BY <2>1, <2>2, <2>3
<1>5. CASE ~(sg.over[h] > 0)
  <2> DEFINE hits == {i \in PtrMatches(sg, h, fingerprint(k), FALSE) : InStash(sg, sg.ptr[h][i].stash, k) # {}}
             viaHome == find_in_stash_via_ptrs(sg, h, FALSE, k)
  <2>1. m \in StashIds /\ sg.ptr[h][m] # NoPtr
    <3>1. sg.over[h] \in Nat
      BY <1>0 DEF SegmentOK, SegmentTypes
    <3> QED
      BY <1>0, <1>2, <1>5, <3>1, SMTT(30) DEF Trackers
  <2>2. m \in PtrMatches(sg, h, fingerprint(k), FALSE)
    BY <1>3, <2>1 DEF MayTrack, PtrMatches
  <2>3. p \in InStash(sg, sg.ptr[h][m].stash, k)
    BY <1>3, <2>1 DEF MayTrack, InStash, InBucket, Occupied
  <2>4. m \in hits
    BY <2>2, <2>3
  <2>5. hits \in SUBSET Nat
    BY <1>0, SMTT(30) DEF PtrMatches, StashIds
  <2>6. Least(hits) \in hits
    BY <2>4, <2>5, LeastIn
  <2>7. viaHome # {}
    BY <2>4, <2>6 DEF find_in_stash_via_ptrs
  <2>8. has_stash(sg, h)
    BY <2>1 DEF has_stash
  <2> HIDE DEF viaHome
  <2> QED
    BY <1>5, <2>7, <2>8 DEF FindInStash, has_stash_overflow, h, viaHome
<1> QED
  BY <1>4, <1>5

(* An item that is where it may be is found there, if its key is nowhere   *)
(* else in the segment.                                                    *)
LEMMA FoundInSegment ==
  ASSUME NEW sg, SegmentOK(sg), Tracked(sg), NEW p \in Pos, sg.slot[p] # Empty,
         NEW k \in Keys, sg.slot[p].key = k, GoodPlace(sg.slot[p], p[1]),
         \A q \in Pos : sg.slot[q] # Empty /\ sg.slot[q].key = k => q = p
  PROVE  find(sg, k) = {p}
<1> DEFINE own == find_in_bucket(sg, home_bucket(k), FALSE, k)
           probing == find_in_bucket(sg, next_bucket(home_bucket(k)), TRUE, k)
           Q == CASE own # {} -> own
                  [] own = {} /\ probing # {} -> probing
                  [] OTHER -> FindInStash(sg, k)
<1>0. /\ sg.slot[p].probing \in BOOLEAN
      /\ NumBuckets \in Nat /\ NumStash \in Nat /\ p[1] \in 0 .. NumBuckets + NumStash - 1 /\ p[2] \in Slots
  <2>1. sg.slot[p] \in Items
    BY DEF SegmentOK, SegmentTypes
  <2> QED
    BY <2>1, SegmentAssumption DEF Items, Pos
<1>1. own # {} \/ probing # {} \/ FindInStash(sg, k) # {}
  <2>1. CASE p[1] = home_bucket(k) /\ ~sg.slot[p].probing
    <3>1. p \in own
      BY <1>0, <2>1 DEF find_in_bucket, InBucket, Occupied
    <3> QED
      BY <3>1
  <2>2. CASE p[1] = next_bucket(home_bucket(k)) /\ sg.slot[p].probing
    <3>1. p \in probing
      BY <1>0, <2>2 DEF find_in_bucket, InBucket, Occupied
    <3> QED
      BY <3>1
  <2>3. CASE p[1] >= NumBuckets /\ ~sg.slot[p].probing
    <3>1. p \in StashPos
      BY <1>0, <2>3, SMTT(30) DEF StashPos, Pos
    <3> QED
      BY <1>0, <2>3, <3>1, InStashFound
  <2> QED
    BY <2>1, <2>2, <2>3 DEF GoodPlace
<1>2. Q # {}
  BY <1>1
<1>3. find(sg, k) = {First(Q)}
  BY <1>2 DEF find
<1> HIDE DEF Q
<1>4. First({First(Q)}) = First(Q)
  BY DEF First
<1>5. First(Q) \in Occupied(sg) /\ sg.slot[First(Q)].key = k
  BY <1>3, <1>4, FindIn, SMTT(30)
<1> QED
  BY <1>3, <1>5 DEF Occupied

(* Every entry of a sound table is found, where it is. *)
LEMMA FoundInTable ==
  ASSUME NEW t, Sound(t), NEW x \in Entries(t)
  PROVE  find(t[x[1]], EntryKey(t, x)) = {x[2]}
<1> DEFINE g == x[1]
           p == x[2]
           k == EntryKey(t, x)
<1>1. x = <<g, p>> /\ g \in DOMAIN t /\ p \in Pos /\ t[g].slot[p] # Empty /\ t[g].slot[p].key = k
  BY SMTT(30) DEF Entries, EntryKey
<1>2. k \in Keys
  BY EntryTyped DEF Sound
<1>3. GoodPlace(t[g].slot[p], p[1])
  BY DEF Sound, PlacedIn, ItemAt
<1>4. ASSUME NEW q \in Pos, t[g].slot[q] # Empty, t[g].slot[q].key = k PROVE q = p
  <2>1. <<g, q>> \in Entries(t) /\ EntryKey(t, <<g, q>>) = k
    BY <1>1, <1>4 DEF Entries, EntryKey
  <2> QED
    BY <1>1, <2>1 DEF Sound, UniqueKeys
<1>5. SegmentOK(t[g]) /\ Tracked(t[g])
  BY <1>1 DEF Sound
<1> HIDE DEF g, p, k
<1> QED
  BY <1>1, <1>2, <1>3, <1>4, <1>5, FoundInSegment, SMTT(30) DEF g, p, k

-----------------------------------------------------------------------------
(* What find says about the keys of a sound table. *)
HasKey(t, k) == \E x \in Entries(t) : EntryKey(t, x) = k

LEMMA NotFound ==
  ASSUME NEW t, Sound(t), NEW k \in Keys, find(t[seg_id(t, k)], k) = {}
  PROVE  ~HasKey(t, k)
<1> SUFFICES ASSUME NEW x \in Entries(t), EntryKey(t, x) = k PROVE FALSE
  BY DEF HasKey
<1>1. find(t[x[1]], k) = {x[2]}
  BY FoundInTable
<1>2. x[1] = seg_id(t, k)
  BY DEF Sound, PlacedIn, ItemAt, EntryKey
<1> QED
  BY <1>1, <1>2

LEMMA FoundOne ==
  ASSUME NEW t, Sound(t), NEW k \in Keys, find(t[seg_id(t, k)], k) # {}
  PROVE  LET x == <<seg_id(t, k), First(find(t[seg_id(t, k)], k))>>
         IN  x \in Entries(t) /\ EntryKey(t, x) = k
<1> DEFINE g == seg_id(t, k)
           p == First(find(t[g], k))
<1>1. <<g, p>> \in Entries(t)
  BY FoundEntry DEF Sound
<1>2. t[g].slot[p].key = k
  BY FindIn
<1> QED
  BY <1>1, <1>2 DEF EntryKey

-----------------------------------------------------------------------------
(* What the map behind a table holds. *)
LEMMA MapAt ==
  ASSUME NEW t, Sound(t)
  PROVE  /\ \A x \in Entries(t) : EntryKey(t, x) \in Keys /\ AsMap(t)[EntryKey(t, x)] = EntryVal(t, x)
                                 /\ EntryVal(t, x) # Absent
         /\ \A k \in Keys : ~HasKey(t, k) => AsMap(t)[k] = Absent
         /\ AsMap(t) = [k \in Keys |-> AsMap(t)[k]]
<1>1. ASSUME NEW x \in Entries(t)
      PROVE  EntryKey(t, x) \in Keys /\ AsMap(t)[EntryKey(t, x)] = EntryVal(t, x) /\ EntryVal(t, x) # Absent
  <2> DEFINE k == EntryKey(t, x)
             y == CHOOSE y \in Entries(t) : EntryKey(t, y) = k
  <2>1. k \in Keys /\ EntryVal(t, x) \in Vals
    BY EntryTyped DEF Sound
  <2>2. y \in Entries(t) /\ EntryKey(t, y) = k
    OBVIOUS
  <2>3. y = x
    BY <2>2 DEF Sound, UniqueKeys
  <2>4. AsMap(t)[k] = EntryVal(t, y)
    BY <2>1 DEF AsMap
  <2> QED
    BY <2>1, <2>3, <2>4, TableAssumption
<1>2. \A k \in Keys : ~HasKey(t, k) => AsMap(t)[k] = Absent
  BY DEF AsMap, HasKey
<1>3. AsMap(t) = [k \in Keys |-> AsMap(t)[k]]
  BY DEF AsMap
<1> QED
  BY <1>1, <1>2, <1>3

(* The map has a value for the keys of the table and for no others. *)
LEMMA MapHas ==
  ASSUME NEW t, Sound(t), NEW k \in Keys
  PROVE  AsMap(t)[k] # Absent <=> HasKey(t, k)
BY MapAt, SMTT(30) DEF HasKey

(* find returns what the map holds. *)
LEMMA LookupIsMap ==
  ASSUME NEW t, Sound(t), NEW k \in Keys
  PROVE  Lookup(t, k) = AsMap(t)[k]
<1> DEFINE g == seg_id(t, k)
           P == find(t[g], k)
           x == <<g, First(P)>>
<1>1. CASE P = {}
  BY <1>1, NotFound, MapAt DEF Lookup
<1>2. CASE P # {}
  <2>1. x \in Entries(t) /\ EntryKey(t, x) = k
    BY <1>2, FoundOne
  <2>2. Lookup(t, k) = EntryVal(t, x)
    BY <1>2 DEF Lookup, EntryVal
  <2> QED
    BY <2>1, <2>2, MapAt
<1> QED
  BY <1>1, <1>2

(* The entries are the pairs of the map. *)
LEMMA IterIsMap ==
  ASSUME NEW t, Sound(t)
  PROVE  {<<EntryKey(t, x), EntryVal(t, x)>> : x \in Entries(t)}
           = {<<k, AsMap(t)[k]>> : k \in {k \in Keys : AsMap(t)[k] # Absent}}
<1> DEFINE A == {<<EntryKey(t, x), EntryVal(t, x)>> : x \in Entries(t)}
           D == {k \in Keys : AsMap(t)[k] # Absent}
           B == {<<k, AsMap(t)[k]>> : k \in D}
<1>1. ASSUME NEW x \in Entries(t) PROVE <<EntryKey(t, x), EntryVal(t, x)>> \in B
  <2>1. EntryKey(t, x) \in D /\ AsMap(t)[EntryKey(t, x)] = EntryVal(t, x)
    BY MapAt
  <2> QED
    BY <2>1
<1>2. ASSUME NEW k \in D PROVE <<k, AsMap(t)[k]>> \in A
  <2>1. PICK x \in Entries(t) : EntryKey(t, x) = k
    BY MapHas DEF HasKey
  <2>2. AsMap(t)[k] = EntryVal(t, x)
    BY <2>1, MapAt
  <2> QED
    BY <2>1, <2>2
<1> QED
  BY <1>1, <1>2

(* There are as many entries as keys in the map. *)
LEMMA CountIsMap ==
  ASSUME NEW t, Sound(t)
  PROVE  Cardinality({k \in Keys : AsMap(t)[k] # Absent}) = Cardinality(Entries(t))
<1> DEFINE D == {k \in Keys : AsMap(t)[k] # Absent}
           E == Entries(t)
           f == [x \in E |-> EntryKey(t, x)]
<1>1. f \in [E -> D]
  BY MapAt
<1>2. \A x, y \in E : f[x] = f[y] => x = y
  BY DEF Sound, UniqueKeys
<1>3. \A k \in D : \E x \in E : f[x] = k
  BY MapHas DEF HasKey
<1> HIDE DEF D, E, f
<1>4. f \in Bijection(E, D)
  BY <1>1, <1>2, <1>3 DEF Bijection, Injection, Surjection, IsInjective
<1>5. ExistsBijection(E, D)
  BY <1>4 DEF ExistsBijection
<1>6. IsFiniteSet(E)
  BY EntriesFinite DEF E, Sound
<1> QED
  BY <1>5, <1>6, FS_Bijection DEF D, E

-----------------------------------------------------------------------------
(* What the operations on a table make of the map. *)

(* Two tables whose entries agree but for key k. *)
AgreeBut(t, u, k) ==
  /\ \A x \in Entries(t) : EntryKey(t, x) # k =>
       x \in Entries(u) /\ EntryKey(u, x) = EntryKey(t, x) /\ EntryVal(u, x) = EntryVal(t, x)
  /\ \A x \in Entries(u) : EntryKey(u, x) # k => x \in Entries(t) /\ EntryKey(t, x) = EntryKey(u, x)

LEMMA MapBut ==
  ASSUME NEW t, Sound(t), NEW u, Sound(u), NEW k \in Keys, AgreeBut(t, u, k), NEW w, AsMap(u)[k] = w
  PROVE  AsMap(u) = [AsMap(t) EXCEPT ![k] = w]
<1>1. ASSUME NEW j \in Keys, j # k PROVE AsMap(u)[j] = AsMap(t)[j]
  <2>1. CASE HasKey(t, j)
    <3>1. PICK x \in Entries(t) : EntryKey(t, x) = j
      BY <2>1 DEF HasKey
    <3>2. x \in Entries(u) /\ EntryKey(u, x) = j /\ EntryVal(u, x) = EntryVal(t, x)
      BY <1>1, <3>1 DEF AgreeBut
    <3>3. AsMap(t)[j] = EntryVal(t, x)
      BY <3>1, MapAt
    <3>4. AsMap(u)[j] = EntryVal(u, x)
      BY <3>2, MapAt
    <3> QED
      BY <3>2, <3>3, <3>4
  <2>2. CASE ~HasKey(t, j)
    <3>1. ~HasKey(u, j)
      BY <1>1, <2>2 DEF HasKey, AgreeBut
    <3> QED
      BY <2>2, <3>1, MapAt
  <2> QED
    BY <2>1, <2>2
<1>2. AsMap(t) = [j \in Keys |-> AsMap(t)[j]] /\ AsMap(u) = [j \in Keys |-> AsMap(u)[j]]
  BY MapAt
<1> QED
  BY <1>1, <1>2

LEMMA NewSound ==
  ASSUME NEW n \in Nat \ {0}
  PROVE  Sound(NewSegs(n)) /\ AsMap(NewSegs(n)) = [k \in Keys |-> Absent]
<1> DEFINE t == NewSegs(n)
<1>1. TableOK(t) /\ PlacedIn(t) /\ Entries(t) = {}
  BY NewTable
<1>2. \A g \in DOMAIN t : SegmentOK(t[g]) /\ Tracked(t[g])
  BY NewBooks DEF NewSegs
<1> HIDE DEF t
<1>3. Sound(t)
  BY <1>1, <1>2 DEF Sound, UniqueKeys
<1>4. AsMap(t) = [k \in Keys |-> Absent]
  BY <1>1 DEF AsMap
<1> QED
  BY <1>3, <1>4 DEF t

(* A segment with sound books takes the place of another. *)
LEMMA BooksReplaced ==
  ASSUME NEW t, Sound(t), NEW g \in DOMAIN t, NEW sg, BooksFollow(t[g], sg), NEW u, u = [t EXCEPT ![g] = sg]
  PROVE  \A h \in DOMAIN u : SegmentOK(u[h]) /\ Tracked(u[h])
<1>1. SegmentOK(sg) /\ Tracked(sg)
  BY Follows DEF Sound
<1> QED
  BY <1>1 DEF Sound

(* A key that is not in the table enters the map with its value. *)
LEMMA InsertSound ==
  ASSUME NEW t, Sound(t), NEW k \in Keys, NEW v \in Vals, ~HasKey(t, k), NEW u, Inserts(t, u, k, v)
  PROVE  Sound(u) /\ AsMap(u) = [AsMap(t) EXCEPT ![k] = v]
<1>1. /\ TableOK(u) /\ PlacedIn(u)
      /\ \A x \in Entries(t) : x \in Entries(u) /\ ItemAt(u, x) = ItemAt(t, x)
      /\ \E x : OneMore(t, u, x, k, v)
  BY InsertedEntry DEF Sound
<1>2. PICK x0 : OneMore(t, u, x0, k, v)
  BY <1>1
<1>3. /\ Entries(u) = Entries(t) \cup {x0}
      /\ EntryKey(u, x0) = k /\ EntryVal(u, x0) = v
      /\ \A x \in Entries(t) : EntryKey(u, x) = EntryKey(t, x) /\ EntryVal(u, x) = EntryVal(t, x)
      /\ \A x \in Entries(t) : EntryKey(t, x) # k
  BY <1>1, <1>2 DEF OneMore, ItemAt, EntryKey, EntryVal, HasKey
<1>4. UniqueKeys(u)
  BY <1>3 DEF Sound, UniqueKeys
<1>5. \A h \in DOMAIN u : SegmentOK(u[h]) /\ Tracked(u[h])
  <2> DEFINE g == seg_id(t, k)
             sg == insert_new(t[g], k, v)
  <2>1. g \in DOMAIN t
    BY SegIdIn DEF Sound
  <2>2. u = [t EXCEPT ![g] = sg] /\ ~Full(t[g], k)
    BY DEF Inserts
  <2> HIDE DEF g
  <2>3. BooksFollow(t[g], sg)
    BY <2>1, <2>2, InsertNewBooks DEF Sound
  <2> HIDE DEF sg
  <2> QED
    BY <2>1, <2>2, <2>3, BooksReplaced
<1>6. Sound(u)
  BY <1>1, <1>4, <1>5 DEF Sound
<1>7. AsMap(u)[k] = v
  BY <1>3, <1>6, MapAt
<1>8. AgreeBut(t, u, k)
  BY <1>3 DEF AgreeBut
<1> QED
  BY <1>6, <1>7, <1>8, MapBut, SMTT(30)

(* The key that is found gets the new value. *)
LEMMA ReplaceSound ==
  ASSUME NEW t, Sound(t), NEW k \in Keys, NEW v \in Vals, NEW u, Replaces(t, u, k, v)
  PROVE  Sound(u) /\ AsMap(u) = [AsMap(t) EXCEPT ![k] = v]
<1> DEFINE g == seg_id(t, k)
           p == First(find(t[g], k))
           x0 == <<g, p>>
           item == [t[g].slot[p] EXCEPT !.val = v]
<1>1. find(t[g], k) # {} /\ u = [t EXCEPT ![g] = PutSlot(t[g], p, item)]
  BY DEF Replaces
<1>2. x0 \in Entries(t) /\ EntryKey(t, x0) = k
  BY <1>1, FoundOne
<1>3. /\ TableOK(u) /\ PlacedIn(u) /\ Entries(u) = Entries(t)
      /\ \A x \in Entries(t) : ItemAt(u, x).key = ItemAt(t, x).key
      /\ ItemAt(u, x0).val = v /\ \A x \in Entries(t) : x # x0 => ItemAt(u, x) = ItemAt(t, x)
  BY ReplaceFound, SMTT(30) DEF Sound
<1>b. g \in DOMAIN t /\ p \in Pos /\ t[g].slot[p] # Empty /\ t[g].slot[p] \in Items
  BY <1>1, FoundEntry DEF Sound
<1>c. item \in Items /\ item.key = t[g].slot[p].key /\ item # Empty
  <2> HIDE DEF g, p
  <2>1. item \in Items /\ item.key = t[g].slot[p].key
    BY <1>b DEF Items
  <2> HIDE DEF item
  <2> QED
    BY <2>1, SegmentAssumption DEF Items
<1> HIDE DEF x0, g, p, item
<1>4. /\ EntryVal(u, x0) = v
      /\ \A x \in Entries(t) : EntryKey(u, x) = EntryKey(t, x)
      /\ \A x \in Entries(t) : x # x0 => EntryVal(u, x) = EntryVal(t, x)
  BY <1>3 DEF ItemAt, EntryKey, EntryVal
<1>5. UniqueKeys(u)
  BY <1>3, <1>4 DEF Sound, UniqueKeys
<1>6. \A h \in DOMAIN u : SegmentOK(u[h]) /\ Tracked(u[h])
  <2>1. SegmentOK(t[g])
    BY <1>b DEF Sound
  <2>2. BooksFollow(t[g], PutSlot(t[g], p, item))
    BY <1>b, <1>c, <2>1, PutBooks
  <2> QED
    BY <1>1, <1>b, <2>2, BooksReplaced
<1>7. Sound(u)
  BY <1>3, <1>5, <1>6 DEF Sound
<1>8. AsMap(u)[k] = v
  BY <1>2, <1>3, <1>4, <1>7, MapAt, SMTT(30)
<1>9. AgreeBut(t, u, k)
  BY <1>2, <1>3, <1>4 DEF AgreeBut
<1> QED
  BY <1>7, <1>8, <1>9, MapBut, SMTT(30)

(* The key of a deleted entry leaves the map, and no other does, if the    *)
(* delete takes no record from the next bucket.                            *)
LEMMA DeleteSound ==
  ASSUME NEW t, Sound(t), NEW x0 \in Entries(t), ~TakesFromNext(t[x0[1]], x0[2]), NEW u, Deletes(t, u, x0)
  PROVE  Sound(u) /\ AsMap(u) = [AsMap(t) EXCEPT ![EntryKey(t, x0)] = Absent]
<1> DEFINE g == x0[1]
           p == x0[2]
           k == EntryKey(t, x0)
<1>1. /\ TableOK(u) /\ PlacedIn(u) /\ Entries(u) = Entries(t) \ {x0}
      /\ \A x \in Entries(u) : ItemAt(u, x) = ItemAt(t, x)
  BY DeletedEntry, SMTT(30) DEF Sound
<1>2. /\ \A x \in Entries(u) : EntryKey(u, x) = EntryKey(t, x) /\ EntryVal(u, x) = EntryVal(t, x)
      /\ \A x \in Entries(u) : EntryKey(t, x) # k
  BY <1>1 DEF ItemAt, EntryKey, EntryVal, Sound, UniqueKeys
<1>3. UniqueKeys(u)
  BY <1>1, <1>2 DEF Sound, UniqueKeys
<1>4. \A h \in DOMAIN u : SegmentOK(u[h]) /\ Tracked(u[h])
  <2> DEFINE sg == delete(t[g], p)
  <2>1. g \in DOMAIN t /\ p \in Pos /\ t[g].slot[p] # Empty
    BY DEF Entries
  <2>2. u = [t EXCEPT ![g] = sg]
    BY DEF Deletes
  <2>3. SegmentOK(t[g])
    BY <2>1 DEF Sound
  <2>0. NumBuckets \in Nat /\ NumStash \in Nat /\ p[1] \in Nat
    BY <2>1, SegmentAssumption, SMTT(30) DEF Pos
  <2>7. ~TakesFromNext(t[g], p)
    OBVIOUS
  <2> HIDE DEF g, p
  <2>4. BooksFollow(t[g], sg)
    <3>1. CASE p[1] < NumBuckets
      <4>1. p \notin StashPos
        BY <2>0, <3>1, SMTT(30) DEF StashPos
      <4>2. BooksFollow(t[g], PutSlot(t[g], p, Empty))
        BY <2>1, <2>3, <4>1, PutBooks
      <4> QED
        BY <3>1, <4>2 DEF delete
    <3>2. CASE ~(p[1] < NumBuckets)
      <4>1. p \in StashPos
        BY <2>0, <2>1, <3>2, SMTT(30) DEF Pos, StashPos
      <4>2. LET j == t[g].slot[p].key
            IN  sg = unset_stash_ptr(PutSlot(t[g], p, Empty), home_bucket(j), fingerprint(j), p[1] - NumBuckets)
        BY <2>0, <2>7, <3>2, SMTT(30) DEF TakesFromNext
      <4> QED
        BY <2>1, <2>3, <4>1, <4>2, DeletedBooks
    <3> QED
      BY <3>1, <3>2
  <2> HIDE DEF sg
  <2> QED
    BY <2>1, <2>2, <2>4, BooksReplaced
<1>5. Sound(u)
  BY <1>1, <1>3, <1>4 DEF Sound
<1>6. k \in Keys
  BY MapAt
<1>7. AsMap(u)[k] = Absent
  <2>1. ~HasKey(u, k)
    BY <1>2 DEF HasKey
  <2> QED
    BY <1>5, <1>6, <2>1, MapAt
<1>8. AgreeBut(t, u, k)
  BY <1>1, <1>2 DEF AgreeBut
<1> HIDE DEF k
<1> QED
  BY <1>5, <1>6, <1>7, <1>8, MapBut, SMTT(30) DEF k

-----------------------------------------------------------------------------
LeftKeys == {EntryKey(job.old, x) : x \in job.left}

(* While the table grows, the new segments hold what the old ones held,    *)
(* but for the keys of the entries that are left; the key that found no    *)
(* room is in neither.                                                     *)
GrowOK ==
  /\ Sound(job.old) /\ AsMap(job.old)[job.key] = Absent
  /\ \A k \in Keys : AsMap(segs)[k] = IF k \in LeftKeys THEN Absent ELSE AsMap(job.old)[k]

(* What makes AllFindable inductive, and relates a step to one of the map. *)
MapInv ==
  /\ IInv /\ Sound(segs)
  /\ job.what = "grow" => GrowOK

(* The map and the table count alike. *)
LEMMA SameCardinality == \A S : Map!Cardinality(S) = Cardinality(S)
BY DEF Cardinality, Map!Cardinality

LEMMA IdleBehind ==
  ASSUME ~Busy
  PROVE  job = Idle /\ job.what = "idle" /\ behind = AsMap(segs)
BY SMTT(30) DEF Busy, Idle, behind

LEMMA IdleBehindAfter ==
  ASSUME job' = Idle
  PROVE  job'.what = "idle" /\ behind' = AsMap(segs')
BY DEF Idle, behind

(* Calls that only read. *)
LEMMA ReadMaps ==
  ASSUME MapInv, (\E k \in Keys : Find(k)) \/ Iter \/ Len
  PROVE  Sound(segs)' /\ (job.what = "grow" => GrowOK)' /\ Map!Next
<1>0. ~Busy /\ segs' = segs /\ job' = job
  BY DEF Find, Iter, Len
<1>1. /\ job.what = "idle" /\ job'.what = "idle"
      /\ behind = AsMap(segs) /\ behind' = behind
  BY <1>0, IdleBehind, IdleBehindAfter
<1>2. Sound(segs)' /\ (job.what = "grow" => GrowOK)'
  BY <1>0, <1>1 DEF MapInv
<1>3. ASSUME NEW k \in Keys, Find(k) PROVE Map!Next
  <2>1. last' = [op |-> "find", key |-> k, reply |-> behind[k]]
    BY <1>1, <1>3, LookupIsMap DEF Find, Returns, MapInv
  <2>2. Map!Find(k)
    BY <1>1, <2>1 DEF Map!Find, Map!Returns
  <2> QED
    BY <2>2 DEF Map!Next
<1>4. CASE Iter
  <2>1. last' = [op |-> "iter", reply |-> {<<k, behind[k]>> : k \in {k \in Keys : behind[k] # Absent}}]
    BY <1>1, <1>4, IterIsMap, SMTT(30) DEF Iter, MapInv
  <2>2. Map!Iter
    BY <1>1, <2>1 DEF Map!Iter, Map!Domain
  <2> QED
    BY <1>2, <2>2 DEF Map!Next
<1>5. CASE Len
  <2>1. last' = [op |-> "len", reply |-> size] /\ size = Cardinality(Entries(segs))
    BY <1>5 DEF Len, MapInv, IInv
  <2>2. last' = [op |-> "len", reply |-> Cardinality({k \in Keys : behind[k] # Absent})]
    BY <1>1, <2>1, CountIsMap DEF MapInv
  <2>3. Map!Len
    BY <1>1, <2>2, SameCardinality DEF Map!Len, Map!Domain
  <2> QED
    BY <1>2, <2>3 DEF Map!Next
<1> QED
  BY <1>2, <1>3, <1>4, <1>5

(* The table starts to grow: the map stays where it was. *)
LEMMA StartGrowMaps ==
  ASSUME MapInv, NEW k \in Keys, NEW v, NEW tries, StartGrow(k, v, tries),
         AsMap(segs)[k] = Absent, behind = AsMap(segs)
  PROVE  Sound(segs)' /\ (job.what = "grow" => GrowOK)' /\ UNCHANGED Map!vars
<1>1. /\ segs' = NewSegs(2 * Count(segs)) /\ last' = last
      /\ job'.what = "grow" /\ job'.old = segs /\ job'.left = Entries(segs) /\ job'.key = k
  BY DEF StartGrow
<1>2. 2 * Count(segs) \in Nat \ {0}
  BY SegIdIn, SMTT(30) DEF MapInv, Sound
<1>3. Sound(segs') /\ AsMap(segs') = [j \in Keys |-> Absent]
  BY <1>1, <1>2, NewSound
<1>4. LeftKeys' = {EntryKey(segs, x) : x \in Entries(segs)}
  BY <1>1 DEF LeftKeys
<1>5. ASSUME NEW j \in Keys
      PROVE  AsMap(segs')[j] = IF j \in LeftKeys' THEN Absent ELSE AsMap(segs)[j]
  <2>1. AsMap(segs')[j] = Absent
    BY <1>3
  <2>2. ~HasKey(segs, j) => AsMap(segs)[j] = Absent
    BY MapAt DEF MapInv
  <2> QED
    BY <1>4, <2>1, <2>2 DEF HasKey
<1>6. GrowOK'
  BY <1>1, <1>5 DEF GrowOK, MapInv
<1>7. behind' = behind
  BY <1>1 DEF behind
<1> QED
  BY <1>1, <1>3, <1>6, <1>7 DEF Map!vars

LEMMA InsertMaps ==
  ASSUME MapInv, NEW k \in Keys, NEW v \in Vals, Insert(k, v)
  PROVE  Sound(segs)' /\ (job.what = "grow" => GrowOK)' /\ [Map!Next]_Map!vars
<1> DEFINE g == seg_id(segs, k)
           P == find(segs[g], k)
           p == First(P)
<1>0. ~Busy /\ Sound(segs)
  BY DEF Insert, MapInv
<1>1. job = Idle /\ job.what = "idle" /\ behind = AsMap(segs)
  BY <1>0, IdleBehind
<1>2. ASSUME Sound(segs'), AsMap(segs') = [AsMap(segs) EXCEPT ![k] = v], job' = job,
             last' = [op |-> "insert", key |-> k, reply |-> AsMap(segs)[k]]
      PROVE  Sound(segs)' /\ (job.what = "grow" => GrowOK)' /\ [Map!Next]_Map!vars
  <2>1. job'.what = "idle" /\ behind' = AsMap(segs')
    BY <1>1, <1>2, IdleBehindAfter
  <2>2. Map!Insert(k, v)
    BY <1>1, <1>2, <2>1 DEF Map!Insert, Map!Returns
  <2> QED
    BY <1>2, <2>1, <2>2 DEF Map!Next
<1>3. Lookup(segs, k) = AsMap(segs)[k]
  BY <1>0, LookupIsMap
<1>4. CASE /\ P # {}
           /\ segs' = [segs EXCEPT ![g] = PutSlot(@, p, [segs[g].slot[p] EXCEPT !.val = v])]
           /\ Returns("insert", k, segs[g].slot[p].val)
           /\ UNCHANGED <<size, job>>
  <2>1. Replaces(segs, segs', k, v)
    BY <1>4 DEF Replaces
  <2>2. Sound(segs') /\ AsMap(segs') = [AsMap(segs) EXCEPT ![k] = v]
    BY <1>0, <2>1, ReplaceSound, SMTT(30)
  <2>3. last' = [op |-> "insert", key |-> k, reply |-> AsMap(segs)[k]]
    BY <1>3, <1>4 DEF Lookup, Returns
  <2> QED
    BY <1>2, <1>4, <2>2, <2>3
<1>5. P = {} => ~HasKey(segs, k) /\ AsMap(segs)[k] = Absent
  BY <1>0, <1>3, NotFound DEF Lookup
<1>6. CASE /\ P = {} /\ ~Full(segs[g], k)
           /\ segs' = [segs EXCEPT ![g] = insert_new(@, k, v)]
           /\ size' = size + 1
           /\ Returns("insert", k, Absent)
           /\ UNCHANGED job
  <2>1. Inserts(segs, segs', k, v)
    BY <1>6 DEF Inserts
  <2>2. Sound(segs') /\ AsMap(segs') = [AsMap(segs) EXCEPT ![k] = v]
    BY <1>0, <1>5, <1>6, <2>1, InsertSound
  <2>3. last' = [op |-> "insert", key |-> k, reply |-> AsMap(segs)[k]]
    BY <1>5, <1>6 DEF Returns
  <2> QED
    BY <1>2, <1>6, <2>2, <2>3
<1>7. CASE P = {} /\ StartGrow(k, v, 0)
  BY <1>1, <1>5, <1>7, StartGrowMaps
<1> QED
  BY <1>4, <1>6, <1>7 DEF Insert

(* A panic leaves the map where it was, unless it is caught. *)
LEMMA PanicMaps ==
  ASSUME MapInv, job.what = "grow", Panic
  PROVE  /\ Sound(segs)' /\ (job.what = "grow" => GrowOK)'
         /\ NoCaughtPanic => UNCHANGED Map!vars
<1>1. CASE job' = [what |-> "panic", old |-> job.old] /\ last' = last /\ segs' = segs
  <2>1. behind' = behind
    BY <1>1 DEF behind
  <2> QED
    BY <1>1, <2>1 DEF MapInv, Map!vars
<1>2. CASE job' = Idle /\ last' = [op |-> "panic"] /\ segs' = segs
  BY <1>2 DEF Idle, MapInv, NoCaughtPanic
<1> QED
  BY <1>1, <1>2 DEF Panic

(* An entry that is put back leaves the keys that are left. *)
LEMMA ReinsertMaps ==
  ASSUME MapInv, Reinsert
  PROVE  /\ Sound(segs)' /\ (job.what = "grow" => GrowOK)'
         /\ NoCaughtPanic => UNCHANGED Map!vars
<1> DEFINE x == NextLeft
           k == EntryKey(job.old, x)
           v == EntryVal(job.old, x)
           g == seg_id(segs, k)
<1>1. /\ job = [what |-> "grow", key |-> job.key, val |-> job.val, tries |-> job.tries,
                old |-> job.old, left |-> job.left]
      /\ job.what = "grow" /\ job.left # {} /\ job.left \in SUBSET Entries(job.old)
      /\ Sound(segs) /\ GrowOK /\ Sound(job.old)
  BY DEF Reinsert, MapInv, IInv, JobOK, GrowOK
<1>2. x \in job.left /\ x \in Entries(job.old)
  BY <1>1, Extremes DEF NextLeft, Sound
<1> HIDE DEF x
<1>3. k \in Keys /\ v \in Vals /\ AsMap(job.old)[k] = v
  BY <1>1, <1>2, EntryTyped, MapAt DEF Sound
<1>4. CASE ~Full(segs[g], k) /\ segs' = [segs EXCEPT ![g] = insert_new(@, k, v)]
           /\ job' = [job EXCEPT !.left = @ \ {x}] /\ last' = last
  <2>1. k \in LeftKeys
    BY <1>2 DEF LeftKeys
  <2>2. ~HasKey(segs, k)
    BY <1>1, <1>3, <2>1, MapHas DEF GrowOK
  <2>3. Inserts(segs, segs', k, v)
    BY <1>4 DEF Inserts
  <2>4. Sound(segs') /\ AsMap(segs') = [AsMap(segs) EXCEPT ![k] = v]
    <3> HIDE DEF k, v
    <3> QED
      BY <1>1, <1>3, <2>2, <2>3, InsertSound, SMTT(30)
  <2>5. /\ job'.what = "grow" /\ job'.old = job.old /\ job'.key = job.key
        /\ job'.left = job.left \ {x}
    BY <1>1, <1>4
  <2>6. LeftKeys' = LeftKeys \ {k}
    <3>1. \A y \in job.left : EntryKey(job.old, y) = k => y = x
      BY <1>1, <1>2 DEF Sound, UniqueKeys
    <3>2. LeftKeys' = {EntryKey(job.old, y) : y \in job.left \ {x}}
      BY <2>5 DEF LeftKeys
    <3>3. \A y \in job.left \ {x} : EntryKey(job.old, y) \in LeftKeys \ {k}
      BY <3>1 DEF LeftKeys
    <3>4. \A j \in LeftKeys \ {k} : \E y \in job.left \ {x} : j = EntryKey(job.old, y)
      BY DEF LeftKeys
    <3> QED
      BY <3>2, <3>3, <3>4
  <2>7. ASSUME NEW j \in Keys
        PROVE  AsMap(segs')[j] = IF j \in LeftKeys' THEN Absent ELSE AsMap(job.old)[j]
    <3>1. AsMap(segs) = [i \in Keys |-> AsMap(segs)[i]]
      BY <1>1, MapAt
    <3>2. CASE j = k
      BY <1>3, <2>4, <2>6, <3>1, <3>2
    <3>3. CASE j # k
      <4>1. AsMap(segs')[j] = AsMap(segs)[j]
        BY <2>4, <3>1, <3>3
      <4> QED
        BY <1>1, <2>6, <3>3, <4>1 DEF GrowOK
    <3> QED
      BY <3>2, <3>3
  <2>8. GrowOK'
    BY <1>1, <2>5, <2>7 DEF GrowOK
  <2>9. behind' = behind
    BY <1>1, <2>5 DEF behind
  <2> QED
    BY <1>4, <2>4, <2>8, <2>9 DEF Map!vars
<1>5. CASE Panic
  BY <1>1, <1>5, PanicMaps
<1> QED
  BY <1>4, <1>5 DEF Reinsert, x

(* With no entry left, the new segments hold the map. *)
LEMMA InsertNoDupMaps ==
  ASSUME MapInv, insert_no_dup
  PROVE  /\ Sound(segs)' /\ (job.what = "grow" => GrowOK)'
         /\ NoCaughtPanic => [Map!Next]_Map!vars
<1> DEFINE k == job.key
           v == job.val
           g == seg_id(segs, k)
<1>1. /\ job.what = "grow" /\ job.left = {} /\ k \in Keys /\ v \in Vals
      /\ Sound(segs) /\ GrowOK /\ Sound(job.old)
  BY DEF insert_no_dup, MapInv, IInv, JobOK, GrowOK
<1>2. AsMap(segs) = AsMap(job.old)
  <2>1. \A j \in Keys : AsMap(segs)[j] = AsMap(job.old)[j]
    BY <1>1 DEF GrowOK, LeftKeys
  <2> QED
    BY <1>1, <2>1 DEF AsMap
<1>3. behind = AsMap(segs) /\ AsMap(segs)[k] = Absent
  BY <1>1, <1>2 DEF behind, GrowOK
<1>4. CASE ~Full(segs[g], k) /\ segs' = [segs EXCEPT ![g] = insert_new(@, k, v)]
           /\ job' = Idle /\ Returns("insert", k, Absent)
  <2>1. ~HasKey(segs, k)
    BY <1>1, <1>3, MapHas
  <2>2. Inserts(segs, segs', k, v)
    BY <1>4 DEF Inserts
  <2>3. Sound(segs') /\ AsMap(segs') = [AsMap(segs) EXCEPT ![k] = v]
    <3> HIDE DEF k, v
    <3> QED
      BY <1>1, <2>1, <2>2, InsertSound
  <2>4. job'.what = "idle" /\ behind' = AsMap(segs')
    BY <1>4, IdleBehindAfter
  <2>5. Map!Insert(k, v)
    BY <1>3, <1>4, <2>3, <2>4 DEF Map!Insert, Map!Returns, Returns
  <2> QED
    BY <1>1, <2>3, <2>4, <2>5 DEF Map!Next
<1>5. ASSUME NEW tries, StartGrow(k, v, tries)
      PROVE  Sound(segs)' /\ (job.what = "grow" => GrowOK)' /\ UNCHANGED Map!vars
  BY <1>1, <1>3, <1>5, StartGrowMaps
<1>6. CASE Panic
  BY <1>1, <1>6, PanicMaps
<1> QED
  BY <1>4, <1>5, <1>6 DEF insert_no_dup

(* A delete that takes no record from the next bucket drops its key. *)
LEMMA DeleteMaps ==
  ASSUME MapInv, NextKept, NEW x \in Entries(segs), segs' = [segs EXCEPT ![x[1]] = delete(@, x[2])]
  PROVE  Sound(segs') /\ AsMap(segs') = [AsMap(segs) EXCEPT ![EntryKey(segs, x)] = Absent]
<1>1. ~TakesFromNext(segs[x[1]], x[2])
  BY DEF NextKept
<1>2. Deletes(segs, segs', x)
  BY DEF Deletes
<1> QED
  BY <1>1, <1>2, DeleteSound DEF MapInv

LEMMA RemoveMaps ==
  ASSUME MapInv, NextKept, NEW k \in Keys, Remove(k)
  PROVE  Sound(segs)' /\ (job.what = "grow" => GrowOK)' /\ Map!Next
<1> DEFINE g == seg_id(segs, k)
           P == find(segs[g], k)
           x == <<g, First(P)>>
<1>0. ~Busy /\ Sound(segs) /\ job' = job
  BY DEF Remove, MapInv
<1>1. /\ job'.what = "idle" /\ behind = AsMap(segs) /\ behind' = AsMap(segs')
  BY <1>0, IdleBehind, IdleBehindAfter
<1>2. last' = [op |-> "remove", key |-> k, reply |-> AsMap(segs)[k]]
  BY <1>0, LookupIsMap DEF Remove, Returns
<1>3. Sound(segs') /\ AsMap(segs') = [AsMap(segs) EXCEPT ![k] = Absent]
  <2>1. CASE P = {}
    <3>1. segs' = segs /\ AsMap(segs)[k] = Absent
      BY <1>0, <2>1, NotFound, MapAt DEF Remove
    <3>2. AsMap(segs) = [j \in Keys |-> AsMap(segs)[j]]
      BY <1>0, MapAt
    <3>3. AsMap(segs) = [AsMap(segs) EXCEPT ![k] = Absent]
      BY <3>1, <3>2
    <3> QED
      BY <1>0, <3>1, <3>3
  <2>2. CASE P # {}
    <3>1. x \in Entries(segs) /\ EntryKey(segs, x) = k
      BY <1>0, <2>2, FoundOne
    <3>2. segs' = [segs EXCEPT ![x[1]] = delete(@, x[2])]
      BY <2>2 DEF Remove
    <3> HIDE DEF x
    <3> QED
      BY <3>1, <3>2, DeleteMaps
  <2> QED
    BY <2>1, <2>2
<1>4. Map!Remove(k)
  BY <1>1, <1>2, <1>3 DEF Map!Remove, Map!Returns
<1> QED
  BY <1>1, <1>3, <1>4 DEF Map!Next

LEMMA ClearMaps ==
  ASSUME MapInv, clear
  PROVE  Sound(segs)' /\ (job.what = "grow" => GrowOK)' /\ Map!Next
<1>1. ~Busy /\ segs' = NewSegs(InitSegs) /\ job' = job /\ last' = [op |-> "clear"]
  BY DEF clear
<1>2. job'.what = "idle" /\ behind' = AsMap(segs')
  BY <1>1, IdleBehind, IdleBehindAfter
<1>3. Sound(segs') /\ AsMap(segs') = [k \in Keys |-> Absent]
  BY <1>1, NewSound, TableAssumption
<1>4. Map!Clear
  BY <1>1, <1>2, <1>3 DEF Map!Clear, Map!EmptyMap
<1> QED
  BY <1>2, <1>3, <1>4 DEF Map!Next

LEMMA RetainMaps ==
  ASSUME MapInv, NextKept, retain \/ \E D \in RetainSets : StartRetain(D)
  PROVE  Sound(segs)' /\ (job.what = "grow" => GrowOK)' /\ [Map!Next]_Map!vars
<1> DEFINE x == CHOOSE x \in job.left : \A y \in job.left \ {x} : EntryBefore(y, x)
<1>0. Sound(segs)
  BY DEF MapInv
<1>1. ASSUME NEW D, StartRetain(D)
      PROVE  Sound(segs)' /\ (job.what = "grow" => GrowOK)' /\ [Map!Next]_Map!vars
  <2>1. ~Busy /\ segs' = segs /\ last' = last /\ job'.what = "retain"
    BY <1>1 DEF StartRetain
  <2>2. behind' = behind
    BY <2>1, IdleBehind DEF behind
  <2> QED
    BY <1>0, <2>1, <2>2 DEF Map!vars
<1>2. CASE retain
  <2>1. job = [what |-> "retain", left |-> job.left] /\ job.left \in SUBSET Entries(segs)
    BY <1>2 DEF retain, MapInv, IInv, JobOK
  <2>2. job.what = "retain" /\ behind = AsMap(segs)
    BY <2>1, SMTT(30) DEF behind
  <2>3. CASE /\ job.left # {} /\ segs' = [segs EXCEPT ![x[1]] = delete(@, x[2])]
             /\ job' = [job EXCEPT !.left = @ \ {x}] /\ last' = last
    <3>1. x \in Entries(segs)
      BY <1>0, <2>1, <2>3, Extremes DEF Sound
    <3> HIDE DEF x
    <3>2. job'.what = "retain"
      BY <2>1, <2>3, SMTT(30)
    <3>3. behind' = AsMap(segs')
      BY <3>2 DEF behind
    <3>4. Sound(segs') /\ AsMap(segs') = [AsMap(segs) EXCEPT ![EntryKey(segs, x)] = Absent]
      BY <2>3, <3>1, DeleteMaps
    <3> DEFINE k == EntryKey(segs, x)
    <3>5. k \in Keys /\ AsMap(segs) = [j \in Keys |-> AsMap(segs)[j]]
      BY <1>0, <3>1, MapAt
    <3> HIDE DEF k
    <3>6. AsMap(segs') = [AsMap(segs) EXCEPT ![k] = Absent]
      BY <3>4 DEF k
    <3>7. AsMap(segs')[k] = Absent
      BY <3>5, <3>6
    <3>8. Map!Drop(k)
      BY <2>2, <2>3, <3>3, <3>6, <3>7 DEF Map!Drop
    <3> QED
      BY <3>2, <3>4, <3>5, <3>8 DEF Map!Next
  <2>4. CASE job' = Idle /\ last' = [op |-> "retain"] /\ segs' = segs
    <3>1. job'.what = "idle" /\ behind' = behind
      BY <2>2, <2>4, IdleBehindAfter
    <3>2. Map!Retained
      BY <2>4, <3>1 DEF Map!Retained
    <3> QED
      BY <1>0, <2>4, <3>1, <3>2 DEF Map!Next
  <2> QED
    BY <1>2, <2>3, <2>4 DEF retain
<1> QED
  BY <1>1, <1>2

(* Every step keeps the invariant and is a step of the map, or none. *)
LEMMA MapStep ==
  ASSUME MapInv, [Next]_vars, [NextKept]_vars
  PROVE  MapInv' /\ ([NoCaughtPanic]_vars => [Map!Next]_Map!vars)
<1>1. IInv'
  BY NextInv DEF MapInv
<1> DEFINE Kept == Sound(segs)' /\ (job.what = "grow" => GrowOK)'
<1>2. CASE UNCHANGED vars
  <2>1. segs' = segs /\ job' = job /\ last' = last
    BY <1>2 DEF vars
  <2>2. UNCHANGED Map!vars
    BY <2>1 DEF Map!vars, behind
  <2>3. Sound(segs') /\ (job'.what = "grow" => GrowOK')
    BY <2>1 DEF MapInv, GrowOK, LeftKeys
  <2> QED
    BY <1>1, <2>2, <2>3 DEF MapInv
<1>3. CASE Next /\ ~UNCHANGED vars
  <2>1. NextKept /\ ([NoCaughtPanic]_vars => NoCaughtPanic)
    BY <1>3
  <2>2. Kept /\ (NoCaughtPanic => [Map!Next]_Map!vars)
    BY <1>3, <2>1, ReadMaps, InsertMaps, RemoveMaps, RetainMaps, ClearMaps, ReinsertMaps, InsertNoDupMaps
       DEF Next
  <2> QED
    BY <1>1, <2>1, <2>2 DEF MapInv
<1> QED
  BY <1>2, <1>3

LEMMA MapInit == Init => MapInv /\ Map!Init
<1> SUFFICES ASSUME Init PROVE MapInv /\ Map!Init
  OBVIOUS
<1>1. segs = NewSegs(InitSegs) /\ job.what = "idle" /\ last = [op |-> "none"]
  BY DEF Init, Idle
<1>2. Sound(segs) /\ AsMap(segs) = [k \in Keys |-> Absent]
  BY <1>1, NewSound, TableAssumption
<1>3. behind = AsMap(segs)
  BY <1>1 DEF behind
<1> QED
  BY <1>1, <1>2, <1>3, InitInv DEF MapInv, Map!Init, Map!EmptyMap

(* Every entry is found, at the slot it is in, as long as no delete of a   *)
(* stash item clears a record of the next bucket: Segment::find loses keys *)
(* for no other reason.  Growth that panics and is caught loses entries,   *)
(* but leaves none that cannot be found.                                   *)
THEOREM KeptIsFindable == Spec /\ [][NextKept]_vars => []AllFindable
<1>1. MapInv => AllFindable
  BY FoundInTable DEF MapInv, AllFindable
<1>2. MapInv /\ [Next]_vars /\ [NextKept]_vars => MapInv'
  BY MapStep
<1> QED
  BY <1>1, <1>2, MapInit, PTL DEF Spec

(* DashTable implements a map: as long as no delete clears a record of the *)
(* next bucket and no panic is caught, every call replies as the map would *)
(* and growth, moves to the stash and back and retain show nowhere else.   *)
THEOREM TableIsMap == Spec /\ [][NextKept]_vars /\ [][NoCaughtPanic]_vars => ImplementsMap
<1>1. MapInv /\ [Next]_vars /\ [NextKept]_vars => MapInv'
  BY MapStep
<1>2. MapInv /\ [Next]_vars /\ [NextKept]_vars /\ [NoCaughtPanic]_vars => [Map!Next]_Map!vars
  BY MapStep
<1>3. Spec /\ [][NextKept]_vars /\ [][NoCaughtPanic]_vars => Map!Spec
  BY <1>1, <1>2, MapInit, PTL DEF Spec, Map!Spec
<1> QED
  BY <1>3 DEF ImplementsMap

-----------------------------------------------------------------------------
(* SCAN. *)

(* A key the iteration still owes has an entry at or behind the cursor.    *)
Owed(k) == \E x \in Entries(segs) : EntryKey(segs, x) = k /\ it.cursor <= Rank(segs, x)

(* What makes ScanCompleteUnmoved inductive. *)
ScanInv ==
  /\ it.state \in {"none", "on", "done"} /\ it.cursor \in Nat
  /\ it = [state |-> it.state, cursor |-> it.cursor, seen |-> it.seen,
           stable |-> it.stable, moved |-> it.moved]
  /\ it.state # "on" => it.cursor = 0
  /\ it.state = "on" /\ ~it.moved => job = Idle /\ \A k \in it.stable \ it.seen : Owed(k)
  /\ ScanCompleteUnmoved

-----------------------------------------------------------------------------
(* A rank is a number below the number of entries. *)
LEMMA RankBounds ==
  ASSUME NEW t, TableOK(t), NEW x \in Entries(t)
  PROVE  Rank(t, x) \in Nat /\ Rank(t, x) < Cardinality(Entries(t))
<1> DEFINE B == {y \in Entries(t) : EntryBefore(y, x)}
<1>1. IsFiniteSet(Entries(t)) /\ Cardinality(Entries(t)) \in Nat
  BY EntriesFinite
<1>2. ~EntryBefore(x, x)
  <2>1. PICK n \in Nat \ {0} : DOMAIN t = 0 .. n - 1
    BY DEF TableOK
  <2>2. x[1] \in 0 .. n - 1 /\ x[2] \in Pos
    BY <2>1 DEF Entries
  <2>3. x[1] \in Int /\ x[2][1] \in Int /\ x[2][2] \in Int
    BY <2>1, <2>2, PosPairs, SMTT(30)
  <2> QED
    BY <2>3, SMTT(30) DEF EntryBefore, Before
<1>3. B \in SUBSET Entries(t) /\ B # Entries(t)
  BY <1>2
<1> HIDE DEF B
<1>4. IsFiniteSet(B) /\ Cardinality(B) <= Cardinality(Entries(t)) /\ Cardinality(B) # Cardinality(Entries(t))
  BY <1>1, <1>3, FS_Subset
<1>5. Cardinality(B) \in Nat
  BY <1>4, FS_CardinalityType
<1> QED
  BY <1>1, <1>4, <1>5, SMTT(30) DEF Rank, B

(* New entries push the others back, never forward. *)
LEMMA RankGrows ==
  ASSUME NEW t, NEW u, TableOK(u), Entries(t) \subseteq Entries(u), NEW x
  PROVE  Rank(t, x) <= Rank(u, x)
<1> DEFINE B == {y \in Entries(t) : EntryBefore(y, x)}
           C == {y \in Entries(u) : EntryBefore(y, x)}
<1>1. B \in SUBSET C /\ C \in SUBSET Entries(u)
  OBVIOUS
<1> HIDE DEF B, C
<1>2. IsFiniteSet(C)
  BY <1>1, EntriesFinite, FS_Subset
<1>3. Cardinality(B) <= Cardinality(C)
  BY <1>1, <1>2, FS_Subset
<1> QED
  BY <1>3 DEF Rank, B, C

-----------------------------------------------------------------------------
(* A SCAN call returns the entries from the cursor up to the next cursor;  *)
(* where it returns cursor 0, all that are left.                           *)
LEMMA ScanReturns ==
  ASSUME NEW t, TableOK(t), NEW start \in Nat, NEW count \in Nat \ {0}
  PROVE  /\ scan(t, start, count).cursor \in Nat
         /\ \A x \in Entries(t) :
              start <= Rank(t, x) =>
                \/ EntryKey(t, x) \in scan(t, start, count).keys
                \/ /\ scan(t, start, count).cursor # 0
                   /\ scan(t, start, count).cursor <= Rank(t, x)
<1> DEFINE total == Cardinality(Entries(t))
           end == IF start + count < total THEN start + count ELSE total
           keys == {EntryKey(t, x) : x \in {y \in Entries(t) : Rank(t, y) \in start .. end - 1}}
           cursor == IF start >= total \/ end >= total THEN 0 ELSE end
<1>1. scan(t, start, count).keys = keys /\ scan(t, start, count).cursor = cursor
  BY DEF scan
<1>2. total \in Nat
  BY EntriesFinite
<1>3. ASSUME NEW x \in Entries(t), start <= Rank(t, x)
      PROVE  EntryKey(t, x) \in keys \/ (cursor # 0 /\ cursor <= Rank(t, x))
  <2>1. Rank(t, x) \in Nat /\ Rank(t, x) < total
    BY RankBounds
  <2> HIDE DEF total
  <2>2. end \in Nat /\ (cursor = 0 => end = total)
    BY <1>2, <1>3, <2>1, SMTT(30)
  <2>3. CASE Rank(t, x) < end
    <3>1. Rank(t, x) \in start .. end - 1
      BY <1>3, <2>1, <2>2, <2>3, SMTT(30)
    <3> HIDE DEF end
    <3> QED
      BY <3>1
  <2>4. CASE ~(Rank(t, x) < end)
    BY <1>2, <1>3, <2>1, <2>4, SMTT(30)
  <2> QED
    BY <2>3, <2>4
<1>4. cursor \in Nat
  <2> HIDE DEF total
  <2> QED
    BY <1>2, SMTT(30)
<1> HIDE DEF keys, cursor
<1> QED
  BY <1>1, <1>3, <1>4

-----------------------------------------------------------------------------
(* A call that ends where it began and moves no entry leaves every entry   *)
(* its key: it read, replaced a value, or added an entry.                  *)
LEMMA UnmovedKeys ==
  ASSUME IInv, job = Idle, Next, job' = Idle, Entries(segs) \subseteq Entries(segs')
  PROVE  \A x \in Entries(segs) : EntryKey(segs', x) = EntryKey(segs, x)
<1>0. TableOK(segs) /\ PlacedIn(segs)
  BY DEF IInv
<1>1. CASE segs' = segs
  BY <1>1
<1>2. ASSUME NEW k \in Keys, Remove(k), segs' # segs PROVE FALSE
  <2> DEFINE g == seg_id(segs, k)
             P == find(segs[g], k)
             x == <<g, First(P)>>
  <2>1. P # {} /\ segs' = [segs EXCEPT ![g] = delete(@, First(P))]
    BY <1>2 DEF Remove
  <2>2. x \in Entries(segs)
    BY <1>0, <2>1, FoundEntry
  <2> HIDE DEF g, P
  <2>3. x[1] = g /\ x[2] = First(P)
    OBVIOUS
  <2> HIDE DEF x
  <2>4. Deletes(segs, segs', x)
    BY <2>1, <2>3 DEF Deletes
  <2>5. Entries(segs') = Entries(segs) \ {x}
    BY <1>0, <2>2, <2>4, DeletedEntry
  <2> QED
    BY <2>2, <2>5
<1>3. ASSUME NEW k \in Keys, NEW v \in Vals, Insert(k, v)
      PROVE  \A x \in Entries(segs) : EntryKey(segs', x) = EntryKey(segs, x)
  <2>1. ~StartGrow(k, v, 0)
    BY DEF StartGrow, Idle
  <2>2. Replaces(segs, segs', k, v) \/ Inserts(segs, segs', k, v)
    BY <1>3, <2>1 DEF Insert, Replaces, Inserts
  <2>3. CASE Replaces(segs, segs', k, v)
    BY <1>0, <2>3, ReplaceFound, SMTT(30) DEF ItemAt, EntryKey
  <2>4. CASE Inserts(segs, segs', k, v)
    <3>1. \A x \in Entries(segs) : ItemAt(segs', x) = ItemAt(segs, x)
      BY <1>0, <2>4, InsertedEntry, SMTT(30)
    <3> QED
      BY <3>1 DEF ItemAt, EntryKey
  <2> QED
    BY <2>2, <2>3, <2>4
<1>4. CASE clear
  <2>1. Entries(segs') = {}
    BY <1>4, NewTable, TableAssumption DEF clear
  <2> QED
    BY <2>1
<1>5. ASSUME NEW D, StartRetain(D) PROVE FALSE
  BY <1>5, SMTT(30) DEF StartRetain, Idle
<1>6. ~Reinsert /\ ~insert_no_dup /\ ~retain
  BY DEF Idle, Reinsert, insert_no_dup, retain
<1>7. CASE Iter \/ Len \/ \E k \in Keys : Find(k)
  BY <1>1, <1>7 DEF Iter, Len, Find
<1> QED
  BY <1>1, <1>2, <1>3, <1>4, <1>5, <1>6, <1>7 DEF Next

(* A SCAN call returns what is owed before its next cursor, so that what   *)
(* is still owed lies behind that cursor, and nothing is owed at the end.  *)
LEMMA ScanCallStep ==
  ASSUME IInv, ScanInv, NEW count \in Counts, cmd_scan(count)
  PROVE  ScanInv'
<1> DEFINE r == scan(segs, it.cursor, count)
           state == IF r.cursor = 0 THEN "done" ELSE "on"
<1>1. TableOK(segs) /\ it.cursor \in Nat /\ count \in Nat \ {0}
  BY CountsAssumption DEF IInv, ScanInv
<1>2. /\ r.cursor \in Nat
      /\ \A x \in Entries(segs) :
           it.cursor <= Rank(segs, x) =>
             EntryKey(segs, x) \in r.keys \/ (r.cursor # 0 /\ r.cursor <= Rank(segs, x))
  BY <1>1, ScanReturns
<1>3. segs' = segs /\ job' = job /\ job = Idle
  BY DEF cmd_scan, vars, Busy
<1>4. it' = IF it.state = "on"
            THEN [it EXCEPT !.state = state, !.cursor = r.cursor, !.seen = it.seen \cup r.keys]
            ELSE [state |-> state, cursor |-> r.cursor, seen |-> r.keys,
                  stable |-> PresentKeys(segs), moved |-> FALSE]
  BY DEF cmd_scan
<1> HIDE DEF r
<1>5. /\ it' = [state |-> state, cursor |-> r.cursor, seen |-> it'.seen,
                stable |-> it'.stable, moved |-> it'.moved]
      /\ it'.state = state /\ it'.cursor = r.cursor
      /\ r.keys \subseteq it'.seen
  BY <1>4 DEF ScanInv
<1>6. ASSUME ~it'.moved, NEW k \in it'.stable \ it'.seen
      PROVE  r.cursor # 0 /\ \E x \in Entries(segs) : EntryKey(segs, x) = k /\ r.cursor <= Rank(segs, x)
  <2>1. \E x \in Entries(segs) : EntryKey(segs, x) = k /\ it.cursor <= Rank(segs, x)
    <3>1. CASE it.state = "on"
      <4>1. it'.stable = it.stable /\ it'.moved = it.moved /\ it.seen \subseteq it'.seen
        BY <1>4, <3>1 DEF ScanInv
      <4> QED
        BY <1>6, <3>1, <4>1 DEF ScanInv, Owed
    <3>2. CASE it.state # "on"
      <4>1. it'.stable = PresentKeys(segs) /\ it.cursor = 0
        BY <1>4, <3>2 DEF ScanInv
      <4>2. PICK x \in Entries(segs) : EntryKey(segs, x) = k
        BY <4>1 DEF PresentKeys
      <4> QED
        BY <1>1, <4>1, <4>2, RankBounds, SMTT(30)
    <3> QED
      BY <3>1, <3>2
  <2>2. k \notin r.keys
    BY <1>5
  <2> QED
    BY <1>2, <2>1, <2>2
<1>7. ~it'.moved => \A k \in it'.stable \ it'.seen : r.cursor # 0 /\ Owed(k)'
  BY <1>3, <1>5, <1>6 DEF Owed
<1>8. ScanCompleteUnmoved'
  BY <1>5, <1>7 DEF ScanCompleteUnmoved
<1>9. it'.state # "on" => it'.cursor = 0
  BY <1>2, <1>5
<1> QED
  BY <1>2, <1>3, <1>5, <1>7, <1>8, <1>9 DEF ScanInv

(* Any other call ends the care of the iteration, or moves nothing out of  *)
(* the reach of its cursor.                                                *)
LEMMA OtherCallStep ==
  ASSUME IInv, IInv', ScanInv, OtherCall
  PROVE  ScanInv'
<1>1. CASE it.state # "on"
  <2>1. it' = NoIteration
    BY <1>1 DEF OtherCall
  <2> QED
    BY <2>1 DEF NoIteration, ScanInv, ScanCompleteUnmoved
<1>2. CASE it.state = "on" /\ job' # Idle
  <2>1. it' = [it EXCEPT !.moved = TRUE]
    BY <1>2 DEF OtherCall
  <2>2. it' = [state |-> "on", cursor |-> it.cursor, seen |-> it.seen, stable |-> it.stable, moved |-> TRUE]
    BY <1>2, <2>1 DEF ScanInv
  <2> QED
    BY <2>2 DEF ScanInv, ScanCompleteUnmoved
<1>3. CASE it.state = "on" /\ job' = Idle
  <2> DEFINE shift == ~ (Entries(segs) \subseteq Entries(segs')) \/ Count(segs) # Count(segs')
  <2>1. it' = [it EXCEPT !.stable = it.stable \cap PresentKeys(segs'), !.moved = it.moved \/ shift]
    BY <1>3 DEF OtherCall
  <2> HIDE DEF shift
  <2>2. it' = [state |-> "on", cursor |-> it.cursor, seen |-> it.seen,
               stable |-> it.stable \cap PresentKeys(segs'), moved |-> it.moved \/ shift]
    BY <1>3, <2>1 DEF ScanInv
  <2>3. ASSUME ~it'.moved, NEW k \in it'.stable \ it'.seen PROVE Owed(k)'
    <3>1. ~it.moved /\ ~shift
      BY <2>2, <2>3
    <3>2. job = Idle /\ Owed(k)
      BY <1>3, <2>2, <3>1 DEF ScanInv
    <3>3. PICK x \in Entries(segs) : EntryKey(segs, x) = k /\ it.cursor <= Rank(segs, x)
      BY <3>2 DEF Owed
    <3>4. Entries(segs) \subseteq Entries(segs')
      BY <3>1 DEF shift
    <3>5. EntryKey(segs', x) = k
      BY <1>3, <3>2, <3>3, <3>4, UnmovedKeys DEF OtherCall
    <3>6. TableOK(segs) /\ TableOK(segs')
      BY DEF IInv
    <3>7. Rank(segs, x) \in Nat /\ Rank(segs', x) \in Nat /\ Rank(segs, x) <= Rank(segs', x)
      BY <3>3, <3>4, <3>6, RankBounds, RankGrows
    <3>8. it'.cursor <= Rank(segs', x) /\ x \in Entries(segs')
      BY <2>2, <3>3, <3>4, <3>7, SMTT(30) DEF ScanInv
    <3> QED
      BY <3>5, <3>8 DEF Owed
  <2> QED
    BY <1>3, <2>2, <2>3 DEF ScanInv, ScanCompleteUnmoved
<1> QED
  BY <1>1, <1>2, <1>3

(* The cursor of SCAN misses no key that stayed in the table during an     *)
(* iteration in which no entry was removed or moved.                       *)
THEOREM ScanMissesNothing == ScanSpec => []ScanCompleteUnmoved
<1>1. ScanInit => IInv /\ ScanInv
  BY InitInv, SMTT(30) DEF ScanInit, NoIteration, ScanInv, ScanCompleteUnmoved
<1>2. IInv /\ ScanInv /\ [ScanNext]_scanVars => (IInv /\ ScanInv)'
  <2> SUFFICES ASSUME IInv, ScanInv, [ScanNext]_scanVars
               PROVE  (IInv /\ ScanInv)'
    OBVIOUS
  <2>1. CASE OtherCall
    BY <2>1, NextInv, OtherCallStep DEF OtherCall
  <2>2. ASSUME NEW count \in Counts, cmd_scan(count)
        PROVE  (IInv /\ ScanInv)'
    <3>1. IInv'
      BY <2>2, NextInv DEF cmd_scan
    <3> QED
      BY <2>2, <3>1, ScanCallStep
  <2>3. CASE UNCHANGED scanVars
    <3>1. IInv'
      BY <2>3, NextInv DEF scanVars, vars
    <3>2. ScanInv'
      BY <2>3 DEF scanVars, ScanInv, ScanCompleteUnmoved, Owed
    <3> QED
      BY <3>1, <3>2
  <2> QED
    BY <2>1, <2>2, <2>3 DEF ScanNext
<1>3. IInv /\ ScanInv => ScanCompleteUnmoved
  BY DEF ScanInv
<1> QED
  BY <1>1, <1>2, <1>3, PTL DEF ScanSpec
=============================================================================
