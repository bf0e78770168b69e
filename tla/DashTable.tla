------------------------------ MODULE DashTable ------------------------------
(***************************************************************************)
(* The hash table behind the prime and expire tables of a database: a      *)
(* vector of segments that doubles when a key finds its segment full.      *)
(* One thread owns the table and runs each call to its end.  The loops of  *)
(* grow, insert_no_dup and retain take one step per iteration here; `job`  *)
(* holds their local state, and no call starts before the job is done.     *)
(***************************************************************************)
EXTENDS Segment

CONSTANTS
  InitSegs,   \* segments of a new table (4)
  GrowTries,  \* attempts of insert_no_dup (10)
  Absent,     \* reply: no such key
  RetainSets, \* sets of keys that calls of retain drop
  MaxSegs     \* bound: no insert starts to grow a table of more segments

ASSUME TableAssumption ==
  /\ InitSegs \in Nat \ {0} /\ GrowTries \in Nat \ {0}
  /\ Absent \notin Vals
  /\ RetainSets \subseteq SUBSET Keys
  /\ MaxSegs \in Nat

VARIABLES
  segs,  \* segments: a function on 0 .. n - 1
  size,  \* size
  job,   \* the call in progress
  last   \* the last call that returned: operation, key and reply

vars == <<segs, size, job, last>>

NewSegs(n) == [g \in 0 .. n - 1 |-> NewSegment]
Count(t) == Cardinality(DOMAIN t)

seg_id(t, k) == Seg(k) % Count(t)

Entries(t) == {x \in (DOMAIN t) \X Pos : t[x[1]].slot[x[2]] # Empty}
EntryKey(t, x) == t[x[1]].slot[x[2]].key
EntryVal(t, x) == t[x[1]].slot[x[2]].val

(* Table order: segment by segment, slot by slot. *)
EntryBefore(x, y) == x[1] < y[1] \/ (x[1] = y[1] /\ Before(x[2], y[2]))

(* What find returns, as a value or Absent. *)
Lookup(t, k) ==
  LET g == seg_id(t, k)
      P == find(t[g], k)
  IN  IF P = {} THEN Absent ELSE t[g].slot[First(P)].val

Idle == [what |-> "idle"]
Busy == job # Idle

Init ==
  /\ segs = NewSegs(InitSegs)
  /\ size = 0
  /\ job = Idle
  /\ last = [op |-> "none"]

Returns(op, k, r) == last' = [op |-> op, key |-> k, reply |-> r]

-----------------------------------------------------------------------------
(* Reads. *)
Find(k) ==
  /\ ~Busy
  /\ Returns("find", k, Lookup(segs, k))
  /\ UNCHANGED <<segs, size, job>>

(* iter: every entry, with its value. *)
Iter ==
  /\ ~Busy
  /\ last' = [op |-> "iter",
              reply |-> {<<EntryKey(segs, x), EntryVal(segs, x)>> : x \in Entries(segs)}]
  /\ UNCHANGED <<segs, size, job>>

Len ==
  /\ ~Busy
  /\ last' = [op |-> "len", reply |-> size]
  /\ UNCHANGED <<segs, size, job>>

-----------------------------------------------------------------------------
(* grow() is entered with the pair that found no room: every entry is      *)
(* taken out of the old segments and there are twice as many new ones.     *)
StartGrow(k, v, tries) ==
  /\ segs' = NewSegs(2 * Count(segs))
  /\ size' = 0
  /\ job' = [what |-> "grow", key |-> k, val |-> v, tries |-> tries,
             old |-> segs, left |-> Entries(segs)]
  /\ UNCHANGED last

Insert(k, v) ==
  LET g == seg_id(segs, k)
      P == find(segs[g], k)
      p == First(P)
  IN  /\ ~Busy
      /\ \/ /\ P # {}
            /\ segs' = [segs EXCEPT ![g] = PutSlot(@, p, [segs[g].slot[p] EXCEPT !.val = v])]
            /\ Returns("insert", k, segs[g].slot[p].val)
            /\ UNCHANGED <<size, job>>
         \/ /\ P = {} /\ ~Full(segs[g], k)
            /\ segs' = [segs EXCEPT ![g] = insert_new(@, k, v)]
            /\ size' = size + 1
            /\ Returns("insert", k, Absent)
            /\ UNCHANGED job
         \/ /\ P = {} /\ Full(segs[g], k) /\ Count(segs) <= MaxSegs
            /\ StartGrow(k, v, 0)

(* A panic unwinds the call.  It ends the shard thread when the call came  *)
(* through the cross-shard channel; when it came from a connection task,   *)
(* the runtime catches it and the table stays in use as the call left it.  *)
Panic ==
  /\ \/ job' = [what |-> "panic", old |-> job.old] /\ UNCHANGED last
     \/ job' = Idle /\ last' = [op |-> "panic"]
  /\ UNCHANGED <<segs, size>>

(* The old entries go in segment by segment, each from its last slot on. *)
NextLeft ==
  CHOOSE x \in job.left : \A y \in job.left \ {x} :
    x[1] < y[1] \/ (x[1] = y[1] /\ Before(y[2], x[2]))

(* Mutant: the segment is the one of the old table. *)
Reinsert_old_segment ==
  /\ job.what = "grow" /\ job.left # {}
  /\ LET x == NextLeft
         k == EntryKey(job.old, x)
         g == seg_id(job.old, k)
     IN  /\ ~Full(segs[g], k)
         /\ segs' = [segs EXCEPT ![g] = insert_new(@, k, EntryVal(job.old, x))]
         /\ size' = size + 1
         /\ job' = [job EXCEPT !.left = @ \ {x}]
         /\ UNCHANGED last

Reinsert ==
  /\ job.what = "grow" /\ job.left # {}
  /\ LET x == NextLeft
         k == EntryKey(job.old, x)
         g == seg_id(segs, k)
     IN  \/ /\ ~Full(segs[g], k)
            /\ segs' = [segs EXCEPT ![g] = insert_new(@, k, EntryVal(job.old, x))]
            /\ size' = size + 1
            /\ job' = [job EXCEPT !.left = @ \ {x}]
            /\ UNCHANGED last
         \/ Full(segs[g], k) /\ Panic

(* Mutant: the size is not restored after growth. *)
insert_no_dup_uncounted ==
  /\ job.what = "grow" /\ job.left = {}
  /\ LET k == job.key
         g == seg_id(segs, k)
     IN  /\ ~Full(segs[g], k)
         /\ segs' = [segs EXCEPT ![g] = insert_new(@, k, job.val)]
         /\ job' = Idle
         /\ Returns("insert", k, Absent)
         /\ UNCHANGED size

(* The loop of insert_no_dup, once growth is over. *)
insert_no_dup ==
  /\ job.what = "grow" /\ job.left = {}
  /\ LET k == job.key
         g == seg_id(segs, k)
     IN  \/ /\ job.tries < GrowTries /\ ~Full(segs[g], k)
            /\ segs' = [segs EXCEPT ![g] = insert_new(@, k, job.val)]
            /\ size' = size + 1
            /\ job' = Idle
            /\ Returns("insert", k, Absent)
         \/ /\ job.tries < GrowTries /\ Full(segs[g], k)
            /\ StartGrow(k, job.val, job.tries + 1)
         \/ job.tries = GrowTries /\ Panic

-----------------------------------------------------------------------------
Remove(k) ==
  LET g == seg_id(segs, k)
      P == find(segs[g], k)
  IN  /\ ~Busy
      /\ Returns("remove", k, Lookup(segs, k))
      /\ IF P = {} THEN UNCHANGED <<segs, size>>
                   ELSE /\ segs' = [segs EXCEPT ![g] = delete(@, First(P))]
                        /\ size' = size - 1
      /\ UNCHANGED job

clear ==
  /\ ~Busy
  /\ segs' = NewSegs(InitSegs)
  /\ size' = 0
  /\ last' = [op |-> "clear"]
  /\ UNCHANGED job

(* retain with a predicate that rejects the keys of D: the entries to drop *)
(* are deleted in place, from the last one on.                             *)
StartRetain(D) ==
  /\ ~Busy
  /\ job' = [what |-> "retain", left |-> {x \in Entries(segs) : EntryKey(segs, x) \in D}]
  /\ UNCHANGED <<segs, size, last>>

retain ==
  /\ job.what = "retain"
  /\ \/ /\ job.left # {}
        /\ LET x == CHOOSE x \in job.left : \A y \in job.left \ {x} : EntryBefore(y, x)
           IN  /\ segs' = [segs EXCEPT ![x[1]] = delete(@, x[2])]
               /\ size' = size - 1
               /\ job' = [job EXCEPT !.left = @ \ {x}]
               /\ UNCHANGED last
     \/ /\ job.left = {}
        /\ job' = Idle
        /\ last' = [op |-> "retain"]
        /\ UNCHANGED <<segs, size>>

Next ==
  \/ \E k \in Keys : Find(k) \/ Remove(k) \/ \E v \in Vals : Insert(k, v)
  \/ \E D \in RetainSets : StartRetain(D)
  \/ Iter \/ Len \/ clear
  \/ Reinsert \/ insert_no_dup \/ retain

Spec == Init /\ [][Next]_vars

-----------------------------------------------------------------------------
TypeOK ==
  /\ \A g \in DOMAIN segs : segs[g] \in Segments
  /\ DOMAIN segs = 0 .. Count(segs) - 1
  /\ size \in Nat
  /\ job.what \in {"idle", "grow", "retain", "panic"}

(* Wherever probing and the stash put an entry, and however often the      *)
(* table grew, the entry is in the segment its hash selects and in a       *)
(* bucket that find considers for its key.                                 *)
Placed ==
  \A x \in Entries(segs) :
    LET k == EntryKey(segs, x)
        b == x[2][1]
        probing == segs[x[1]].slot[x[2]].probing
    IN  /\ x[1] = seg_id(segs, k)
        /\ \/ b = home_bucket(k) /\ ~probing
           \/ b = next_bucket(home_bucket(k)) /\ probing
           \/ b >= NumBuckets /\ ~probing

(* Between calls, size counts the entries. *)
SizeExact == ~Busy => size = Cardinality(Entries(segs))

(* Every entry of the table is found, at the slot it is in: no key is lost *)
(* in the stash and none is in the table twice.                            *)
AllFindable ==
  ~Busy => \A x \in Entries(segs) : find(segs[x[1]], EntryKey(segs, x)) = {x[2]}
=============================================================================
