------------------------------- MODULE DashMap -------------------------------
(***************************************************************************)
(* The map that a DashTable implements, and what can keep it from doing    *)
(* so: a delete that takes the record of another key, and a panic that is  *)
(* caught half-way through growth.                                         *)
(***************************************************************************)
EXTENDS DashTable

(* The map that segments hold. *)
AsMap(t) ==
  [k \in Keys |-> IF \E x \in Entries(t) : EntryKey(t, x) = k
                  THEN EntryVal(t, CHOOSE x \in Entries(t) : EntryKey(t, x) = k)
                  ELSE Absent]

(* The map behind the table; while it grows, the old segments hold it. *)
behind == IF job.what \in {"grow", "panic"} THEN AsMap(job.old) ELSE AsMap(segs)

Map == INSTANCE TableMap WITH map <- behind

(* Whatever moves entries between home, next and stash buckets and between *)
(* segments, every call of DashTable replies as a map would.               *)
ImplementsMap == Map!Spec

-----------------------------------------------------------------------------
(* delete takes the stash item at p off the books of the next bucket, too, *)
(* which has a record that fits.  insert_new enters an item in the books   *)
(* of its home bucket only: the record stands for another key.             *)
TakesFromNext(sg, p) ==
  LET k == sg.slot[p].key
      rest == PutSlot(sg, p, Empty)
  IN  /\ p[1] >= NumBuckets
      /\ delete(sg, p) # unset_stash_ptr(rest, home_bucket(k), fingerprint(k), p[1] - NumBuckets)

(* A step that deletes no entry in this way. *)
NextKept ==
  \A x \in Entries(segs) :
    segs' = [segs EXCEPT ![x[1]] = delete(@, x[2])] => ~TakesFromNext(segs[x[1]], x[2])

(* A step that is not the panic of a call whose caller survives it. *)
NoCaughtPanic == last'.op # "panic"
=============================================================================
