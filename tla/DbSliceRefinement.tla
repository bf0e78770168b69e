-------------------------- MODULE DbSliceRefinement --------------------------
(***************************************************************************)
(* DbSlice implements EagerStore, for every set of keys, databases and     *)
(* values: each command of the code is one of the steps the store in which *)
(* keys vanish at their deadline can take, with the same reply.            *)
(***************************************************************************)
EXTENDS DbSliceProofs

(* The prover of the leaves that name none. *)
USE ZenonT(40)

(* Lazy expiry of one more key shows nothing. *)
LEMMA CheckAlike ==
  ASSUME NEW d, NEW a, NEW t \in Int, NEW k \in Keys, Sound(d), Sound(a), Alike(d, a, t)
  PROVE  Alike(check_and_expire(d, k, t), a, t) /\ Sound(check_and_expire(d, k, t))
  <1>1. CASE Past(d, k, t)
    <2>1. Alike(Remove(d, {k}), a, t)
      BY <1>1 DEF Alike, Gone, Past, Remove, Sound
    <2>2. QED  BY <1>1, <2>1, RemoveSound DEF check_and_expire
  <1>2. CASE ~Past(d, k, t)
    BY <1>2 DEF check_and_expire
  <1>3. QED  BY <1>1, <1>2

(* Renaming a key that is not past its deadline. *)
LEMMA RenameAlike ==
  ASSUME NEW d, NEW a, NEW t \in Int, NEW from \in Keys, NEW to \in Keys,
         Sound(d), Sound(a), Alike(d, a, t), Contains(d, from), ~Past(d, from, t)
  PROVE  /\ Contains(a, from) /\ a.expire[from] = d.expire[from]
         /\ Alike(rename(d, from, to), rename(a, from, to), t)
         /\ rename(d, from, to) \in Tables /\ rename(a, from, to) \in Tables
  <1>1. a.prime[from] = d.prime[from] /\ a.expire[from] = d.expire[from] /\ Contains(a, from)
    BY DEF Alike, Gone, Contains
  <1>2. rename(d, from, to) \in Tables /\ rename(a, from, to) \in Tables
    BY RenameSound DEF Sound
  <1>3. ASSUME NEW x, Sound(x), Contains(x, from), NEW k \in Keys
        PROVE  /\ rename(x, from, to).prime[k] = IF k = to THEN x.prime[from]
                                                 ELSE IF k = from THEN Absent ELSE x.prime[k]
               /\ rename(x, from, to).expire[k] = IF k = to THEN x.expire[from]
                                                  ELSE IF k = from THEN NoDeadline ELSE x.expire[k]
    BY <1>3 DEF rename, Remove, Sound, Tables
  <1>4. Alike(rename(d, from, to), rename(a, from, to), t)
    <2> SUFFICES ASSUME NEW k \in Keys
                 PROVE  \/ /\ rename(d, from, to).prime[k] = rename(a, from, to).prime[k]
                           /\ rename(d, from, to).expire[k] = rename(a, from, to).expire[k]
                        \/ Gone(rename(d, from, to), k, t) /\ Gone(rename(a, from, to), k, t)
      BY DEF Alike
    <2> DEFINE x == rename(d, from, to)
               y == rename(a, from, to)
    <2>1. /\ x.prime[k] = IF k = to THEN d.prime[from] ELSE IF k = from THEN Absent ELSE d.prime[k]
          /\ x.expire[k] = IF k = to THEN d.expire[from] ELSE IF k = from THEN NoDeadline ELSE d.expire[k]
          /\ y.prime[k] = IF k = to THEN a.prime[from] ELSE IF k = from THEN Absent ELSE a.prime[k]
          /\ y.expire[k] = IF k = to THEN a.expire[from] ELSE IF k = from THEN NoDeadline ELSE a.expire[k]
      BY <1>1, <1>3
    <2> HIDE DEF x, y
    <2>2. QED  BY <1>1, <2>1 DEF Alike, Gone, Past, x, y
  <1>5. QED  BY <1>1, <1>2, <1>4

(* The key that RENAME brings in is gone if the source is past its         *)
(* deadline: only the destination is lost.                                 *)
LEMMA StaleRenameAlike ==
  ASSUME NEW d, NEW a, NEW t \in Int, NEW from \in Keys, NEW to \in Keys,
         Sound(d), Sound(a), Alike(d, a, t), Contains(d, from), Past(d, from, t),
         \A k \in Keys : ~Past(a, k, t)
  PROVE  /\ ~Contains(a, from) /\ d.expire[from] \in 0 .. t
         /\ Alike(rename(d, from, to), del(a, to), t)
         /\ rename(d, from, to) \in Tables /\ del(a, to) \in Tables
  <1>1. ~Contains(a, from) /\ d.expire[from] \in 0 .. t
    BY SMTT(30) DEF Alike, Gone, Contains, Past, Sound, Tables, Deadlines
  <1>2. rename(d, from, to) \in Tables /\ del(a, to) \in Tables
    BY RenameSound, RemoveSound DEF Sound, del
  <1>3. Alike(rename(d, from, to), del(a, to), t)
    <2> SUFFICES ASSUME NEW k \in Keys
                 PROVE  \/ /\ rename(d, from, to).prime[k] = del(a, to).prime[k]
                           /\ rename(d, from, to).expire[k] = del(a, to).expire[k]
                        \/ Gone(rename(d, from, to), k, t) /\ Gone(del(a, to), k, t)
      BY DEF Alike
    <2> DEFINE x == rename(d, from, to)
               y == del(a, to)
    <2>1. /\ x.prime[k] = IF k = to THEN d.prime[from] ELSE IF k = from THEN Absent ELSE d.prime[k]
          /\ x.expire[k] = IF k = to THEN d.expire[from] ELSE IF k = from THEN NoDeadline ELSE d.expire[k]
      BY DEF rename, Remove, Sound, Tables
    <2>2. /\ y.prime[k] = IF k = to THEN Absent ELSE a.prime[k]
          /\ y.expire[k] = IF k = to THEN NoDeadline ELSE a.expire[k]
      BY DEF del, Remove
    <2>3. a.prime[from] = Absent /\ a.expire[from] = NoDeadline
      BY <1>1 DEF Contains, Sound
    <2> HIDE DEF x, y
    <2>4. QED  BY <2>1, <2>2, <2>3 DEF Alike, Gone, Past, x, y
  <1>4. QED  BY <1>1, <1>2, <1>3

(* The generic commands on one or two keys. *)
LEMMA GenericCommandShown ==
  ASSUME IInv, NEW i \in Dbs, NEW k \in Keys, GenericCommand(i, k)
  PROVE  Eager!Next
  <1> DEFINE d == check_and_expire(dbs[i], k, now)
             a == visible[i]
             v0 == a.prime[k]
             g0 == a.expire[k]
  <1>0. Sets(dbs[i], d, k, v0, g0) /\ a \in Tables
    BY LookupShows
  <1>a. /\ d.prime[k] = v0 /\ d.expire[k] = g0 /\ v0 \in Values \cup {Absent}
        /\ Contains(d, k) <=> v0 # Absent
        /\ g0 \in Deadlines \cup {NoDeadline}
    BY <1>0 DEF Sets, Tables, Contains
  <1>b. g0 # NoDeadline => v0 # Absent
    BY VisibleSound DEF Sound
  <1>c. \A cmd, r : Done(cmd, i, {k}, NoDeadline, d, r) => Eager!Saw(cmd, i, {k}, r)
    BY ShownLookup
  <1>d. \A cmd, x, y, v, g, given, r :
          Sets(dbs[i], x, k, v, g) /\ Sets(a, y, k, v, g) /\ Done(cmd, i, {k}, given, x, r)
            => Eager!Did(cmd, i, {k}, given, y, r)
    BY ShownKey
  <1>e. /\ Sets(dbs[i], del(d, k), k, Absent, NoDeadline)
        /\ Sets(a, Eager!del(a, k), k, Absent, NoDeadline)
        /\ Sets(dbs[i], remove_expire(d, k), k, v0, NoDeadline)
        /\ Sets(a, a, k, v0, g0)
    BY <1>0, SetsByWrites, SetsByEager
  <1>f. \A h \in Deadlines : v0 # Absent => Sets(dbs[i], add_expire(d, k, h), k, v0, h)
    BY <1>0, SetsByWrites
  <1>g. \A h \in Deadlines \cup {NoDeadline} : v0 # Absent => Sets(a, Eager!Put(a, k, v0, h), k, v0, h)
    BY <1>0, <1>a, SetsByEager
  <1>h. Sound(dbs[i]) /\ Sound(a) /\ now \in Int /\ Alike(dbs[i], a, now) /\ \A j \in Keys : ~Past(a, j, now)
    BY VisibleAlike
  <1>i. \A cmd, K, given, r, x, y : x \in Tables /\ y \in Tables /\ Alike(x, y, now) /\ Done(cmd, i, K, given, x, r)
          => Eager!Did(cmd, i, K, given, y, r)
    BY Shown
  <1> HIDE DEF d, a
  <1>1. CASE cmd_type(i, k)
    <2>1. Eager!Saw("TYPE", i, {k}, Bulk(v0))
      BY <1>1, <1>a, <1>c DEF cmd_type, d
    <2>2. QED  BY <2>1, LookedUp DEF a
  <1>2. CASE cmd_pttl(i, k)
    <2>1. ~Contains(dbs[i], k) => d = dbs[i]
      BY <1>h DEF d, check_and_expire, Past, Sound, Contains
    <2>2. Done("PTTL", i, {k}, NoDeadline, d,
               IntReply(IF v0 = Absent THEN -2 ELSE IF g0 = NoDeadline THEN -1 ELSE g0 - now))
      <3>1. Done("PTTL", i, {k}, NoDeadline, d,
                 IntReply(CASE ~Contains(d, k) -> -2
                            [] Contains(d, k) /\ d.expire[k] = NoDeadline -> -1
                            [] OTHER -> d.expire[k] - now))
        BY <1>2, <2>1 DEF cmd_pttl, d
      <3>2. QED  BY <3>1, <1>a
    <2>3. Eager!Saw("PTTL", i, {k},
               IntReply(IF v0 = Absent THEN -2 ELSE IF g0 = NoDeadline THEN -1 ELSE g0 - now))
      BY <2>2, <1>c
    <2>4. QED  BY <2>3, LookedUp DEF a
  <1>3. CASE cmd_persist(i, k)
    <2>1. CASE g0 = NoDeadline
      <3>1. \/ Done("PERSIST", i, {k}, NoDeadline, d, IntReply(0))
            \/ Done("PERSIST", i, {k}, NoDeadline, remove_expire(d, k), IntReply(0))
        BY <1>3, <2>1, <1>a DEF cmd_persist, d
      <3>2. Eager!Did("PERSIST", i, {k}, NoDeadline, a, IntReply(0))
        BY <2>1, <3>1, <1>0, <1>d, <1>e
      <3>3. QED  BY <2>1, <3>2, Refused DEF a, Eager!Saw
    <2>2. CASE g0 # NoDeadline
      <3>1. Done("PERSIST", i, {k}, NoDeadline, remove_expire(d, k), IntReply(1))
        BY <1>3, <2>2, <1>a, <1>b DEF cmd_persist, d
      <3>2. Eager!Did("PERSIST", i, {k}, NoDeadline, Eager!Put(a, k, v0, NoDeadline), IntReply(1))
        BY <2>2, <3>1, <1>b, <1>d, <1>e, <1>g
      <3>3. QED  BY <2>2, <3>2, Touched DEF a
    <2>3. QED  BY <2>1, <2>2
  <1>4. ASSUME NEW to \in Keys, cmd_rename(i, k, to)
        PROVE  Eager!Next
    <2>1. Done("RENAME", i, {k, to}, dbs[i].expire[k], rename(dbs[i], k, to),
               IF Contains(dbs[i], k) THEN Ok ELSE Err)
      BY <1>4 DEF cmd_rename
    <2>2. CASE Contains(dbs[i], k) /\ ~Past(dbs[i], k, now)
      <3>1. /\ Contains(a, k) /\ a.expire[k] = dbs[i].expire[k]
            /\ Alike(rename(dbs[i], k, to), rename(a, k, to), now)
            /\ rename(dbs[i], k, to) \in Tables /\ rename(a, k, to) \in Tables
        BY <2>2, <1>h, RenameAlike
      <3>2. Eager!Did("RENAME", i, {k, to}, a.expire[k], rename(a, k, to), Ok)
        BY <2>1, <2>2, <3>1, <1>i
      <3>3. QED  BY <3>1, <3>2, Moved DEF a
    <2>3. CASE Contains(dbs[i], k) /\ Past(dbs[i], k, now)
      <3>1. /\ ~Contains(a, k) /\ dbs[i].expire[k] \in 0 .. now
            /\ Alike(rename(dbs[i], k, to), del(a, to), now)
            /\ rename(dbs[i], k, to) \in Tables /\ del(a, to) \in Tables
        BY <2>3, <1>h, StaleRenameAlike
      <3>2. Eager!Did("RENAME", i, {k, to}, dbs[i].expire[k], del(a, to), Ok)
        BY <2>1, <2>3, <3>1, <1>i
      <3>3. QED  BY <3>1, <3>2, Moved DEF a
    <2>4. CASE ~Contains(dbs[i], k)
      <3>1. dbs[i].expire[k] = NoDeadline
        BY <2>4, <1>h DEF Sound, Contains
      <3>2. Sets(dbs[i], dbs[i], k, dbs[i].prime[k], NoDeadline)
        BY <3>1, <1>h DEF Sets, Sound
      <3>3. Sets(dbs[i], remove_expire(dbs[i], k), k, dbs[i].prime[k], NoDeadline)
        BY <3>2, SetsByWrites
      <3>4. Alike(remove_expire(dbs[i], k), a, now) /\ remove_expire(dbs[i], k) \in Tables
        BY <3>1, <3>3, <1>h DEF Sets, Alike, Gone, Past
      <3>5. Eager!Saw("RENAME", i, {k, to}, Err)
        BY <2>1, <2>4, <3>1, <3>4, <1>0, <1>i DEF rename, Eager!Saw, a
      <3>6. ~Contains(a, k)
        BY <2>4, <1>h DEF Alike, Gone, Contains, Past
      <3>7. QED  BY <3>5, <3>6, Moved DEF a, Eager!Saw
    <2>5. QED  BY <2>2, <2>3, <2>4
  <1>5. ASSUME NEW to \in Keys, cmd_renamenx(i, k, to)
        PROVE  Eager!Next
    <2> DEFINE d2 == check_and_expire(d, to, now)
    <2>1. CASE ~Contains(d, k)
      <3>1. Done("RENAMENX", i, {k, to}, NoDeadline, d, Err)
        BY <1>5, <2>1 DEF cmd_renamenx, d
      <3>2. Eager!Saw("RENAMENX", i, {k, to}, Err)
        BY <3>1, ShownLookup DEF d
      <3>3. ~Contains(a, k)
        BY <2>1, <1>a DEF Contains
      <3>4. QED  BY <3>2, <3>3, Moved DEF a, Eager!Saw
    <2>2. /\ Alike(d, a, now) /\ Sound(d)
          /\ Alike(d2, a, now) /\ Sound(d2)
      BY <1>h, CheckAlike DEF d
    <2>3. ~Past(d2, to, now)
      BY DEF check_and_expire, Past, Remove
    <2>4. d2.prime[to] = a.prime[to]
      BY <2>2, <2>3, <1>h DEF Alike, Gone, Past
    <2>5. CASE Contains(d, k) /\ Contains(d2, to)
      <3>1. Done("RENAMENX", i, {k, to}, NoDeadline, d2, IntReply(0))
        BY <1>5, <2>5 DEF cmd_renamenx, d
      <3>2. Eager!Saw("RENAMENX", i, {k, to}, IntReply(0))
        BY <2>2, <3>1, <1>0, <1>i DEF Sound, Eager!Saw, a
      <3>3. Contains(a, k) /\ Contains(a, to)
        BY <2>4, <2>5, <1>a DEF Contains
      <3>4. QED  BY <3>2, <3>3, Moved DEF a, Eager!Saw
    <2>6. CASE Contains(d, k) /\ ~Contains(d2, to)
      <3>1. Done("RENAMENX", i, {k, to}, d.expire[k], rename(d2, k, to), IntReply(1))
        BY <1>5, <2>6 DEF cmd_renamenx, d
      <3>2. k # to
        BY <2>4, <2>6, <1>a DEF Contains
      <3>3. d2.prime[k] = d.prime[k] /\ d2.expire[k] = d.expire[k]
        BY <3>2 DEF check_and_expire, Remove
      <3>4. Contains(d2, k) /\ ~Past(d2, k, now)
        BY <2>6, <3>3, <1>a, <1>h DEF Contains, Past
      <3>5. /\ Contains(a, k) /\ a.expire[k] = d2.expire[k]
            /\ Alike(rename(d2, k, to), rename(a, k, to), now)
            /\ rename(d2, k, to) \in Tables /\ rename(a, k, to) \in Tables
        BY <2>2, <3>4, <1>h, RenameAlike
      <3> HIDE DEF d2
      <3>6. Eager!Did("RENAMENX", i, {k, to}, a.expire[k], rename(a, k, to), IntReply(1))
        BY <3>1, <3>3, <3>5, <1>i
      <3>7. ~Contains(a, to)
        BY <2>4, <2>6 DEF Contains
      <3>8. QED  BY <3>5, <3>6, <3>7, Moved DEF a
    <2>7. QED  BY <2>1, <2>5, <2>6
  <1>6. ASSUME NEW cmd \in {"EXPIRE", "EXPIREAT"}, ~Contains(d, k),
               Done(cmd, i, {k}, NoDeadline, d, IntReply(0))
        PROVE  Eager!Next
    <2>1. v0 = Absent /\ Eager!Saw(cmd, i, {k}, IntReply(0))
      BY <1>6, <1>a, <1>c
    <2>2. QED  BY <2>1, Refused DEF a
  <1>7. ASSUME NEW cmd \in {"EXPIRE", "EXPIREAT"}, Contains(d, k),
               Done(cmd, i, {k}, NoDeadline, del(d, k), IntReply(1))
        PROVE  Eager!Next
    <2>1. Eager!Did(cmd, i, {k}, NoDeadline, Eager!del(a, k), IntReply(1))
      BY <1>7, <1>d, <1>e
    <2>2. v0 # Absent
      BY <1>7, <1>a
    <2>3. QED  BY <2>1, <2>2, Touched DEF a
  <1>8. ASSUME NEW cmd, NEW deadline \in Deadlines, Contains(d, k),
               Done(cmd, i, {k}, deadline, add_expire(d, k, deadline), IntReply(1))
        PROVE  Eager!Did(cmd, i, {k}, deadline, Eager!Put(a, k, v0, deadline), IntReply(1))
    BY <1>8, <1>a, <1>d, <1>f, <1>g
  <1>9. ASSUME NEW n \in Ttls, NEW unit \in Units, set_expire_relative(i, k, n, unit)
        PROVE  Eager!Next
    <2> DEFINE deadline == RelativeDeadline(now, n, unit)
    <2>1. deadline \in Deadlines
      BY <1>h, TtlTypes
    <2>2. CASE ~Contains(d, k) \/ n <= 0
      BY <1>9, <2>2, <1>6, <1>7, SliceAssumption, SMTT(30) DEF set_expire_relative, d
    <2>3. CASE Contains(d, k) /\ ~(n <= 0)
      <3>1. n > 0 /\ Done("EXPIRE", i, {k}, deadline, add_expire(d, k, deadline), IntReply(1))
        BY <1>9, <2>3 DEF set_expire_relative, d
      <3> HIDE DEF deadline
      <3>2. Eager!Did("EXPIRE", i, {k}, deadline, Eager!Put(a, k, v0, deadline), IntReply(1))
        BY <2>1, <2>3, <3>1, <1>8
      <3>3. v0 # Absent
        BY <2>3, <1>a
      <3>4. QED  BY <3>1, <3>2, <3>3, Touched DEF a, deadline
    <2>4. QED  BY <2>2, <2>3
  <1>10. ASSUME NEW n \in Ttls, NEW unit \in Units, set_expire_absolute(i, k, n, unit)
         PROVE  Eager!Next
    <2> DEFINE deadline == AbsoluteDeadline(n, unit)
    <2>1. deadline \in Deadlines
      BY <1>h, TtlTypes
    <2>2. CASE ~Contains(d, k) \/ deadline <= now
      BY <1>10, <2>1, <2>2, <1>6, <1>7, <1>h, SMTT(30) DEF set_expire_absolute, d, Deadlines
    <2>3. CASE Contains(d, k) /\ ~(deadline <= now)
      <3>1. Done("EXPIREAT", i, {k}, deadline, add_expire(d, k, deadline), IntReply(1))
        BY <1>10, <2>3 DEF set_expire_absolute, d
      <3> HIDE DEF deadline
      <3>2. Eager!Did("EXPIREAT", i, {k}, deadline, Eager!Put(a, k, v0, deadline), IntReply(1))
        BY <2>1, <2>3, <3>1, <1>8
      <3>3. v0 # Absent
        BY <2>3, <1>a
      <3>4. QED  BY <3>2, <3>3, Touched DEF a, deadline
    <2>4. QED  BY <2>2, <2>3
  <1>11. QED
    BY <1>1, <1>2, <1>3, <1>4, <1>5, <1>9, <1>10 DEF GenericCommand

-----------------------------------------------------------------------------
(* Dropping the same keys, or keys past their deadline, on both sides. *)
LEMMA RemoveAlike ==
  ASSUME NEW d, NEW a, NEW t \in Int, NEW K \in SUBSET Keys, Sound(d), Sound(a), Alike(d, a, t),
         \A k \in Keys : ~Past(a, k, t)
  PROVE  /\ Alike(Remove(d, K), Remove(a, K), t)
         /\ Remove(d, K) \in Tables /\ Remove(a, K) \in Tables
         /\ Alike(CheckAll(d, K, t), a, t) /\ CheckAll(d, K, t) \in Tables
         /\ \A k \in K : /\ CheckAll(d, K, t).prime[k] = a.prime[k]
                         /\ CheckAll(d, K, t).expire[k] = a.expire[k]
  <1>1. Alike(Remove(d, K), Remove(a, K), t)
    BY DEF Alike, Gone, Past, Remove
  <1>2. Remove(d, K) \in Tables /\ Remove(a, K) \in Tables /\ CheckAll(d, K, t) \in Tables
    BY RemoveSound, CheckAllSound DEF Sound
  <1>3. \A k \in Keys :
          /\ CheckAll(d, K, t).prime[k] = IF k \in K /\ Past(d, k, t) THEN Absent ELSE d.prime[k]
          /\ CheckAll(d, K, t).expire[k] = IF k \in K /\ Past(d, k, t) THEN NoDeadline ELSE d.expire[k]
    BY DEF CheckAll, Remove
  <1>4. \A k \in Keys : Past(d, k, t) => a.prime[k] = Absent /\ a.expire[k] = NoDeadline
    BY DEF Alike, Gone, Past
  <1>5. \A k \in Keys : ~Past(d, k, t) => a.prime[k] = d.prime[k] /\ a.expire[k] = d.expire[k]
    BY DEF Alike, Gone
  <1>6. Alike(CheckAll(d, K, t), a, t)
    BY <1>3, <1>4, <1>5 DEF Alike, Gone, Past
  <1>7. QED  BY <1>1, <1>2, <1>3, <1>4, <1>5, <1>6

(* Counting lingering keys counts at least the visible ones. *)
LEMMA PresentAlike ==
  ASSUME NEW d, NEW a, NEW t, Alike(d, a, t), \A k \in Keys : ~Past(a, k, t)
  PROVE  Present(a) \subseteq Present(d)
  BY DEF Alike, Gone, Present, Contains

(* The commands on several keys or on whole databases. *)
LEMMA ManyKeyCommandShown ==
  ASSUME IInv, NEW i \in Dbs, ManyKeyCommand(i)
  PROVE  Eager!Next
  <1> DEFINE d == dbs[i]
             a == visible[i]
  <1>0. Sound(d) /\ Sound(a) /\ now \in Int /\ Alike(d, a, now) /\ \A j \in Keys : ~Past(a, j, now)
    BY VisibleAlike
  <1>a. \A cmd, K, given, r, x, y : x \in Tables /\ y \in Tables /\ Alike(x, y, now) /\ Done(cmd, i, K, given, x, r)
          => Eager!Did(cmd, i, K, given, y, r)
    BY Shown
  <1>b. \A cmd, K, r : Done(cmd, i, K, NoDeadline, d, r) => Eager!Saw(cmd, i, K, r)
    BY ShownIdle
  <1>c. ASSUME NEW K \in SUBSET Keys, NEW cmd, NEW L, NEW r,
               Done(cmd, i, L, NoDeadline, CheckAll(d, K, now), r)
        PROVE  Eager!Saw(cmd, i, L, r)
    BY <1>0, <1>a, <1>c, RemoveAlike DEF Sound, Eager!Saw
  <1>d. ASSUME NEW K \in SUBSET Keys, NEW k \in K
        PROVE  /\ CheckAll(d, K, now).prime[k] = a.prime[k]
               /\ CheckAll(d, K, now).expire[k] = a.expire[k]
    BY <1>0, RemoveAlike, SMTT(30)
  <1>e. \A K \in SUBSET Keys : K \cap Present(CheckAll(d, K, now)) = K \cap Present(a)
    BY <1>d DEF Present, Contains
  <1> HIDE DEF d, a
  <1>1. ASSUME NEW K \in KeySets, cmd_mget(i, K) \/ cmd_exists(i, K) \/ cmd_keys(i, K)
        PROVE  Eager!Next
    <2>0. K \in SUBSET Keys
      BY DEF KeySets
    <2>1. CASE cmd_mget(i, K)
      <3>1. Done("MGET", i, K, NoDeadline, CheckAll(d, K, now),
                 ValueList([k \in K |-> IF is_string(CheckAll(d, K, now).prime[k])
                                        THEN Bulk(CheckAll(d, K, now).prime[k]) ELSE Nil]))
        BY <2>1 DEF cmd_mget, d
      <3>2. [k \in K |-> IF is_string(CheckAll(d, K, now).prime[k])
                         THEN Bulk(CheckAll(d, K, now).prime[k]) ELSE Nil]
            = [k \in K |-> IF is_string(a.prime[k]) THEN Bulk(a.prime[k]) ELSE Nil]
        BY <2>0, <1>d
      <3>3. Eager!Saw("MGET", i, K, ValueList([k \in K |-> IF is_string(a.prime[k]) THEN Bulk(a.prime[k]) ELSE Nil]))
        BY <2>0, <3>1, <3>2, <1>c
      <3>4. Eager!LookupMany(i, K)
        BY <3>3, SameReplies, SameTables, SameCardinality DEF a, Eager!LookupMany
      <3>5. QED  BY <3>4, ManyStep
    <2>2. CASE cmd_exists(i, K)
      <3>1. Eager!Saw("EXISTS", i, K, IntReply(Cardinality(K \cap Present(a))))
        BY <2>0, <2>2, <1>c, <1>e DEF cmd_exists, d
      <3>2. Eager!LookupMany(i, K)
        BY <3>1, SameReplies, SameTables, SameCardinality DEF a, Eager!LookupMany
      <3>3. QED  BY <3>2, ManyStep
    <2>3. CASE cmd_keys(i, K)
      <3>1. K \cap Present(CheckAll(d, Keys, now)) = K \cap Present(a)
        BY <2>0, <1>d DEF Present, Contains
      <3>2. Eager!Saw("KEYS", i, K, KeyList(K \cap Present(a)))
        BY <2>3, <3>1, <1>c DEF cmd_keys, d
      <3>3. Eager!LookupMany(i, K)
        BY <3>2, SameReplies, SameTables, SameCardinality DEF a, Eager!LookupMany
      <3>4. QED  BY <3>3, ManyStep
    <2>4. QED  BY <1>1, <2>1, <2>2, <2>3
  <1>2. ASSUME NEW K \in KeySets, cmd_del(i, K)
        PROVE  Eager!Next
    <2>0. K \in SUBSET Keys
      BY DEF KeySets
    <2>1. Alike(Remove(d, K), Remove(a, K), now) /\ Remove(d, K) \in Tables /\ Remove(a, K) \in Tables
      BY <1>0, <2>0, RemoveAlike
    <2>2. Eager!Did("DEL", i, K, NoDeadline, Remove(a, K), IntReply(Cardinality(K \cap Present(d))))
      BY <1>2, <2>1, <1>a DEF cmd_del, d
    <2>3. K \cap Present(d) \in Eager!Lingering(i, K)
      BY <1>0, PresentAlike, SameTables DEF a, Eager!Lingering
    <2>4. Eager!StaleCount(i, K)
      BY <2>2, <2>3, SameReplies, SameTables, SameCardinality DEF a, Eager!StaleCount
    <2>5. QED  BY <2>4, ManyStep
  <1>3. ASSUME NEW pairs \in Pairs
        PROVE  /\ DOMAIN pairs \in SUBSET Keys
               /\ \A k \in DOMAIN pairs : pairs[k] \in Values /\ pairs[k] # Absent
    BY ConstantsAssumption, SMTT(30) DEF Pairs, Values
  <1>4. ASSUME NEW pairs \in Pairs, cmd_mset(i, pairs)
        PROVE  Eager!Next
    <2> DEFINE K == DOMAIN pairs
               x == RemoveExpires(AddPairs(d, pairs), K)
               new == [prime |-> [k \in Keys |-> IF k \in K THEN pairs[k] ELSE a.prime[k]],
                       expire |-> [k \in Keys |-> IF k \in K THEN NoDeadline ELSE a.expire[k]]]
    <2>1. x \in Tables
      BY <1>0, AddPairsSound DEF Sound
    <2>2. new \in Tables
      BY <1>0, <1>3 DEF Sound, Tables
    <2>3. Alike(x, new, now)
      BY <1>0, SMTT(30) DEF Alike, Gone, Past, RemoveExpires, AddPairs
    <2>4. Done("MSET", i, K, NoDeadline, x, Ok)
      BY <1>4 DEF cmd_mset, d
    <2>5. Eager!Did("MSET", i, K, NoDeadline, new, Ok)
      <3> HIDE DEF x, new, K
      <3>1. QED  BY <2>1, <2>2, <2>3, <2>4, <1>a
    <2>6. Eager!WriteMany(i, pairs)
      BY <2>5, SameReplies DEF a, Eager!WriteMany
    <2>7. QED  BY <2>6, WriteManyStep
  <1>5. ASSUME NEW pairs \in Pairs, NEW asked \in KeySets, cmd_msetnx(i, pairs, asked)
        PROVE  Eager!Next
    <2> DEFINE K == DOMAIN pairs
               c == CheckAll(d, asked, now)
               new == [prime |-> [k \in Keys |-> IF k \in K THEN pairs[k] ELSE a.prime[k]],
                       expire |-> [k \in Keys |-> IF k \in K THEN NoDeadline ELSE a.expire[k]]]
    <2>0. asked \in SUBSET Keys /\ asked \subseteq K
      BY <1>5 DEF KeySets, cmd_msetnx
    <2>1. \A k \in asked : c.prime[k] = a.prime[k] /\ c.expire[k] = a.expire[k]
      BY <2>0, <1>d
    <2>2. CASE /\ \E k \in asked : Contains(c, k)
               /\ Done("MSETNX", i, K, NoDeadline, c, IntReply(0))
      <3>1. ~ \A k \in K : ~Contains(a, k)
        BY <2>0, <2>1, <2>2 DEF Contains
      <3>2. Eager!Saw("MSETNX", i, K, IntReply(0))
        BY <2>0, <2>2, <1>c
      <3>3. Eager!WriteMany(i, pairs)
        BY <3>1, <3>2, SameReplies, SameTables DEF a, Eager!WriteMany
      <3>4. QED  BY <3>3, WriteManyStep
    <2>3. CASE /\ asked = K /\ \A k \in asked : ~Contains(c, k)
               /\ Done("MSETNX", i, K, NoDeadline, AddPairs(c, pairs), IntReply(1))
      <3>1. Alike(c, a, now) /\ Sound(c)
        BY <1>0, <2>0, RemoveAlike, CheckAllSound
      <3>2. AddPairs(c, pairs) \in Tables
        BY <3>1, AddPairsSound DEF Sound
      <3>3. new \in Tables
        BY <1>0, <1>3 DEF Sound, Tables
      <3>4. \A k \in K : c.expire[k] = NoDeadline
        BY <2>0, <2>3, <3>1 DEF Sound, Contains
      <3> HIDE DEF c
      <3>5. Alike(AddPairs(c, pairs), new, now)
        BY <3>1, <3>4 DEF Alike, Gone, Past, AddPairs
      <3>6. Eager!Did("MSETNX", i, K, NoDeadline, new, IntReply(1))
        <4> HIDE DEF new, K
        <4>1. QED  BY <2>3, <3>2, <3>3, <3>5, <1>a
      <3>7. \A k \in K : ~Contains(a, k)
        BY <2>1, <2>3 DEF Contains
      <3>8. Eager!WriteMany(i, pairs)
        BY <3>6, <3>7, SameReplies, SameTables DEF a, Eager!WriteMany
      <3>9. QED  BY <3>8, WriteManyStep
    <2>4. QED  BY <1>5, <2>2, <2>3 DEF cmd_msetnx, d
  <1>6. CASE cmd_dbsize(i)
    <2>1. Eager!Saw("DBSIZE", i, {}, IntReply(Cardinality(Present(d))))
      BY <1>6, <1>b DEF cmd_dbsize, d
    <2>2. Present(d) \in Eager!Lingering(i, Keys)
      <3>1. Present(a) \subseteq Present(d) /\ Present(d) \subseteq Keys
        BY <1>0, PresentAlike DEF Present
      <3>2. QED  BY <3>1, SameTables DEF a, Eager!Lingering
    <2>3. Eager!StaleSize(i)
      BY <2>1, <2>2, SameReplies, SameCardinality DEF Eager!StaleSize
    <2>4. QED  BY <2>3, DbStep
  <1>7. CASE cmd_randomkey(i)
    <2>1. Present(a) \subseteq Present(d) /\ Present(d) \subseteq Keys
      BY <1>0, PresentAlike DEF Present
    <2>2. \/ Present(d) = {} /\ Eager!Saw("RANDOMKEY", i, {}, KeyList({}))
          \/ \E k \in Present(d) : Eager!Saw("RANDOMKEY", i, {}, KeyList({k}))
      BY <1>7, <1>b DEF cmd_randomkey, d
    <2>3. Eager!StaleKey(i)
      BY <2>1, <2>2, SameReplies, SameTables DEF a, Eager!StaleKey
    <2>4. QED  BY <2>3, DbStep
  <1>8. CASE Reject(i)
    <2>1. Eager!Saw("reject", i, {}, Err)
      BY <1>8, <1>b DEF Reject, d
    <2>2. QED  BY <2>1, DbStep
  <1>9. \A t : Visible(EmptyTable, t) = EmptyTable
    BY DEF Visible, Remove, EmptyTable
  <1>10. CASE cmd_flushdb(i)
    <2>1. /\ dbs' = [dbs EXCEPT ![i] = EmptyTable] /\ now' = now
          /\ last' = [cmd |-> "FLUSHDB", db |-> i, keys |-> Keys, given |-> NoDeadline, reply |-> Ok]
      BY <1>10 DEF cmd_flushdb, Done
    <2>2. dbs \in [Dbs -> Tables]
      BY DEF IInv, TypeOK
    <2>3. visible' = [visible EXCEPT ![i] = EmptyTable]
      BY <1>9, <2>1, <2>2 DEF visible
    <2>4. Eager!Flush(i)
      BY <2>1, <2>3, SameReplies, SameTables DEF Eager!Flush
    <2>5. QED  BY <2>4, DbStep
  <1>11. CASE cmd_flushall(i)
    <2>1. /\ dbs' = [j \in Dbs |-> EmptyTable] /\ now' = now
          /\ last' = [cmd |-> "FLUSHALL", db |-> i, keys |-> Keys, given |-> NoDeadline, reply |-> Ok]
      BY <1>11 DEF cmd_flushall
    <2>2. visible' = [j \in Dbs |-> EmptyTable]
      BY <1>9, <2>1 DEF visible
    <2>3. Eager!Flush(i)
      BY <2>1, <2>2, SameReplies, SameTables DEF Eager!Flush
    <2>4. QED  BY <2>3, DbStep
  <1>12. CASE cmd_scan(i)
    <2>1. \/ \E S \in SUBSET Present(d) : Eager!Saw("SCAN", i, {}, KeyList(S))
          \/ Eager!Saw("SCAN", i, {}, Err)
      BY <1>12, <1>b DEF cmd_scan, d
    <2>2. \A S \in SUBSET Present(d) : S \in SUBSET Keys
      BY DEF Present
    <2>3. Eager!StaleScan(i)
      BY <2>1, <2>2, SameReplies DEF Eager!StaleScan
    <2>4. QED  BY <2>3, DbStep
  <1>13. QED
    BY <1>1, <1>2, <1>4, <1>5, <1>6, <1>7, <1>8, <1>10, <1>11, <1>12 DEF ManyKeyCommand

-----------------------------------------------------------------------------
(* What is visible later is visible of what is visible now. *)
LEMMA VisibleLater ==
  ASSUME NEW d, Sound(d), NEW t \in Int, NEW u \in Int, t <= u
  PROVE  Visible(Visible(d, t), u) = Visible(d, u)
  <1>1. \A k \in Keys : Past(d, k, t) => Past(d, k, u)
    BY SMTT(30) DEF Past, Sound, Tables, Deadlines
  <1>2. Alike(Visible(d, t), d, u)
    BY <1>1, VisibleAt, SMTT(30) DEF Alike, Gone, Past
  <1>3. QED  BY <1>2, AlikeVisible, SMTT(30)

(* Ticks and sweeps only let time pass. *)
LEMMA ClockShown == ASSUME IInv, Tick \/ Sweep PROVE Eager!Next
  <1>a. now \in Int
    BY SMTT(30) DEF IInv, TypeOK, Deadlines
  <1>b. \A i \in Dbs : Sound(dbs[i]) /\ visible[i] = Visible(dbs[i], now)
    BY NowAndHere
  <1>0. now \in Int /\ \A i \in Dbs : Sound(dbs[i]) /\ visible[i] = Visible(dbs[i], now)
    BY <1>a, <1>b
  <1>1. ASSUME NEW t \in now .. MaxNow, now' = t, UNCHANGED last,
               \A i \in Dbs : Visible(dbs'[i], t) = Visible(dbs[i], t)
        PROVE  Eager!Next
    <2>1. t \in Int /\ now <= t
      BY <1>0, SliceAssumption, SMTT(30) DEF Deadlines
    <2>2. \A i \in Dbs : Eager!Remove(visible[i], Eager!Due(visible[i], t)) = Visible(dbs'[i], t)
      <3> SUFFICES ASSUME NEW i \in Dbs
                   PROVE  Eager!Remove(visible[i], Eager!Due(visible[i], t)) = Visible(dbs[i], t)
        BY <1>1
      <3>1. visible[i] \in Tables
        BY VisibleSound DEF Sound
      <3>2. Eager!Remove(visible[i], Eager!Due(visible[i], t)) = Visible(visible[i], t)
        BY <2>1, <3>1, EagerDrops
      <3>3. Visible(visible[i], t) = Visible(dbs[i], t)
        BY <1>0, <2>1, VisibleLater, SMTT(30)
      <3>4. QED  BY <3>2, <3>3
    <2>3. visible' = [i \in Dbs |-> Visible(dbs'[i], t)]
      BY <1>1 DEF visible
    <2>4. visible' = [i \in Dbs |-> Eager!Remove(visible[i], Eager!Due(visible[i], t))]
      BY <2>2, <2>3
    <2>5. Eager!Advance
      BY <1>1, <2>4 DEF Eager!Advance
    <2>6. QED  BY <2>5 DEF Eager!Next
  <1>2. CASE Tick
    <2>1. PICK t \in now + 1 .. MaxNow : now' = t
      BY <1>2 DEF Tick
    <2>2. t \in now .. MaxNow
      BY <1>0, <2>1, SliceAssumption, SMTT(30) DEF Deadlines
    <2>3. QED  BY <1>1, <1>2, <2>1, <2>2 DEF Tick
  <1>3. CASE Sweep
    <2>1. PICK t \in now .. MaxNow :
            /\ now' = t
            /\ dbs' = [i \in Dbs |-> IF Present(dbs[i]) # {}
                                     THEN expire_sweep(dbs[i], SweepCount, t)
                                     ELSE dbs[i]]
            /\ UNCHANGED last
      BY <1>3 DEF Sweep
    <2>2. ASSUME NEW i \in Dbs
          PROVE  Visible(dbs'[i], t) = Visible(dbs[i], t)
      <3> DEFINE E == {k \in FirstDeadlines(dbs[i], SweepCount) : Past(dbs[i], k, t)}
      <3>1. CASE Present(dbs[i]) = {}
        BY <2>1, <3>1
      <3>2. CASE Present(dbs[i]) # {}
        <4>1. dbs'[i] = Remove(dbs[i], E)
          BY <2>1, <3>2 DEF expire_sweep
        <4>2. \A k \in E : Past(dbs[i], k, t)
          OBVIOUS
        <4> HIDE DEF E
        <4>3. Alike(Remove(dbs[i], E), dbs[i], t)
          BY <4>2 DEF Alike, Gone, Remove
        <4>4. QED  BY <4>1, <4>3, AlikeVisible
      <3>3. QED  BY <3>1, <3>2
    <2>3. QED  BY <1>1, <2>1, <2>2
  <1>4. QED  BY <1>2, <1>3

(* A new shard shows empty databases. *)
LEMMA InitShown == Init => Eager!Init
  <1> SUFFICES ASSUME Init PROVE Eager!Init
    OBVIOUS
  <1>1. \A t : Visible(EmptyTable, t) = EmptyTable
    BY DEF Visible, Remove, EmptyTable
  <1>2. visible = [i \in Dbs |-> EmptyTable]
    BY <1>1 DEF Init, visible
  <1>3. QED  BY <1>2, SameReplies, SameTables DEF Init, NoCommand, Eager!Init

(* A stuttering step shows nothing. *)
LEMMA StutterShown == UNCHANGED vars => UNCHANGED Eager!vars
  BY DEF vars, Eager!vars, visible

(* DbSlice implements EagerStore: whatever the order of commands, sweeps   *)
(* and ticks of the clock, a client gets the replies of a store in which   *)
(* keys vanish at their deadline, but for the exceptions EagerStore names. *)
THEOREM ExpiryIsInvisible == Spec => ImplementsEagerStore
  <1>1. Init => Eager!Init
    BY InitShown
  <1>2. IInv /\ Next => Eager!Next
    BY ClockShown, StringCommandShown, GenericCommandShown, ManyKeyCommandShown DEF Next
  <1>3. IInv /\ [Next]_vars => [Eager!Next]_Eager!vars
    BY <1>2, StutterShown
  <1>4. Spec => Eager!Spec
    BY <1>1, <1>3, Invariance, PTL DEF Spec, Eager!Spec
  <1>5. QED  BY <1>4 DEF ImplementsEagerStore
=============================================================================
