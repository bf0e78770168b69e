---------------------------- MODULE DbSliceProofs ----------------------------
(***************************************************************************)
(* Proofs about DbSlice, for every set of keys, databases and values and   *)
(* every width of the deadline arithmetic: its invariants and action       *)
(* properties, and then what its commands show a client: the steps of      *)
(* EagerStore in the terms of DbSlice, when two databases look alike, and  *)
(* the commands on strings and lists.  The remaining commands and the      *)
(* refinement itself are in module DbSliceRefinement.                      *)
(***************************************************************************)
EXTENDS DbSlice, TLAPS

(* The prover of the leaves that name none. *)
USE ZenonT(40)

USE ConstantsAssumption, SliceAssumption

(* A database whose expire table only holds keys of its prime table. *)
Sound(d) ==
  /\ d \in Tables
  /\ \A k \in Keys : d.expire[k] # NoDeadline => d.prime[k] # Absent

(* The inductive invariant: TypeOK and NoOrphanDeadline. *)
IInv ==
  /\ TypeOK
  /\ \A i \in Dbs : Sound(dbs[i])

(* Taking d to d2 at time t brings no key to life with a deadline other    *)
(* than `given`.                                                           *)
Fresh(d, d2, t, given) ==
  \A k \in Keys : ~Live(d, k, t) /\ Live(d2, k, t) => d2.expire[k] \in {NoDeadline, given}

-----------------------------------------------------------------------------
(* Wrap reduces any integer to a u64. *)
LEMMA WrapType == ASSUME NEW n \in Int PROVE Wrap(n) \in Deadlines
  BY SMTT(30) DEF Wrap, Deadlines

(* Deadlines computed from any TTL or timestamp argument are u64. *)
LEMMA DeadlineTypes ==
  ASSUME NEW t \in Int, NEW n \in Int, NEW unit \in Int
  PROVE  /\ RelativeDeadline(t, n, unit) \in Deadlines
         /\ AbsoluteDeadline(n, unit) \in Deadlines
  <1>1. Wrap(n) \in Int /\ Wrap(Wrap(n) * unit) \in Int
    BY WrapType, SMTT(30) DEF Deadlines
  <1>2. QED  BY <1>1, WrapType, SMTT(30) DEF RelativeDeadline, AbsoluteDeadline

(* Dropping keys from both tables, as DEL, lazy expiry and the sweep do. *)
LEMMA RemoveSound ==
  ASSUME NEW d, Sound(d), NEW K, NEW t, NEW given
  PROVE  Sound(Remove(d, K)) /\ Fresh(d, Remove(d, K), t, given)
  BY DEF Sound, Tables, Remove, Fresh, Live, Past, Contains

(* A new value for a key orphans no deadline. *)
LEMMA AddSound ==
  ASSUME NEW d, Sound(d), NEW k \in Keys, NEW v \in Values
  PROVE  Sound(add_or_update(d, k, v))
  BY DEF Sound, Tables, add_or_update

(* add_expire only gives a deadline to a key with a value. *)
LEMMA AddExpireSound ==
  ASSUME NEW d, Sound(d), NEW k \in Keys, NEW deadline \in Deadlines
  PROVE  Sound(add_expire(d, k, deadline))
  BY DEF Sound, Tables, add_expire, Contains

(* Dropping a deadline keeps a database sound. *)
LEMMA RemoveExpireSound ==
  ASSUME NEW d, Sound(d), NEW k \in Keys
  PROVE  Sound(remove_expire(d, k))
  BY DEF Sound, Tables, remove_expire

(* RENAME moves value and deadline together. *)
LEMMA RenameSound ==
  ASSUME NEW d, Sound(d), NEW from \in Keys, NEW to \in Keys
  PROVE  Sound(rename(d, from, to))
  BY DEF Sound, Tables, rename, remove_expire, Remove, Contains

(* Lazy expiry drops value and deadline together. *)
LEMMA CheckSound ==
  ASSUME NEW d, Sound(d), NEW k \in Keys, NEW t
  PROVE  Sound(check_and_expire(d, k, t))
  BY RemoveSound DEF check_and_expire

(* ... also for the keys of a multi-key command. *)
LEMMA CheckAllSound ==
  ASSUME NEW d, Sound(d), NEW K, NEW t
  PROVE  Sound(CheckAll(d, K, t))
  BY RemoveSound DEF CheckAll

(* The writes of MSET and MSETNX. *)
LEMMA AddPairsSound ==
  ASSUME NEW d, Sound(d), NEW pairs \in Pairs
  PROVE  /\ Sound(AddPairs(d, pairs))
         /\ Sound(RemoveExpires(AddPairs(d, pairs), DOMAIN pairs))
  <1>1. \A k \in DOMAIN pairs : pairs[k] \in Values /\ k \in Keys
    BY SMTT(30) DEF Pairs, Values
  <1>2. Absent \notin Values
    OBVIOUS
  <1>3. Sound(AddPairs(d, pairs))
    BY <1>1, <1>2, SMTT(30) DEF Sound, Tables, AddPairs
  <1>4. \A e : Sound(e) => Sound(RemoveExpires(e, DOMAIN pairs))
    BY DEF Sound, Tables, RemoveExpires
  <1>5. QED  BY <1>3, <1>4

(* FLUSHDB, FLUSHALL and a new database. *)
LEMMA EmptySound == Sound(EmptyTable)
  BY DEF EmptyTable, Sound, Tables

(* The deadlines of EXPIRE, SETEX and their like. *)
LEMMA TtlTypes ==
  ASSUME NEW t \in Int, NEW n \in Ttls, NEW unit \in Units
  PROVE  /\ RelativeDeadline(t, n, unit) \in Deadlines
         /\ AbsoluteDeadline(n, unit) \in Deadlines
  BY DeadlineTypes, SMTT(30) DEF Units

(* The deadlines of the options of SET and GETEX. *)
LEMMA ExpiryTypes ==
  ASSUME TypeOK, NEW e \in ExpiryOptions
  PROVE  e.n \in Int /\ (e.kind # "none" => Deadline(e) \in Deadlines)
  <1>1. now \in Int
    BY SMTT(30) DEF TypeOK, Deadlines
  <1>2. CASE e = NoExpiry
    BY <1>2, SMTT(30) DEF NoExpiry
  <1>3. CASE e \in [kind : {"rel", "abs"}, n : Ttls, unit : Units]
    BY <1>1, <1>3, TtlTypes DEF Deadline
  <1>4. QED  BY <1>2, <1>3 DEF ExpiryOptions

-----------------------------------------------------------------------------
(* Taking d to e at time t touches key k only; it gives k, unless k was    *)
(* live, no deadline other than `given`.                                   *)
Touches(d, e, k, t, given) ==
  /\ Sound(e)
  /\ \A j \in Keys \ {k} : e.prime[j] = d.prime[j] /\ e.expire[j] = d.expire[j]
  /\ Live(d, k, t) \/ e.expire[k] \in {NoDeadline, given}

(* A command that only touches one key revives no deadline. *)
LEMMA TouchesFresh ==
  ASSUME NEW d, NEW e, NEW k \in Keys, NEW t, NEW given, Touches(d, e, k, t, given)
  PROVE  Sound(e) /\ Fresh(d, e, t, given)
  BY DEF Touches, Fresh, Live, Past, Contains

(* Lazy expiry leaves a key with a value only if the key was live. *)
LEMMA CheckTouches ==
  ASSUME NEW d, Sound(d), NEW k \in Keys, NEW t, NEW given
  PROVE  /\ Touches(d, check_and_expire(d, k, t), k, t, given)
         /\ Contains(check_and_expire(d, k, t), k) => Live(d, k, t)
  <1>1. CASE Past(d, k, t)
    <2>1. check_and_expire(d, k, t) = Remove(d, {k})
      BY <1>1 DEF check_and_expire
    <2>2. Sound(Remove(d, {k}))
      BY RemoveSound
    <2>3. QED  BY <2>1, <2>2, SMTT(30) DEF Touches, Remove, Contains
  <1>2. CASE ~Past(d, k, t)
    <2>1. check_and_expire(d, k, t) = d
      BY <1>2 DEF check_and_expire
    <2>2. Live(d, k, t) \/ d.expire[k] = NoDeadline
      BY <1>2 DEF Live, Sound, Contains
    <2>3. Contains(d, k) => Live(d, k, t)
      BY <1>2 DEF Live
    <2>4. QED  BY <2>1, <2>2, <2>3 DEF Touches
  <1>3. QED  BY <1>1, <1>2

(* Writing the value of the touched key. *)
LEMMA AddTouches ==
  ASSUME NEW d, NEW e, NEW k \in Keys, NEW t, NEW given, NEW v \in Values,
         Touches(d, e, k, t, given)
  PROVE  Touches(d, add_or_update(e, k, v), k, t, given)
  <1>1. Sound(add_or_update(e, k, v))
    BY AddSound DEF Touches
  <1>2. QED  BY <1>1, SMTT(30) DEF Touches, add_or_update, Sound, Tables

(* Giving the touched key its deadline. *)
LEMMA AddExpireTouches ==
  ASSUME NEW d, NEW e, NEW k \in Keys, NEW t, NEW given, NEW deadline \in Deadlines,
         Touches(d, e, k, t, given), Live(d, k, t) \/ deadline = given
  PROVE  Touches(d, add_expire(e, k, deadline), k, t, given)
  <1>1. Sound(add_expire(e, k, deadline))
    BY AddExpireSound DEF Touches
  <1>2. QED  BY <1>1, SMTT(30) DEF Touches, add_expire, Sound, Tables

(* Dropping the deadline of the touched key. *)
LEMMA RemoveExpireTouches ==
  ASSUME NEW d, NEW e, NEW k \in Keys, NEW t, NEW given, Touches(d, e, k, t, given)
  PROVE  Touches(d, remove_expire(e, k), k, t, given)
  <1>1. Sound(remove_expire(e, k))
    BY RemoveExpireSound DEF Touches
  <1>2. QED  BY <1>1, SMTT(30) DEF Touches, remove_expire, Sound, Tables

(* Deleting the touched key. *)
LEMMA DelTouches ==
  ASSUME NEW d, NEW e, NEW k \in Keys, NEW t, NEW given, Touches(d, e, k, t, given)
  PROVE  Touches(d, del(e, k), k, t, given)
  <1>1. Sound(del(e, k))
    BY RemoveSound DEF Touches, del
  <1>2. QED  BY <1>1 DEF Touches, del, Remove

-----------------------------------------------------------------------------
(* What FreshKeyDeadline asks of a step. *)
FreshStep ==
  \A i \in Dbs, k \in Keys :
    ~Live(dbs[i], k, now) /\ Live(dbs'[i], k, now')
      => dbs'[i].expire[k] \in {NoDeadline, last'.given}

(* A command keeps the promises if the database it leaves behind does. *)
LEMMA DoneOK ==
  ASSUME IInv, NEW cmd, NEW i \in Dbs, NEW K \in SUBSET Keys,
         NEW given \in Deadlines \cup {NoDeadline}, NEW d, NEW r,
         Sound(d), Fresh(dbs[i], d, now, given),
         Done(cmd, i, K, given, d, r)
  PROVE  IInv' /\ FreshStep
  <1>1. d \in Tables /\ dbs \in [Dbs -> Tables]
    BY DEF IInv, TypeOK, Sound
  <1>2. dbs' = [dbs EXCEPT ![i] = d] /\ now' = now
        /\ last'.keys = K /\ last'.given = given
    BY DEF Done
  <1>3. dbs' \in [Dbs -> Tables]
    BY <1>1, <1>2
  <1>4. \A j \in Dbs : Sound(dbs'[j])
    BY <1>1, <1>2 DEF IInv
  <1>5. TypeOK'
    BY <1>2, <1>3 DEF IInv, TypeOK
  <1>6. FreshStep
    <2>1. dbs'[i] = d /\ \A j \in Dbs \ {i} : dbs'[j] = dbs[j]
      BY <1>1, <1>2
    <2>2. QED  BY <1>2, <2>1, SMTT(30) DEF FreshStep, Fresh
  <1>7. QED  BY <1>4, <1>5, <1>6 DEF IInv

(* The databases of a new shard. *)
LEMMA InitInv == Init => IInv
  <1> SUFFICES ASSUME Init PROVE IInv
    OBVIOUS
  <1>1. \A i \in Dbs : Sound(dbs[i])
    BY EmptySound DEF Init
  <1>2. dbs \in [Dbs -> Tables]
    BY EmptySound DEF Init, Sound
  <1>3. last.keys = {} /\ last.given = NoDeadline
    BY DEF Init, NoCommand
  <1>4. last.keys \in SUBSET Keys /\ last.given \in Deadlines \cup {NoDeadline}
    BY <1>3
  <1>5. now \in 0 .. MaxNow
    BY DEF Init
  <1>6. QED  BY <1>1, <1>2, <1>4, <1>5 DEF IInv, TypeOK

(* The clock and the sweep bring no key to life. *)
LEMMA ClockOK == ASSUME IInv, Tick \/ Sweep PROVE IInv' /\ FreshStep
  <1>0. now \in Int /\ \A i \in Dbs : Sound(dbs[i])
    BY SMTT(30) DEF IInv, TypeOK, Deadlines
  <1>1. CASE Tick
    <2>1. PICK t \in now + 1 .. MaxNow : now' = t
      BY <1>1 DEF Tick
    <2>2. dbs' = dbs /\ last' = last
      BY <1>1 DEF Tick
    <2>3. IInv'
      BY <2>1, <2>2, SMTT(30) DEF IInv, TypeOK, Deadlines
    <2>4. FreshStep
      BY <1>0, <2>1, <2>2, SMTT(30) DEF FreshStep, Live, Past, Sound, Tables, Deadlines
    <2>5. QED  BY <2>3, <2>4
  <1>2. CASE Sweep
    <2>1. PICK t \in now .. MaxNow :
            /\ now' = t
            /\ dbs' = [i \in Dbs |-> IF Present(dbs[i]) # {}
                                     THEN expire_sweep(dbs[i], SweepCount, t)
                                     ELSE dbs[i]]
            /\ UNCHANGED last
      BY <1>2 DEF Sweep
    <2>2. \A i \in Dbs : dbs'[i] = dbs[i] \/ \E K : dbs'[i] = Remove(dbs[i], K)
      BY <2>1 DEF expire_sweep
    <2>3. \A i \in Dbs : Sound(dbs'[i])
      BY <1>0, <2>2, RemoveSound, SMTT(30)
    <2>4. dbs' \in [Dbs -> Tables]
      BY <2>1, <2>3 DEF Sound
    <2>5. now' \in 0 .. MaxNow
      BY <2>1, SMTT(30) DEF IInv, TypeOK, Deadlines
    <2>6. IInv'
      BY <2>1, <2>3, <2>4, <2>5 DEF IInv, TypeOK
    <2>7. \A i \in Dbs, k \in Keys : Live(dbs'[i], k, now') => Live(dbs[i], k, now)
      <3> SUFFICES ASSUME NEW i \in Dbs, NEW k \in Keys, Live(dbs'[i], k, now')
                   PROVE  Live(dbs[i], k, now)
        OBVIOUS
      <3>1. dbs'[i].prime[k] # Absent
        BY DEF Live, Contains
      <3>2. dbs'[i].prime[k] = dbs[i].prime[k] /\ dbs'[i].expire[k] = dbs[i].expire[k]
        <4>1. CASE dbs'[i] = dbs[i]
          BY <4>1
        <4>2. ASSUME NEW K, dbs'[i] = Remove(dbs[i], K)
              PROVE  dbs'[i].prime[k] = dbs[i].prime[k] /\ dbs'[i].expire[k] = dbs[i].expire[k]
          BY <3>1, <4>2, SMTT(30) DEF Remove
        <4>3. QED  BY <2>2, <4>1, <4>2
      <3>3. QED  BY <1>0, <2>1, <3>2, SMTT(30) DEF Live, Past, Contains, Sound, Tables, Deadlines
    <2>8. QED  BY <2>6, <2>7 DEF FreshStep
  <1>3. QED  BY <1>1, <1>2
-----------------------------------------------------------------------------
(* One lemma per group of commands; within it one step per command. *)

(* The commands that look up one key before anything else. *)
LEMMA LookupOK ==
  ASSUME IInv, NEW i \in Dbs, NEW k \in Keys, NEW d, NEW given \in Deadlines \cup {NoDeadline},
         NEW cmd, NEW r, Touches(dbs[i], d, k, now, given),
         Done(cmd, i, {k}, given, d, r)
  PROVE  IInv' /\ FreshStep
  <1>1. Sound(d) /\ Fresh(dbs[i], d, now, given)
    BY TouchesFresh
  <1>2. {k} \in SUBSET Keys
    OBVIOUS
  <1>3. QED  BY <1>1, <1>2, DoneOK

(* The string and list commands, one step per command. *)
LEMMA StringCommandOK ==
  ASSUME IInv, NEW i \in Dbs, NEW k \in Keys, StringCommand(i, k)
  PROVE  IInv' /\ FreshStep
  <1> DEFINE d == check_and_expire(dbs[i], k, now)
  <1>0. /\ \A given : Touches(dbs[i], d, k, now, given)
        /\ Contains(d, k) => Live(dbs[i], k, now)
        /\ Sound(dbs[i]) /\ now \in Int
    BY CheckTouches, SMTT(30) DEF IInv, TypeOK, Deadlines
  <1>a. StringValues \subseteq Values /\ List \in Values
    BY DEF Values
  <1>b. \A v \in Values : \A given : Touches(dbs[i], add_or_update(d, k, v), k, now, given)
    BY <1>0, AddTouches
  <1>c. \A given : Touches(dbs[i], del(d, k), k, now, given)
    BY <1>0, DelTouches
  <1>d. \A cmd, r, e : Touches(dbs[i], e, k, now, NoDeadline) /\ Done(cmd, i, {k}, NoDeadline, e, r)
          => IInv' /\ FreshStep
    BY LookupOK
  <1> HIDE DEF d
  <1>1. CASE cmd_get(i, k)
    BY <1>1, <1>0, <1>d DEF cmd_get, d
  <1>2. CASE cmd_strlen(i, k)
    BY <1>2, <1>0, <1>d DEF cmd_strlen, d
  <1>3. CASE cmd_getdel(i, k)
    BY <1>3, <1>0, <1>c, <1>d DEF cmd_getdel, d
  <1>4. CASE cmd_lpush(i, k)
    BY <1>4, <1>0, <1>a, <1>b, <1>d DEF cmd_lpush, d
  <1>5. CASE cmd_lpop(i, k)
    BY <1>5, <1>0, <1>c, <1>d DEF cmd_lpop, d
  <1>6. ASSUME NEW v \in StringValues, cmd_setnx(i, k, v)
        PROVE  IInv' /\ FreshStep
    BY <1>6, <1>0, <1>a, <1>b, <1>d DEF cmd_setnx, d
  <1>7. ASSUME NEW v \in StringValues, cmd_getset(i, k, v)
        PROVE  IInv' /\ FreshStep
    <2>1. Touches(dbs[i], remove_expire(add_or_update(d, k, v), k), k, now, NoDeadline)
      BY <1>a, <1>b, RemoveExpireTouches
    <2>2. QED  BY <1>7, <1>0, <2>1, <1>d DEF cmd_getset, d
  <1>8. ASSUME NEW v \in StringValues, cmd_append(i, k, v) \/ cmd_incrbyfloat(i, k, v)
        PROVE  IInv' /\ FreshStep
    BY <1>8, <1>0, <1>a, <1>b, <1>d DEF cmd_append, cmd_incrbyfloat, d
  <1>9. ASSUME NEW delta \in Integers64, cmd_incrby(i, k, delta) \/ cmd_decrby(i, k, delta)
        PROVE  IInv' /\ FreshStep
    <2>1. \A cmd, n : incr_by(cmd, i, k, n) => IInv' /\ FreshStep
      <3> SUFFICES ASSUME NEW cmd, NEW n, incr_by(cmd, i, k, n) PROVE IInv' /\ FreshStep
        OBVIOUS
      <3>1. \A x : Fits(x) => x \in Values
        BY DEF Fits, Values, StringValues
      <3>2. QED  BY <1>0, <1>b, <1>d, <3>1 DEF incr_by, d
    <2>2. QED  BY <1>9, <2>1 DEF cmd_incrby, cmd_decrby
  <1>10. ASSUME NEW v \in StringValues, NEW n \in Ttls, NEW unit \in Units,
                cmd_setex(i, k, v, n, unit)
         PROVE  IInv' /\ FreshStep
    <2> DEFINE deadline == RelativeDeadline(now, n, unit)
               e == add_or_update(dbs[i], k, v)
    <2>1. deadline \in Deadlines
      BY <1>0, TtlTypes
    <2>2. Sound(e) /\ Sound(add_expire(e, k, deadline))
      BY <1>0, <1>a, <2>1, AddSound, AddExpireSound
    <2>3. Contains(e, k)
      BY <1>0, <1>a, SMTT(30) DEF add_or_update, Contains, Sound, Tables
    <2>4. Touches(dbs[i], add_expire(e, k, deadline), k, now, deadline)
      BY <1>0, <2>2, <2>3, SMTT(30) DEF Touches, add_expire, add_or_update, Sound, Tables
    <2>5. Sound(dbs[i]) /\ Fresh(dbs[i], dbs[i], now, NoDeadline) /\ {k} \in SUBSET Keys
      BY <1>0 DEF Fresh
    <2>6. CASE n <= 0
      BY <1>10, <2>5, <2>6, DoneOK DEF cmd_setex
    <2>7. CASE ~(n <= 0)
      BY <1>10, <2>1, <2>4, <2>7, LookupOK DEF cmd_setex
    <2>8. QED  BY <2>6, <2>7
  <1>11. ASSUME NEW o \in GetexOptions, cmd_getex(i, k, o)
         PROVE  IInv' /\ FreshStep
    <2>1. o.kind \in {"rel", "abs"} => Deadline(o) \in Deadlines
      BY ExpiryTypes, SMTT(30) DEF GetexOptions, IInv
    <2>2. CASE o.kind \in {"rel", "abs"} /\ is_string(d.prime[k]) /\ ~(o.n <= 0)
      <3>1. Touches(dbs[i], add_expire(d, k, Deadline(o)), k, now, Deadline(o))
        BY <1>0, <2>1, <2>2, AddExpireTouches
      <3>2. Done("GETEX", i, {k}, Deadline(o), add_expire(d, k, Deadline(o)), Bulk(d.prime[k]))
        BY <1>11, <2>2 DEF cmd_getex, d
      <3>3. QED  BY <2>1, <2>2, <3>1, <3>2, LookupOK
    <2>3. CASE ~(o.kind \in {"rel", "abs"} /\ is_string(d.prime[k]) /\ ~(o.n <= 0))
      <3>1. Touches(dbs[i], remove_expire(d, k), k, now, NoDeadline)
        BY <1>0, RemoveExpireTouches
      <3>2. \/ \E r : Done("GETEX", i, {k}, NoDeadline, d, r)
            \/ \E r : Done("GETEX", i, {k}, NoDeadline, remove_expire(d, k), r)
        BY <1>11, <2>3 DEF cmd_getex, d
      <3>3. QED  BY <1>0, <1>d, <3>1, <3>2
    <2>4. QED  BY <2>2, <2>3
  <1>12. ASSUME NEW v \in StringValues, NEW flags \in SetFlags, NEW e \in ExpiryOptions,
                cmd_set(i, k, v, flags, e)
         PROVE  IInv' /\ FreshStep
    <2> DEFINE kept == IF "KEEPTTL" \in flags /\ Contains(d, k) THEN d.expire[k] ELSE NoDeadline
               given == IF e.kind = "none" THEN NoDeadline ELSE Deadline(e)
               a == add_or_update(d, k, v)
               new == SetExpiry(a, k, kept, flags, e)
    <2>1. given \in Deadlines \cup {NoDeadline} /\ (e.kind # "none" => given \in Deadlines)
      BY ExpiryTypes DEF IInv
    <2>2. Touches(dbs[i], a, k, now, given)
      BY <1>a, <1>b
    <2>3. kept # NoDeadline => kept \in Deadlines /\ Live(dbs[i], k, now)
      BY <1>0, SMTT(30) DEF Touches, Sound, Tables
    <2>4. Touches(dbs[i], new, k, now, given)
      <3> HIDE DEF a, kept
      <3>1. CASE e.kind # "none"
        BY <3>1, <2>1, <2>2, AddExpireTouches DEF SetExpiry
      <3>2. CASE e.kind = "none" /\ kept # NoDeadline
        BY <3>2, <2>2, <2>3, AddExpireTouches DEF SetExpiry
      <3>3. CASE e.kind = "none" /\ kept = NoDeadline
        BY <3>3, <2>2, RemoveExpireTouches DEF SetExpiry
      <3>4. QED  BY <3>1, <3>2, <3>3
    <2>5. Sound(dbs[i]) /\ Fresh(dbs[i], dbs[i], now, NoDeadline) /\ {k} \in SUBSET Keys
      BY <1>0 DEF Fresh
    <2>6. \/ \E r : Done("SET", i, {k}, NoDeadline, dbs[i], r)
          \/ \E r : Done("SET", i, {k}, NoDeadline, d, r)
          \/ \E r : Done("SET", i, {k}, given, new, r)
      BY <1>12 DEF cmd_set, d
    <2> HIDE DEF new, given
    <2>7. ASSUME NEW r, Done("SET", i, {k}, NoDeadline, dbs[i], r)
          PROVE  IInv' /\ FreshStep
      BY <2>5, <2>7, DoneOK
    <2>8. ASSUME NEW r, Done("SET", i, {k}, NoDeadline, d, r)
          PROVE  IInv' /\ FreshStep
      BY <1>0, <1>d, <2>8
    <2>9. ASSUME NEW r, Done("SET", i, {k}, given, new, r)
          PROVE  IInv' /\ FreshStep
      BY <2>1, <2>4, <2>9, LookupOK
    <2>10. QED  BY <2>6, <2>7, <2>8, <2>9
  <1>13. QED
    BY <1>1, <1>2, <1>3, <1>4, <1>5, <1>6, <1>7, <1>8, <1>9, <1>10, <1>11, <1>12
    DEF StringCommand

-----------------------------------------------------------------------------
(* A key that rename brings to life has the deadline of the source. *)
LEMMA RenameFresh ==
  ASSUME NEW d, Sound(d), NEW from \in Keys, NEW to \in Keys, NEW t
  PROVE  Fresh(d, rename(d, from, to), t, d.expire[from])
  <1>1. CASE Contains(d, from)
    BY <1>1 DEF Fresh, rename, Remove, Sound, Tables, Live, Past, Contains
  <1>2. CASE ~Contains(d, from)
    BY <1>2 DEF Fresh, rename, remove_expire, Sound, Tables, Live, Past, Contains
  <1>3. QED  BY <1>1, <1>2

(* The generic commands on one or two keys. *)
LEMMA GenericCommandOK ==
  ASSUME IInv, NEW i \in Dbs, NEW k \in Keys, GenericCommand(i, k)
  PROVE  IInv' /\ FreshStep
  <1> DEFINE d == check_and_expire(dbs[i], k, now)
  <1>0. /\ \A given : Touches(dbs[i], d, k, now, given)
        /\ Contains(d, k) => Live(dbs[i], k, now)
        /\ Sound(dbs[i]) /\ now \in Int
    BY CheckTouches, SMTT(30) DEF IInv, TypeOK, Deadlines
  <1>a. Sound(d)
    BY <1>0 DEF Touches
  <1>b. \A given : Touches(dbs[i], del(d, k), k, now, given)
    BY <1>0, DelTouches
  <1>c. \A cmd, r, e : Touches(dbs[i], e, k, now, NoDeadline) /\ Done(cmd, i, {k}, NoDeadline, e, r)
          => IInv' /\ FreshStep
    BY LookupOK
  <1> HIDE DEF d
  <1>1. CASE cmd_type(i, k)
    BY <1>1, <1>0, <1>c DEF cmd_type, d
  <1>2. CASE cmd_pttl(i, k)
    <2>1. ~Contains(dbs[i], k) => d = dbs[i]
      BY <1>0 DEF d, check_and_expire, Past, Sound, Contains
    <2>2. (IF Contains(dbs[i], k) THEN check_and_expire(dbs[i], k, now) ELSE dbs[i]) = d
      BY <2>1 DEF d
    <2>3. \E r : Done("PTTL", i, {k}, NoDeadline, d, r)
      BY <1>2, <2>2 DEF cmd_pttl
    <2>4. QED  BY <2>3, <1>0, <1>c
  <1>3. CASE cmd_persist(i, k)
    <2>1. Touches(dbs[i], remove_expire(d, k), k, now, NoDeadline)
      BY <1>0, RemoveExpireTouches
    <2>2. QED  BY <1>3, <2>1, <1>0, <1>c DEF cmd_persist, d
  <1>4. ASSUME NEW to \in Keys, cmd_rename(i, k, to)
        PROVE  IInv' /\ FreshStep
    <2>1. dbs[i].expire[k] \in Deadlines \cup {NoDeadline} /\ {k, to} \in SUBSET Keys
      BY <1>0 DEF Sound, Tables
    <2>2. Sound(rename(dbs[i], k, to))
          /\ Fresh(dbs[i], rename(dbs[i], k, to), now, dbs[i].expire[k])
      BY <1>0, RenameSound, RenameFresh
    <2>3. QED  BY <1>4, <2>1, <2>2, DoneOK DEF cmd_rename
  <1>5. ASSUME NEW to \in Keys, cmd_renamenx(i, k, to)
        PROVE  IInv' /\ FreshStep
    <2> DEFINE d2 == check_and_expire(d, to, now)
    <2>1. d.expire[k] \in Deadlines \cup {NoDeadline} /\ {k, to} \in SUBSET Keys
      BY <1>a DEF Sound, Tables
    <2>2. Sound(d2) /\ Sound(rename(d2, k, to))
      BY <1>a, CheckSound, RenameSound
    <2>3. \A given : Fresh(dbs[i], d, now, given) /\ Fresh(dbs[i], d2, now, given)
      <3>1. ASSUME NEW e, NEW x \in Keys, NEW y \in Keys, Live(check_and_expire(e, x, now), y, now)
            PROVE  Live(e, y, now)
        BY <3>1 DEF check_and_expire, Remove, Live, Past, Contains
      <3>2. \A y \in Keys : Live(d2, y, now) => Live(d, y, now)
        BY <3>1
      <3>3. \A y \in Keys : Live(d, y, now) => Live(dbs[i], y, now)
        BY <3>1 DEF d
      <3>4. QED  BY <3>2, <3>3 DEF Fresh
    <2>4. CASE Contains(d, k) /\ ~Contains(d2, to)
      <3>1. Live(dbs[i], k, now) /\ d = dbs[i]
        BY <1>0, <2>4 DEF d, check_and_expire, Live
      <3>2. d2.expire[k] \in {d.expire[k], NoDeadline}
        BY <1>a DEF check_and_expire, Remove
      <3>3. Fresh(d2, rename(d2, k, to), now, d2.expire[k])
        BY <2>2, RenameFresh
      <3>4. \A j \in Keys : Live(d2, j, now) => Live(dbs[i], j, now)
        BY <3>1 DEF check_and_expire, Remove, Live, Past, Contains
      <3>5. \A j \in Keys : Live(dbs[i], j, now) => Live(d2, j, now)
        BY <3>1, <1>a DEF check_and_expire, Remove, Live, Past, Contains
      <3>6. Fresh(dbs[i], rename(d2, k, to), now, d.expire[k])
        BY <3>2, <3>3, <3>4, <3>5 DEF Fresh
      <3>7. Done("RENAMENX", i, {k, to}, d.expire[k], rename(d2, k, to), IntReply(1))
        BY <1>5, <2>4 DEF cmd_renamenx, d
      <3>8. QED  BY <2>1, <2>2, <3>6, <3>7, DoneOK
    <2>5. CASE ~(Contains(d, k) /\ ~Contains(d2, to))
      <3>1. \/ \E r : Done("RENAMENX", i, {k, to}, NoDeadline, d, r)
            \/ \E r : Done("RENAMENX", i, {k, to}, NoDeadline, d2, r)
        BY <1>5, <2>5 DEF cmd_renamenx, d
      <3>2. QED  BY <1>a, <2>1, <2>2, <2>3, <3>1, DoneOK
    <2>6. QED  BY <2>4, <2>5
  <1>6. ASSUME NEW deadline \in Deadlines, NEW cmd, Contains(d, k),
               Done(cmd, i, {k}, deadline, add_expire(d, k, deadline), IntReply(1))
        PROVE  IInv' /\ FreshStep
    <2>1. Touches(dbs[i], add_expire(d, k, deadline), k, now, deadline)
      BY <1>0, <1>6, AddExpireTouches
    <2>2. QED  BY <1>6, <2>1, LookupOK
  <1>7. ASSUME NEW n \in Ttls, NEW unit \in Units, set_expire_relative(i, k, n, unit)
        PROVE  IInv' /\ FreshStep
    <2>1. RelativeDeadline(now, n, unit) \in Deadlines
      BY <1>0, TtlTypes
    <2>2. QED  BY <1>7, <1>0, <1>b, <1>c, <1>6, <2>1 DEF set_expire_relative, d
  <1>8. ASSUME NEW n \in Ttls, NEW unit \in Units, set_expire_absolute(i, k, n, unit)
        PROVE  IInv' /\ FreshStep
    <2>1. AbsoluteDeadline(n, unit) \in Deadlines
      BY <1>0, TtlTypes
    <2>2. QED  BY <1>8, <1>0, <1>b, <1>c, <1>6, <2>1 DEF set_expire_absolute, d
  <1>9. QED
    BY <1>1, <1>2, <1>3, <1>4, <1>5, <1>7, <1>8 DEF GenericCommand

-----------------------------------------------------------------------------
(* The commands on several keys or on whole databases. *)
LEMMA ManyKeyCommandOK ==
  ASSUME IInv, NEW i \in Dbs, ManyKeyCommand(i)
  PROVE  IInv' /\ FreshStep
  <1>0. Sound(dbs[i]) /\ Keys \in SUBSET Keys /\ {} \in SUBSET Keys
    BY DEF IInv
  <1>a. \A K, given : Sound(Remove(dbs[i], K)) /\ Fresh(dbs[i], Remove(dbs[i], K), now, given)
    BY <1>0, RemoveSound
  <1>b. \A K, given : Sound(CheckAll(dbs[i], K, now))
                   /\ Fresh(dbs[i], CheckAll(dbs[i], K, now), now, given)
    BY <1>a DEF CheckAll
  <1>c. Sound(dbs[i]) /\ Fresh(dbs[i], dbs[i], now, NoDeadline)
    BY <1>0 DEF Fresh
  <1>d. Sound(EmptyTable) /\ \A j \in Dbs : \A t : Fresh(dbs[j], EmptyTable, t, NoDeadline)
    BY EmptySound DEF Fresh, EmptyTable
  <1>1. ASSUME NEW K \in KeySets,
               cmd_mget(i, K) \/ cmd_del(i, K) \/ cmd_exists(i, K) \/ cmd_keys(i, K)
        PROVE  IInv' /\ FreshStep
    <2>1. K \in SUBSET Keys
      BY DEF KeySets
    <2>2. \E cmd, d, r : /\ Done(cmd, i, K, NoDeadline, d, r)
                        /\ Sound(d) /\ Fresh(dbs[i], d, now, NoDeadline)
      <3>1. CASE cmd_mget(i, K)
        BY <3>1, <1>b DEF cmd_mget
      <3>2. CASE cmd_del(i, K)
        BY <3>2, <1>a DEF cmd_del
      <3>3. CASE cmd_exists(i, K)
        BY <3>3, <1>b, SMTT(30) DEF cmd_exists
      <3>4. CASE cmd_keys(i, K)
        BY <3>4, <1>b, SMTT(30) DEF cmd_keys
      <3>5. QED  BY <1>1, <3>1, <3>2, <3>3, <3>4
    <2>3. QED  BY <2>1, <2>2, DoneOK
  <1>2. ASSUME NEW pairs \in Pairs, cmd_mset(i, pairs)
        PROVE  IInv' /\ FreshStep
    <2> DEFINE e == RemoveExpires(AddPairs(dbs[i], pairs), DOMAIN pairs)
    <2>1. DOMAIN pairs \in SUBSET Keys
      BY DEF Pairs
    <2>2. Sound(e)
      BY <1>0, AddPairsSound
    <2>3. Fresh(dbs[i], e, now, NoDeadline)
      BY <1>0, <2>1 DEF Fresh, RemoveExpires, AddPairs, Live, Past, Contains
    <2>4. QED  BY <1>2, <2>1, <2>2, <2>3, DoneOK DEF cmd_mset
  <1>3. ASSUME NEW pairs \in Pairs, NEW asked \in KeySets, cmd_msetnx(i, pairs, asked)
        PROVE  IInv' /\ FreshStep
    <2> DEFINE c == CheckAll(dbs[i], asked, now)
               e == AddPairs(c, pairs)
    <2>1. DOMAIN pairs \in SUBSET Keys
      BY DEF Pairs
    <2>2. CASE asked = DOMAIN pairs /\ \A k \in asked : ~Contains(c, k)
      <3>1. Sound(c) /\ Sound(e)
        BY <1>b, AddPairsSound
      <3>2. \A k \in DOMAIN pairs : e.expire[k] = NoDeadline
        BY <2>1, <2>2, <3>1 DEF AddPairs, Sound, Contains
      <3>3. \A k \in Keys \ DOMAIN pairs : e.prime[k] = c.prime[k] /\ e.expire[k] = c.expire[k]
        BY DEF AddPairs
      <3>4. Fresh(dbs[i], c, now, NoDeadline)
        BY <1>b
      <3>5. Fresh(dbs[i], e, now, NoDeadline)
        BY <3>2, <3>3, <3>4 DEF Fresh, Live, Past, Contains
      <3>6. \/ \E r : Done("MSETNX", i, DOMAIN pairs, NoDeadline, c, r)
            \/ \E r : Done("MSETNX", i, DOMAIN pairs, NoDeadline, e, r)
        BY <1>3 DEF cmd_msetnx
      <3>7. QED  BY <2>1, <3>1, <3>4, <3>5, <3>6, DoneOK
    <2>3. CASE ~(asked = DOMAIN pairs /\ \A k \in asked : ~Contains(c, k))
      <3>1. Done("MSETNX", i, DOMAIN pairs, NoDeadline, c, IntReply(0))
        BY <1>3, <2>3 DEF cmd_msetnx
      <3>2. QED  BY <2>1, <1>b, <3>1, DoneOK
    <2>4. QED  BY <2>2, <2>3
  <1>4. CASE cmd_dbsize(i) \/ cmd_randomkey(i) \/ Reject(i)
    BY <1>4, <1>0, <1>c, DoneOK DEF cmd_dbsize, cmd_randomkey, Reject
  <1>5. CASE cmd_flushdb(i)
    BY <1>5, <1>0, <1>d, DoneOK DEF cmd_flushdb
  <1>6. CASE cmd_flushall(i)
    <2>1. dbs' = [j \in Dbs |-> EmptyTable] /\ now' = now
          /\ last'.keys = Keys /\ last'.given = NoDeadline
      BY <1>6 DEF cmd_flushall
    <2>2. dbs' \in [Dbs -> Tables]
      BY <2>1, <1>d DEF Sound
    <2>3. TypeOK'
      BY <2>1, <2>2 DEF IInv, TypeOK
    <2>4. \A j \in Dbs : Sound(dbs'[j]) /\ Fresh(dbs[j], dbs'[j], now, NoDeadline)
      BY <2>1, <1>d
    <2>5. QED  BY <2>1, <2>3, <2>4 DEF IInv, FreshStep, Fresh
  <1>7. CASE cmd_scan(i)
    <2>1. \E r : Done("SCAN", i, {}, NoDeadline, dbs[i], r)
      BY <1>7 DEF cmd_scan
    <2>2. QED  BY <2>1, <1>0, <1>c, DoneOK
  <1>8. QED
    BY <1>1, <1>2, <1>3, <1>4, <1>5, <1>6, <1>7 DEF ManyKeyCommand

-----------------------------------------------------------------------------
(* Every step keeps the invariant and revives no deadline. *)
LEMMA NextOK == ASSUME IInv, Next PROVE IInv' /\ FreshStep
  BY ClockOK, StringCommandOK, GenericCommandOK, ManyKeyCommandOK DEF Next

(* So does a stuttering step. *)
LEMMA StutterOK == ASSUME IInv, UNCHANGED vars PROVE IInv' /\ FreshStep
  BY DEF IInv, TypeOK, vars, FreshStep

(* IInv holds in every reachable state: it is inductive as it stands. *)
THEOREM Invariance == Spec => []IInv
  <1>1. Init => IInv
    BY InitInv
  <1>2. IInv /\ [Next]_vars => IInv'
    BY NextOK, StutterOK
  <1>3. QED  BY <1>1, <1>2, PTL DEF Spec

(* Commands, sweeps and the clock keep the tables of all databases well    *)
(* typed; every deadline they compute is a u64.                            *)
THEOREM TypeCorrect == Spec => []TypeOK
  <1>1. IInv => TypeOK
    BY DEF IInv
  <1>2. QED  BY <1>1, Invariance, PTL

(* No command leaves a deadline without a value in the tables, so that no  *)
(* later value can inherit it: DbSlice!NoOrphanDeadline.                   *)
THEOREM NoOrphans == Spec => []NoOrphanDeadline
  <1>1. IInv => NoOrphanDeadline
    BY DEF IInv, NoOrphanDeadline, Sound, HasDeadline, Present, Contains
  <1>2. QED  BY <1>1, Invariance, PTL

(* No command brings a key to life with a deadline other than the one the  *)
(* command gave it: DbSlice!FreshKeyDeadline.                              *)
THEOREM NoRevivedDeadline == Spec => FreshKeyDeadline
  <1>1. IInv /\ [Next]_vars => [FreshStep]_vars
    BY NextOK
  <1>2. Spec => [][FreshStep]_vars
    BY <1>1, Invariance, PTL DEF Spec
  <1>3. QED  BY <1>2 DEF FreshKeyDeadline, FreshStep

-----------------------------------------------------------------------------
(* The replies of EagerStore are those of DbSlice ... *)
LEMMA SameReplies ==
  /\ \A v : Eager!is_string(v) = is_string(v)
  /\ \A v : Eager!as_integer(v) = as_integer(v)
  /\ \A v : Eager!StringReply(v) = StringReply(v)
  /\ \A v : Eager!Bulk(v) = Bulk(v)
  /\ \A n : Eager!IntReply(n) = IntReply(n)
  /\ \A S : Eager!KeyList(S) = KeyList(S)
  /\ \A f : Eager!ValueList(f) = ValueList(f)
  /\ Eager!Ok = Ok
  /\ Eager!Err = Err
  /\ Eager!Nil = Nil
  /\ Eager!WrongType = WrongType
  <1>1. \A v : Eager!is_string(v) = is_string(v)
    BY DEF Eager!is_string, is_string, Eager!StringValues, StringValues, Eager!Integers64, Integers64, Eager!IntMin, IntMin
  <1>2. \A v : Eager!as_integer(v) = as_integer(v)
    BY DEF Eager!as_integer, as_integer
  <1>3. \A v : Eager!StringReply(v) = StringReply(v)
    BY DEF Eager!StringReply, StringReply, Eager!is_string, is_string, Eager!StringValues, StringValues, Eager!Integers64, Integers64, Eager!IntMin, IntMin, Eager!Nil, Nil, Eager!Bulk, Bulk, Eager!WrongType, WrongType
  <1>4. \A v : Eager!Bulk(v) = Bulk(v)
    BY DEF Eager!Bulk, Bulk
  <1>5. \A n : Eager!IntReply(n) = IntReply(n)
    BY DEF Eager!IntReply, IntReply
  <1>6. \A S : Eager!KeyList(S) = KeyList(S)
    BY DEF Eager!KeyList, KeyList
  <1>7. \A f : Eager!ValueList(f) = ValueList(f)
    BY DEF Eager!ValueList, ValueList
  <1>8. Eager!Ok = Ok
    BY DEF Eager!Ok, Ok
  <1>9. Eager!Err = Err
    BY DEF Eager!Err, Err
  <1>10. Eager!Nil = Nil
    BY DEF Eager!Nil, Nil
  <1>11. Eager!WrongType = WrongType
    BY DEF Eager!WrongType, WrongType
  <1>12. QED
    BY <1>1, <1>2, <1>3, <1>4, <1>5, <1>6, <1>7, <1>8, <1>9, <1>10, <1>11

(* ... its operations on tables are those of DbTable ... *)
LEMMA SameTables ==
  /\ \A d, K : Eager!Remove(d, K) = Remove(d, K)
  /\ \A d, k : Eager!Contains(d, k) = Contains(d, k)
  /\ \A d : Eager!Present(d) = Present(d)
  /\ \A d, k : Eager!del(d, k) = del(d, k)
  /\ \A d, from, to : Eager!rename(d, from, to) = rename(d, from, to)
  /\ Eager!EmptyTable = EmptyTable
  <1>1. \A d, K : Eager!Remove(d, K) = Remove(d, K)
    BY DEF Eager!Remove, Remove
  <1>2. \A d, k : Eager!Contains(d, k) = Contains(d, k)
    BY DEF Eager!Contains, Contains
  <1>3. \A d : Eager!Present(d) = Present(d)
    BY DEF Eager!Present, Present, Eager!Contains, Contains
  <1>4. \A d, k : Eager!del(d, k) = del(d, k)
    BY DEF Eager!del, del, Eager!Remove, Remove
  <1>5. \A d, from, to : Eager!rename(d, from, to) = rename(d, from, to)
    BY DEF Eager!rename, rename, Eager!remove_expire, remove_expire, Eager!Remove, Remove, Eager!Contains, Contains
  <1>6. Eager!EmptyTable = EmptyTable
    BY DEF Eager!EmptyTable, EmptyTable
  <1>7. QED
    BY <1>1, <1>2, <1>3, <1>4, <1>5, <1>6

(* ... and so are its deadlines and integers ... *)
LEMMA SameNumbers ==
  /\ \A t, n, unit : Eager!RelativeDeadline(t, n, unit) = RelativeDeadline(t, n, unit)
  /\ \A n, unit : Eager!AbsoluteDeadline(n, unit) = AbsoluteDeadline(n, unit)
  /\ \A e : Eager!Deadline(e) = Deadline(e)
  /\ Eager!Integers64 = Integers64
  /\ Eager!StringValues = StringValues
  /\ Eager!Units = Units
  <1>1. \A t, n, unit : Eager!RelativeDeadline(t, n, unit) = RelativeDeadline(t, n, unit)
    BY DEF Eager!RelativeDeadline, RelativeDeadline, Eager!Wrap, Wrap
  <1>2. \A n, unit : Eager!AbsoluteDeadline(n, unit) = AbsoluteDeadline(n, unit)
    BY DEF Eager!AbsoluteDeadline, AbsoluteDeadline, Eager!Wrap, Wrap
  <1>3. \A e : Eager!Deadline(e) = Deadline(e)
    BY DEF Eager!Deadline, Deadline, Eager!RelativeDeadline, RelativeDeadline, Eager!AbsoluteDeadline, AbsoluteDeadline, Eager!Wrap, Wrap
  <1>4. Eager!Integers64 = Integers64
    BY DEF Eager!Integers64, Integers64, Eager!IntMin, IntMin
  <1>5. Eager!StringValues = StringValues
    BY DEF Eager!StringValues, StringValues, Eager!Integers64, Integers64, Eager!IntMin, IntMin
  <1>6. Eager!Units = Units
    BY DEF Eager!Units, Units
  <1>7. QED
    BY <1>1, <1>2, <1>3, <1>4, <1>5, <1>6

(* ... and its counts. *)
LEMMA SameCardinality == \A S : Eager!Cardinality(S) = Cardinality(S)
  BY DEF Eager!Cardinality, Cardinality

(* The steps of EagerStore that leave the store alone, in the terms of     *)
(* DbSlice: lookups ...                                                    *)
LEMMA LookedUp ==
  ASSUME NEW i \in Dbs, NEW k \in Keys, NEW cmd, NEW r, Eager!Saw(cmd, i, {k}, r),
         \/ cmd = "GET" /\ r = StringReply(visible[i].prime[k])
         \/ cmd = "STRLEN" /\ r = IF visible[i].prime[k] = Absent THEN IntReply(0)
                                  ELSE StringReply(visible[i].prime[k])
         \/ cmd = "TYPE" /\ r = Bulk(visible[i].prime[k])
         \/ cmd = "PTTL" /\ r = IntReply(IF visible[i].prime[k] = Absent THEN -2
                                         ELSE IF visible[i].expire[k] = NoDeadline THEN -1
                                         ELSE visible[i].expire[k] - now)
  PROVE  Eager!Next
  <1>1. Eager!Lookup(i, k)
    BY SameReplies DEF Eager!Lookup
  <1>2. QED  BY <1>1 DEF Eager!Next

(* ... and commands that fail or find nothing to do. *)
LEMMA Refused ==
  ASSUME NEW i \in Dbs, NEW k \in Keys, NEW cmd, NEW r, Eager!Saw(cmd, i, {k}, r),
         \/ cmd \in {"SET", "SETEX", "GETEX", "INCRBY", "DECRBY", "INCRBYFLOAT"} /\ r = Err
         \/ /\ visible[i].prime[k] = List
            /\ cmd \in {"SET", "GETSET", "GETDEL", "GETEX", "APPEND"} /\ r = WrongType
         \/ is_string(visible[i].prime[k]) /\ cmd \in {"LPUSH", "LPOP"} /\ r = WrongType
         \/ visible[i].prime[k] = Absent /\ cmd \in {"GETDEL", "GETEX", "LPOP"} /\ r = Nil
         \/ visible[i].prime[k] = Absent /\ cmd \in {"EXPIRE", "EXPIREAT"} /\ r = IntReply(0)
         \/ visible[i].prime[k] # Absent /\ cmd = "SETNX" /\ r = IntReply(0)
         \/ visible[i].expire[k] = NoDeadline /\ cmd = "PERSIST" /\ r = IntReply(0)
  PROVE  Eager!Next
  <1>1. Eager!Refuse(i, k)
    BY SameReplies DEF Eager!Refuse
  <1>2. QED  BY <1>1 DEF Eager!Next

(* The steps that write a value ... *)
LEMMA Wrote ==
  ASSUME NEW i \in Dbs, NEW k \in Keys, NEW v \in StringValues, NEW cmd, NEW given, NEW e, NEW r,
         Eager!Did(cmd, i, {k}, given, e, r),
         \/ /\ cmd = "SETNX" /\ visible[i].prime[k] = Absent /\ given = NoDeadline
            /\ e = Eager!Put(visible[i], k, v, NoDeadline) /\ r = IntReply(1)
         \/ /\ cmd = "GETSET" /\ visible[i].prime[k] # List /\ given = NoDeadline
            /\ e = Eager!Put(visible[i], k, v, NoDeadline) /\ r = StringReply(visible[i].prime[k])
         \/ /\ cmd \in {"APPEND", "INCRBYFLOAT"} /\ visible[i].prime[k] # List /\ given = NoDeadline
            /\ e = Eager!Update(visible[i], k, v) /\ r = Bulk(v)
  PROVE  Eager!Next
  <1> SUFFICES Eager!Write(i, k, v)
    BY SameNumbers DEF Eager!Next
  <1>1. CASE /\ cmd = "SETNX" /\ visible[i].prime[k] = Absent /\ given = NoDeadline
             /\ e = Eager!Put(visible[i], k, v, NoDeadline) /\ r = IntReply(1)
    BY <1>1, SameReplies DEF Eager!Write
  <1>2. CASE /\ cmd = "GETSET" /\ visible[i].prime[k] # List /\ given = NoDeadline
             /\ e = Eager!Put(visible[i], k, v, NoDeadline) /\ r = StringReply(visible[i].prime[k])
    BY <1>2, SameReplies DEF Eager!Write
  <1>3. CASE /\ cmd \in {"APPEND", "INCRBYFLOAT"} /\ visible[i].prime[k] # List /\ given = NoDeadline
             /\ e = Eager!Update(visible[i], k, v) /\ r = Bulk(v)
    BY <1>3, SameReplies DEF Eager!Write
  <1>4. QED  BY <1>1, <1>2, <1>3

LEMMA WroteWithDeadline ==
  ASSUME NEW i \in Dbs, NEW k \in Keys, NEW v \in StringValues, NEW n \in Ttls, NEW unit \in Units,
         NEW given, n > 0, given = RelativeDeadline(now, n, unit),
         Eager!Did("SETEX", i, {k}, given, Eager!Put(visible[i], k, v, given), Ok)
  PROVE  Eager!Next
  <1>1. unit \in Eager!Units /\ given = Eager!RelativeDeadline(now, n, unit) /\ v \in Eager!StringValues
    BY SameNumbers
  <1>2. Eager!Did("SETEX", i, {k}, given, Eager!Put(visible[i], k, v, given), Eager!Ok)
    BY SameReplies
  <1>3. Eager!Write(i, k, v)
    BY <1>1, <1>2 DEF Eager!Write
  <1>4. QED  BY <1>1, <1>3 DEF Eager!Next

LEMMA WasSet ==
  ASSUME NEW i \in Dbs, NEW k \in Keys, NEW v \in StringValues, NEW flags \in SetFlags,
         NEW e \in Eager!Expiries \cup {Eager!NoExpiry}, Eager!Set(i, k, v, flags, e)
  PROVE  Eager!Next
  BY SameNumbers DEF Eager!Next

LEMMA Counted ==
  ASSUME NEW i \in Dbs, NEW k \in Keys, NEW new \in Integers64, NEW cmd \in {"INCRBY", "DECRBY"},
         as_integer(visible[i].prime[k]) \in Integers64 \cup {Absent},
         Eager!Did(cmd, i, {k}, NoDeadline, Eager!Update(visible[i], k, new), IntReply(new))
  PROVE  Eager!Next
  <1>1. Eager!Count(i, k, new)
    BY SameReplies, SameNumbers DEF Eager!Count
  <1>2. QED  BY <1>1, SameNumbers DEF Eager!Next

LEMMA Collected ==
  ASSUME NEW i \in Dbs, NEW k \in Keys, NEW cmd, NEW e, Eager!Did(cmd, i, {k}, NoDeadline, e, Bulk(List)),
         \/ /\ cmd = "LPUSH" /\ visible[i].prime[k] \in {Absent, List}
            /\ e = Eager!Update(visible[i], k, List)
         \/ /\ cmd = "LPOP" /\ visible[i].prime[k] = List
            /\ e \in {visible[i], Eager!del(visible[i], k)}
  PROVE  Eager!Next
  <1>1. Eager!Collection(i, k)
    BY SameReplies DEF Eager!Collection
  <1>2. QED  BY <1>1 DEF Eager!Next

(* ... give it a deadline ... *)
LEMMA DeadlineMoved ==
  ASSUME NEW i \in Dbs, NEW k \in Keys, NEW n \in Ttls, NEW unit \in Units, NEW cmd, NEW given,
         visible[i].prime[k] # Absent,
         Eager!Did(cmd, i, {k}, given, Eager!Put(visible[i], k, visible[i].prime[k], given), IntReply(1)),
         \/ cmd = "EXPIRE" /\ n > 0 /\ given = RelativeDeadline(now, n, unit)
         \/ cmd = "EXPIREAT" /\ given = AbsoluteDeadline(n, unit)
  PROVE  Eager!Touch(i, k)
  <1>1. unit \in Eager!Units
    BY SameNumbers
  <1>2. Eager!Did(cmd, i, {k}, given, Eager!Put(visible[i], k, visible[i].prime[k], given), Eager!IntReply(1))
    BY SameReplies
  <1>3. CASE cmd = "EXPIRE" /\ n > 0 /\ given = Eager!RelativeDeadline(now, n, unit)
    BY <1>1, <1>2, <1>3 DEF Eager!Touch
  <1>4. CASE cmd = "EXPIREAT" /\ given = Eager!AbsoluteDeadline(n, unit)
    BY <1>1, <1>2, <1>4 DEF Eager!Touch
  <1>5. QED  BY <1>3, <1>4, SameNumbers

(* ... take it or move its deadline ... *)
LEMMA Touched ==
  ASSUME NEW i \in Dbs, NEW k \in Keys, NEW cmd, NEW given, NEW e, NEW r,
         Eager!Did(cmd, i, {k}, given, e, r),
         \/ /\ cmd = "GETDEL" /\ is_string(visible[i].prime[k]) /\ given = NoDeadline
            /\ e = Eager!del(visible[i], k) /\ r = Bulk(visible[i].prime[k])
         \/ /\ cmd = "GETEX" /\ is_string(visible[i].prime[k]) /\ r = Bulk(visible[i].prime[k])
            /\ \/ e = visible[i] /\ given = NoDeadline
               \/ /\ e = Eager!Put(visible[i], k, visible[i].prime[k], given)
                  /\ given = NoDeadline \/ \E o \in Eager!Expiries : given = Deadline(o)
         \/ /\ cmd = "PERSIST" /\ visible[i].expire[k] # NoDeadline /\ given = NoDeadline
            /\ e = Eager!Put(visible[i], k, visible[i].prime[k], NoDeadline) /\ r = IntReply(1)
         \/ /\ cmd \in {"EXPIRE", "EXPIREAT"} /\ visible[i].prime[k] # Absent /\ given = NoDeadline
            /\ e = Eager!del(visible[i], k) /\ r = IntReply(1)
         \/ /\ visible[i].prime[k] # Absent
            /\ e = Eager!Put(visible[i], k, visible[i].prime[k], given) /\ r = IntReply(1)
            /\ \E n \in Ttls, unit \in Units :
                 \/ cmd = "EXPIRE" /\ n > 0 /\ given = RelativeDeadline(now, n, unit)
                 \/ cmd = "EXPIREAT" /\ given = AbsoluteDeadline(n, unit)
  PROVE  Eager!Next
  <1> SUFFICES Eager!Touch(i, k)
    BY DEF Eager!Next
  <1> DEFINE v == visible[i].prime[k]
  <1>1. CASE cmd = "GETDEL" /\ is_string(v) /\ given = NoDeadline /\ e = Eager!del(visible[i], k) /\ r = Bulk(v)
    BY <1>1, SameReplies DEF Eager!Touch
  <1>2. CASE cmd = "GETEX" /\ is_string(v) /\ r = Bulk(v) /\ e = visible[i] /\ given = NoDeadline
    BY <1>2, SameReplies DEF Eager!Touch, Eager!Saw
  <1>3. CASE /\ cmd = "GETEX" /\ is_string(v) /\ r = Bulk(v) /\ e = Eager!Put(visible[i], k, v, given)
             /\ given = NoDeadline \/ \E o \in Eager!Expiries : given = Deadline(o)
    <2>1. Eager!is_string(v) /\ Eager!Did("GETEX", i, {k}, given, Eager!Put(visible[i], k, v, given), Eager!Bulk(v))
      BY <1>3, SameReplies
    <2>2. CASE given = NoDeadline
      BY <2>1, <2>2 DEF Eager!Touch
    <2>3. ASSUME NEW o \in Eager!Expiries, given = Deadline(o) PROVE Eager!Touch(i, k)
      <3>1. given = Eager!Deadline(o)
        BY <2>3, SameNumbers
      <3>2. QED  BY <2>1, <3>1 DEF Eager!Touch
    <2>4. QED  BY <1>3, <2>2, <2>3
  <1>4. CASE /\ cmd = "PERSIST" /\ visible[i].expire[k] # NoDeadline /\ given = NoDeadline
             /\ e = Eager!Put(visible[i], k, v, NoDeadline) /\ r = IntReply(1)
    BY <1>4, SameReplies DEF Eager!Touch
  <1>5. CASE /\ cmd \in {"EXPIRE", "EXPIREAT"} /\ v # Absent /\ given = NoDeadline
             /\ e = Eager!del(visible[i], k) /\ r = IntReply(1)
    BY <1>5, SameReplies DEF Eager!Touch
  <1>6. CASE /\ v # Absent /\ e = Eager!Put(visible[i], k, v, given) /\ r = IntReply(1)
             /\ \E n \in Ttls, unit \in Units :
                  \/ cmd = "EXPIRE" /\ n > 0 /\ given = RelativeDeadline(now, n, unit)
                  \/ cmd = "EXPIREAT" /\ given = AbsoluteDeadline(n, unit)
    BY <1>6, DeadlineMoved
  <1>7. QED  BY <1>1, <1>2, <1>3, <1>4, <1>5, <1>6

(* ... or rename a key ... *)
LEMMA Moved ==
  ASSUME NEW i \in Dbs, NEW k \in Keys, NEW to \in Keys, NEW cmd, NEW given, NEW e, NEW r,
         Eager!Did(cmd, i, {k, to}, given, e, r),
         \/ /\ cmd = "RENAME" /\ Contains(visible[i], k) /\ given = visible[i].expire[k]
            /\ e = rename(visible[i], k, to) /\ r = Ok
         \/ /\ cmd = "RENAME" /\ ~Contains(visible[i], k) /\ given \in 0 .. now
            /\ e = del(visible[i], to) /\ r = Ok
         \/ /\ cmd \in {"RENAME", "RENAMENX"} /\ ~Contains(visible[i], k) /\ given = NoDeadline
            /\ e = visible[i] /\ r = Err
         \/ /\ cmd = "RENAMENX" /\ Contains(visible[i], k) /\ Contains(visible[i], to)
            /\ given = NoDeadline /\ e = visible[i] /\ r = IntReply(0)
         \/ /\ cmd = "RENAMENX" /\ Contains(visible[i], k) /\ ~Contains(visible[i], to)
            /\ given = visible[i].expire[k] /\ e = rename(visible[i], k, to) /\ r = IntReply(1)
  PROVE  Eager!Next
  <1> SUFFICES Eager!Move(i, k, to) \/ Eager!StaleRename(i, k, to)
    BY DEF Eager!Next
  <1>1. CASE /\ cmd = "RENAME" /\ Contains(visible[i], k) /\ given = visible[i].expire[k]
             /\ e = rename(visible[i], k, to) /\ r = Ok
    BY <1>1, SameReplies, SameTables DEF Eager!Move
  <1>2. CASE /\ cmd = "RENAME" /\ ~Contains(visible[i], k) /\ given \in 0 .. now
             /\ e = del(visible[i], to) /\ r = Ok
    BY <1>2, SameReplies, SameTables DEF Eager!StaleRename
  <1>3. CASE /\ cmd \in {"RENAME", "RENAMENX"} /\ ~Contains(visible[i], k) /\ given = NoDeadline
             /\ e = visible[i] /\ r = Err
    BY <1>3, SameReplies, SameTables DEF Eager!Move, Eager!Saw
  <1>4. CASE /\ cmd = "RENAMENX" /\ Contains(visible[i], k) /\ Contains(visible[i], to)
             /\ given = NoDeadline /\ e = visible[i] /\ r = IntReply(0)
    BY <1>4, SameReplies, SameTables DEF Eager!Move, Eager!Saw
  <1>5. CASE /\ cmd = "RENAMENX" /\ Contains(visible[i], k) /\ ~Contains(visible[i], to)
             /\ given = visible[i].expire[k] /\ e = rename(visible[i], k, to) /\ r = IntReply(1)
    BY <1>5, SameReplies, SameTables DEF Eager!Move
  <1>6. QED  BY <1>1, <1>2, <1>3, <1>4, <1>5

(* ... and those on many keys. *)
LEMMA ManyStep ==
  ASSUME NEW i \in Dbs, NEW K \in KeySets, Eager!LookupMany(i, K) \/ Eager!StaleCount(i, K)
  PROVE  Eager!Next
  BY DEF Eager!Next, KeySets

LEMMA WriteManyStep ==
  ASSUME NEW i \in Dbs, NEW pairs \in Pairs, Eager!WriteMany(i, pairs)
  PROVE  Eager!Next
  BY SameNumbers DEF Eager!Next, Pairs

LEMMA DbStep ==
  ASSUME NEW i \in Dbs,
         \/ Eager!StaleSize(i) \/ Eager!StaleKey(i) \/ Eager!StaleScan(i)
         \/ Eager!Flush(i) \/ Eager!Saw("reject", i, {}, Err)
  PROVE  Eager!Next
  BY SameReplies DEF Eager!Next

-----------------------------------------------------------------------------
(* At time t, databases d and e show a client the same: each key is in     *)
(* both with the same value and deadline, or gone from both.               *)
Gone(d, k, t) == Past(d, k, t) \/ (d.prime[k] = Absent /\ d.expire[k] = NoDeadline)

Alike(d, e, t) ==
  \A k \in Keys :
    \/ d.prime[k] = e.prime[k] /\ d.expire[k] = e.expire[k]
    \/ Gone(d, k, t) /\ Gone(e, k, t)

(* Databases that are alike have the same visible contents. *)
LEMMA AlikeVisible ==
  ASSUME NEW d, NEW e, NEW t, Alike(d, e, t)
  PROVE  Visible(d, t) = Visible(e, t)
  <1>1. \A k \in Keys : /\ Past(d, k, t) /\ ~Past(e, k, t) =>
                             e.prime[k] = Absent /\ e.expire[k] = NoDeadline
                        /\ Past(e, k, t) /\ ~Past(d, k, t) =>
                             d.prime[k] = Absent /\ d.expire[k] = NoDeadline
                        /\ ~Past(d, k, t) /\ ~Past(e, k, t) =>
                             d.prime[k] = e.prime[k] /\ d.expire[k] = e.expire[k]
    BY DEF Alike, Gone, Past
  <1>2. [k \in Keys |-> IF k \in {j \in Keys : Past(d, j, t)} THEN Absent ELSE d.prime[k]]
          = [k \in Keys |-> IF k \in {j \in Keys : Past(e, j, t)} THEN Absent ELSE e.prime[k]]
    BY <1>1
  <1>3. [k \in Keys |-> IF k \in {j \in Keys : Past(d, j, t)} THEN NoDeadline ELSE d.expire[k]]
          = [k \in Keys |-> IF k \in {j \in Keys : Past(e, j, t)} THEN NoDeadline ELSE e.expire[k]]
    BY <1>1
  <1>4. QED  BY <1>2, <1>3 DEF Visible, Remove

(* Key by key, what is visible of a database. *)
LEMMA VisibleAt ==
  ASSUME NEW d, Sound(d), NEW t \in Int
  PROVE  /\ Sound(Visible(d, t))
         /\ \A k \in Keys : /\ Visible(d, t).prime[k] = IF Past(d, k, t) THEN Absent ELSE d.prime[k]
                            /\ Visible(d, t).expire[k] = IF Past(d, k, t) THEN NoDeadline ELSE d.expire[k]
                            /\ ~Past(Visible(d, t), k, t)
         /\ Alike(d, Visible(d, t), t)
  <1>1. Sound(Visible(d, t))
    BY RemoveSound DEF Visible
  <1>2. \A k \in Keys : /\ Visible(d, t).prime[k] = IF Past(d, k, t) THEN Absent ELSE d.prime[k]
                        /\ Visible(d, t).expire[k] = IF Past(d, k, t) THEN NoDeadline ELSE d.expire[k]
    BY DEF Visible, Remove
  <1>3. \A k \in Keys : ~Past(Visible(d, t), k, t)
    BY <1>2 DEF Past
  <1>4. QED  BY <1>1, <1>2, <1>3 DEF Alike, Gone

(* The contents EagerStore leaves behind are what is visible of them. *)
LEMMA EagerDrops ==
  ASSUME NEW e, e \in Tables, NEW t \in Int
  PROVE  Eager!Remove(e, Eager!Due(e, t)) = Visible(e, t)
  <1>1. Eager!Due(e, t) = {k \in Keys : Past(e, k, t)}
    BY DEF Eager!Due, Past, Tables, Deadlines
  <1>2. QED  BY <1>1, SameTables DEF Visible

(* A command that leaves d behind is, to the client, the command of        *)
(* EagerStore that turns the visible contents into e, when d and e are     *)
(* alike.                                                                  *)
LEMMA Shown ==
  ASSUME IInv, NEW i \in Dbs, NEW cmd, NEW K, NEW given, NEW r, NEW d, NEW e,
         d \in Tables, e \in Tables, Alike(d, e, now), Done(cmd, i, K, given, d, r)
  PROVE  Eager!Did(cmd, i, K, given, e, r)
  <1>0. now \in Int /\ dbs \in [Dbs -> Tables]
    BY SMTT(30) DEF IInv, TypeOK, Deadlines
  <1>1. now' = now /\ dbs' = [dbs EXCEPT ![i] = d]
        /\ last' = [cmd |-> cmd, db |-> i, keys |-> K, given |-> given, reply |-> r]
    BY DEF Done
  <1>2. Eager!Remove(e, Eager!Due(e, now)) = Visible(d, now)
    BY <1>0, EagerDrops, AlikeVisible, SMTT(30)
  <1>3. visible' = [visible EXCEPT ![i] = Visible(d, now)]
    BY <1>0, <1>1 DEF visible
  <1>4. QED  BY <1>1, <1>2, <1>3 DEF Eager!Did

-----------------------------------------------------------------------------
(* x is d but for key k, which has value v and deadline g. *)
Sets(d, x, k, v, g) ==
  /\ x \in Tables
  /\ \A j \in Keys \ {k} : x.prime[j] = d.prime[j] /\ x.expire[j] = d.expire[j]
  /\ x.prime[k] = v /\ x.expire[k] = g

(* The writes to one key that the commands of DbSlice are made of ... *)
LEMMA SetsByWrites ==
  ASSUME NEW d, NEW x, NEW k \in Keys, NEW v, NEW g, Sets(d, x, k, v, g)
  PROVE  /\ \A w \in Values : Sets(d, add_or_update(x, k, w), k, w, g)
         /\ \A h \in Deadlines : v # Absent => Sets(d, add_expire(x, k, h), k, v, h)
         /\ Sets(d, remove_expire(x, k), k, v, NoDeadline)
         /\ Sets(d, del(x, k), k, Absent, NoDeadline)
  <1>1. \A w \in Values : Sets(d, add_or_update(x, k, w), k, w, g)
    BY DEF Sets, add_or_update, Tables
  <1>2. \A h \in Deadlines : v # Absent => Sets(d, add_expire(x, k, h), k, v, h)
    BY SMTT(30) DEF Sets, add_expire, Contains, Tables
  <1>3. Sets(d, remove_expire(x, k), k, v, NoDeadline)
    BY DEF Sets, remove_expire, Tables
  <1>4. Sets(d, del(x, k), k, Absent, NoDeadline)
    BY DEF Sets, del, Remove, Tables
  <1>5. QED  BY <1>1, <1>2, <1>3, <1>4

(* ... and those of EagerStore. *)
LEMMA SetsByEager ==
  ASSUME NEW a \in Tables, NEW k \in Keys
  PROVE  /\ Sets(a, a, k, a.prime[k], a.expire[k])
         /\ \A w \in Values : Sets(a, Eager!Update(a, k, w), k, w, a.expire[k])
         /\ \A w \in Values, h \in Deadlines \cup {NoDeadline} : Sets(a, Eager!Put(a, k, w, h), k, w, h)
         /\ Sets(a, Eager!del(a, k), k, Absent, NoDeadline)
  <1>1. Sets(a, a, k, a.prime[k], a.expire[k])
    BY DEF Sets
  <1>2. \A w \in Values : Sets(a, Eager!Update(a, k, w), k, w, a.expire[k])
    BY DEF Sets, Eager!Update, Tables
  <1>3. \A w \in Values, h \in Deadlines \cup {NoDeadline} : Sets(a, Eager!Put(a, k, w, h), k, w, h)
    BY DEF Sets, Eager!Put, Tables
  <1>4. Sets(a, Eager!del(a, k), k, Absent, NoDeadline)
    BY SameTables DEF Sets, del, Remove, Tables
  <1>5. QED  BY <1>1, <1>2, <1>3, <1>4

(* Nothing visible has a deadline without a value. *)
LEMMA NowAndHere ==
  ASSUME IInv, NEW i \in Dbs
  PROVE  Sound(dbs[i]) /\ now \in Int /\ visible[i] = Visible(dbs[i], now)
  BY SMTT(30) DEF IInv, TypeOK, Deadlines, visible

LEMMA VisibleAlike ==
  ASSUME IInv, NEW i \in Dbs
  PROVE  /\ Sound(dbs[i]) /\ Sound(visible[i]) /\ now \in Int
         /\ Alike(dbs[i], visible[i], now)
         /\ \A k \in Keys : ~Past(visible[i], k, now)
  BY NowAndHere, VisibleAt, SMTT(30)

LEMMA VisibleSound == ASSUME IInv, NEW i \in Dbs PROVE Sound(visible[i])
  BY VisibleAlike

(* A lookup shows what is visible of the key. *)
LEMMA LookupShows ==
  ASSUME IInv, NEW i \in Dbs, NEW k \in Keys
  PROVE  /\ Sets(dbs[i], check_and_expire(dbs[i], k, now), k, visible[i].prime[k], visible[i].expire[k])
         /\ visible[i] \in Tables
  <1>0. Sound(dbs[i]) /\ now \in Int /\ visible[i] = Visible(dbs[i], now)
    BY NowAndHere
  <1>1. visible[i] \in Tables
    BY <1>0, VisibleAt, SMTT(30) DEF Sound
  <1>2. /\ visible[i].prime[k] = IF Past(dbs[i], k, now) THEN Absent ELSE dbs[i].prime[k]
        /\ visible[i].expire[k] = IF Past(dbs[i], k, now) THEN NoDeadline ELSE dbs[i].expire[k]
    BY <1>0, VisibleAt, SMTT(30)
  <1>3. Sound(check_and_expire(dbs[i], k, now))
    BY <1>0, CheckSound
  <1>4. QED  BY <1>1, <1>2, <1>3 DEF Sets, Sound, check_and_expire, Remove

(* A command that gives key k of the tables the value and deadline that    *)
(* EagerStore gives it is a step of EagerStore.                            *)
LEMMA ShownKey ==
  ASSUME IInv, NEW i \in Dbs, NEW k \in Keys, NEW cmd, NEW K, NEW given, NEW r,
         NEW x, NEW y, NEW v, NEW g,
         Sets(dbs[i], x, k, v, g), Sets(visible[i], y, k, v, g),
         Done(cmd, i, K, given, x, r)
  PROVE  Eager!Did(cmd, i, K, given, y, r)
  <1>0. Sound(dbs[i]) /\ now \in Int /\ visible[i] = Visible(dbs[i], now)
    BY NowAndHere
  <1>1. Alike(dbs[i], visible[i], now)
    BY <1>0, VisibleAt, SMTT(30)
  <1>2. Alike(x, y, now) /\ x \in Tables /\ y \in Tables
    BY <1>1, SMTT(30) DEF Sets, Alike, Gone, Past
  <1>3. QED  BY <1>2, Shown

(* So is one that only looks up key k. *)
LEMMA ShownLookup ==
  ASSUME IInv, NEW i \in Dbs, NEW k \in Keys, NEW cmd, NEW K, NEW r,
         Done(cmd, i, K, NoDeadline, check_and_expire(dbs[i], k, now), r)
  PROVE  Eager!Saw(cmd, i, K, r)
  BY LookupShows, SetsByEager, ShownKey DEF Eager!Saw

(* ... and one that does not even look. *)
LEMMA ShownIdle ==
  ASSUME IInv, NEW i \in Dbs, NEW cmd, NEW K, NEW r, Done(cmd, i, K, NoDeadline, dbs[i], r)
  PROVE  Eager!Saw(cmd, i, K, r)
  <1>1. Sound(dbs[i]) /\ now \in Int /\ visible[i] = Visible(dbs[i], now)
    BY NowAndHere
  <1>2. Alike(dbs[i], visible[i], now) /\ dbs[i] \in Tables /\ visible[i] \in Tables
    BY <1>1, VisibleAt, SMTT(30) DEF Sound
  <1>3. QED  BY <1>2, Shown DEF Eager!Saw

-----------------------------------------------------------------------------
(* An expiry option of GETEX names a time. *)
LEMMA GetexExpiry ==
  ASSUME NEW o \in GetexOptions, o.kind \in {"rel", "abs"}
  PROVE  o \in [kind : {"rel", "abs"}, n : Ttls, unit : Units]
  <1>1. \/ o \in [kind : {"rel", "abs"}, n : Ttls, unit : Units]
        \/ o.kind = "none"
        \/ \E x \in {"persist", "bad"} : o.kind = x
    BY SMTT(30) DEF GetexOptions, ExpiryOptions, NoExpiry
  <1>2. QED  BY <1>1

(* The string and list commands, one step per command. *)
LEMMA StringCommandShown ==
  ASSUME IInv, NEW i \in Dbs, NEW k \in Keys, StringCommand(i, k)
  PROVE  Eager!Next
  <1> DEFINE d == check_and_expire(dbs[i], k, now)
             a == visible[i]
             v0 == a.prime[k]
             g0 == a.expire[k]
  <1>0. Sets(dbs[i], d, k, v0, g0) /\ a \in Tables
    BY LookupShows
  <1>a. /\ d.prime[k] = v0 /\ d.expire[k] = g0 /\ v0 \in Values \cup {Absent}
        /\ Contains(d, k) <=> v0 # Absent
        /\ g0 \in Deadlines \cup {NoDeadline}
    BY <1>0 DEF Sets, Tables, Contains
  <1>b. /\ StringValues \subseteq Values /\ List \in Values /\ List # Absent
        /\ ~is_string(List) /\ ~is_string(Absent)
        /\ \A v \in Values : is_string(v) \/ v = List
        /\ \A v : is_string(v) => v \in Values
    BY ConstantsAssumption DEF Values, is_string
  <1>z. /\ v0 = List => StringReply(v0) = WrongType
        /\ ~is_string(v0) => v0 = List \/ (v0 = Absent /\ StringReply(v0) = Nil)
    BY <1>a, <1>b DEF StringReply
  <1>c. \A cmd, r : Done(cmd, i, {k}, NoDeadline, d, r) => Eager!Saw(cmd, i, {k}, r)
    BY ShownLookup
  <1>d. \A cmd, x, y, v, g, given, r :
          Sets(dbs[i], x, k, v, g) /\ Sets(a, y, k, v, g) /\ Done(cmd, i, {k}, given, x, r)
            => Eager!Did(cmd, i, {k}, given, y, r)
    BY ShownKey
  <1>e. \A v \in Values : /\ Sets(dbs[i], add_or_update(d, k, v), k, v, g0)
                          /\ Sets(a, Eager!Update(a, k, v), k, v, g0)
                          /\ \A h \in Deadlines \cup {NoDeadline} : Sets(a, Eager!Put(a, k, v, h), k, v, h)
    BY <1>0, SetsByWrites, SetsByEager
  <1>f. Sets(dbs[i], del(d, k), k, Absent, NoDeadline) /\ Sets(a, Eager!del(a, k), k, Absent, NoDeadline)
    BY <1>0, SetsByWrites, SetsByEager
  <1> HIDE DEF d, a
  <1>1. CASE cmd_get(i, k)
    <2>1. Eager!Saw("GET", i, {k}, StringReply(v0))
      BY <1>1, <1>a, <1>c DEF cmd_get, d
    <2>2. QED  BY <2>1, LookedUp DEF a
  <1>2. CASE cmd_strlen(i, k)
    <2>1. Eager!Saw("STRLEN", i, {k}, IF v0 = Absent THEN IntReply(0) ELSE StringReply(v0))
      BY <1>2, <1>a, <1>c DEF cmd_strlen, d
    <2>2. QED  BY <2>1, LookedUp DEF a
  <1>3. CASE cmd_getdel(i, k)
    <2>1. CASE is_string(v0)
      <3>1. Eager!Did("GETDEL", i, {k}, NoDeadline, Eager!del(a, k), Bulk(v0))
        BY <1>3, <2>1, <1>a, <1>b, <1>d, <1>f DEF cmd_getdel, d, StringReply
      <3>2. QED  BY <2>1, <3>1, Touched DEF a
    <2>2. CASE ~is_string(v0)
      <3>1. Eager!Saw("GETDEL", i, {k}, StringReply(v0))
        BY <1>3, <2>2, <1>a, <1>c DEF cmd_getdel, d
      <3>2. QED  BY <2>2, <3>1, <1>z, Refused DEF a
    <2>3. QED  BY <2>1, <2>2
  <1>4. CASE cmd_lpush(i, k)
    <2>1. CASE is_string(v0)
      <3>1. Eager!Saw("LPUSH", i, {k}, WrongType)
        BY <1>4, <2>1, <1>a, <1>c DEF cmd_lpush, d
      <3>2. QED  BY <2>1, <3>1, Refused DEF a
    <2>2. CASE ~is_string(v0)
      <3>1. Eager!Did("LPUSH", i, {k}, NoDeadline, Eager!Update(a, k, List), Bulk(List))
        BY <1>4, <2>2, <1>a, <1>b, <1>d, <1>e DEF cmd_lpush, d
      <3>2. QED  BY <2>2, <3>1, <1>a, <1>b, Collected DEF a
    <2>3. QED  BY <2>1, <2>2
  <1>5. CASE cmd_lpop(i, k)
    <2>1. CASE v0 # List
      <3>1. Eager!Saw("LPOP", i, {k}, IF v0 # Absent THEN WrongType ELSE Nil)
        BY <1>5, <2>1, <1>a, <1>c DEF cmd_lpop, d
      <3>2. QED  BY <2>1, <3>1, <1>a, <1>b, Refused DEF a
    <2>2. CASE v0 = List
      <3>1. Eager!Saw("LPOP", i, {k}, Bulk(List))
            \/ Eager!Did("LPOP", i, {k}, NoDeadline, Eager!del(a, k), Bulk(List))
        <4>1. PICK rest \in {d, del(d, k)} : Done("LPOP", i, {k}, NoDeadline, rest, Bulk(List))
          BY <1>5, <2>2, <1>a DEF cmd_lpop, d
        <4>2. QED  BY <4>1, <1>c, <1>d, <1>f
      <3>2. QED  BY <2>2, <3>1, Collected DEF a, Eager!Saw
    <2>3. QED  BY <2>1, <2>2
  <1>6. ASSUME NEW v \in StringValues, cmd_setnx(i, k, v)
        PROVE  Eager!Next
    <2>1. CASE v0 # Absent
      <3>1. Eager!Saw("SETNX", i, {k}, IntReply(0))
        BY <1>6, <2>1, <1>a, <1>c DEF cmd_setnx, d
      <3>2. QED  BY <2>1, <3>1, Refused DEF a
    <2>2. CASE v0 = Absent
      <3>1. g0 = NoDeadline
        BY <2>2, VisibleSound DEF a, Sound
      <3>2. Eager!Did("SETNX", i, {k}, NoDeadline, Eager!Put(a, k, v, NoDeadline), IntReply(1))
        BY <1>6, <2>2, <3>1, <1>a, <1>b, <1>d, <1>e DEF cmd_setnx, d
      <3>3. QED  BY <2>2, <3>2, Wrote DEF a
    <2>3. QED  BY <2>1, <2>2
  <1>7. ASSUME NEW v \in StringValues, cmd_getset(i, k, v)
        PROVE  Eager!Next
    <2>1. CASE v0 = List
      <3>1. Eager!Saw("GETSET", i, {k}, StringReply(v0))
        BY <1>7, <2>1, <1>a, <1>b, <1>c DEF cmd_getset, d
      <3>2. QED  BY <2>1, <3>1, <1>z, <1>b, Refused DEF a
    <2>2. CASE v0 # List
      <3>1. Sets(dbs[i], remove_expire(add_or_update(d, k, v), k), k, v, NoDeadline)
        BY <1>b, <1>e, SetsByWrites
      <3>2. Eager!Did("GETSET", i, {k}, NoDeadline, Eager!Put(a, k, v, NoDeadline), StringReply(v0))
        <4>1. ~(Contains(d, k) /\ ~is_string(d.prime[k]))
          BY <2>2, <1>a, <1>b
        <4>2. Done("GETSET", i, {k}, NoDeadline, remove_expire(add_or_update(d, k, v), k), StringReply(v0))
          BY <1>7, <4>1, <1>a DEF cmd_getset, d
        <4>3. v \in Values /\ NoDeadline \in Deadlines \cup {NoDeadline}
          BY <1>b
        <4>4. QED  BY <4>2, <4>3, <3>1, <1>d, <1>e
      <3>3. QED  BY <2>2, <3>2, Wrote, SMTT(30) DEF a
    <2>3. QED  BY <2>1, <2>2
  <1>8. ASSUME NEW v \in StringValues, cmd_append(i, k, v)
        PROVE  Eager!Next
    <2>1. CASE v0 = List
      <3>1. Eager!Saw("APPEND", i, {k}, WrongType)
        BY <1>8, <2>1, <1>a, <1>b, <1>c DEF cmd_append, d
      <3>2. QED  BY <2>1, <3>1, Refused DEF a
    <2>2. CASE v0 # List
      <3>1. Eager!Did("APPEND", i, {k}, NoDeadline, Eager!Update(a, k, v), Bulk(v))
        BY <1>8, <2>2, <1>a, <1>b, <1>d, <1>e DEF cmd_append, d
      <3>2. QED  BY <2>2, <3>1, Wrote DEF a
    <2>3. QED  BY <2>1, <2>2
  <1>9. ASSUME NEW v \in StringValues, cmd_incrbyfloat(i, k, v)
        PROVE  Eager!Next
    <2>1. CASE Done("INCRBYFLOAT", i, {k}, NoDeadline, d, Err)
      <3>1. Eager!Saw("INCRBYFLOAT", i, {k}, Err)
        BY <2>1, <1>c
      <3>2. QED  BY <3>1, Refused
    <2>2. CASE /\ ~Contains(d, k) \/ is_string(d.prime[k])
               /\ Done("INCRBYFLOAT", i, {k}, NoDeadline, add_or_update(d, k, v), Bulk(v))
      <3>1. Eager!Did("INCRBYFLOAT", i, {k}, NoDeadline, Eager!Update(a, k, v), Bulk(v))
        BY <2>2, <1>b, <1>d, <1>e
      <3>2. v0 # List
        BY <2>2, <1>a, <1>b
      <3>3. QED  BY <3>1, <3>2, Wrote DEF a
    <2>3. QED  BY <1>9, <2>1, <2>2 DEF cmd_incrbyfloat, d
  <1>10. ASSUME NEW cmd \in {"INCRBY", "DECRBY"}, NEW delta, incr_by(cmd, i, k, delta)
         PROVE  Eager!Next
    <2> DEFINE current == IF Contains(d, k) THEN as_integer(v0) ELSE 0
    <2>1. \/ Done(cmd, i, {k}, NoDeadline, d, Err)
          \/ /\ current \in Integers64 /\ Fits(current + delta)
             /\ Done(cmd, i, {k}, NoDeadline, add_or_update(d, k, current + delta),
                     IntReply(current + delta))
      BY <1>10, <1>a DEF incr_by, d
    <2>2. CASE Done(cmd, i, {k}, NoDeadline, d, Err)
      <3>1. Eager!Saw(cmd, i, {k}, Err)
        BY <2>2, <1>c
      <3>2. QED  BY <3>1, Refused
    <2>3. CASE /\ current \in Integers64 /\ Fits(current + delta)
               /\ Done(cmd, i, {k}, NoDeadline, add_or_update(d, k, current + delta),
                       IntReply(current + delta))
      <3>1. current + delta \in Integers64 /\ current + delta \in Values
        BY <2>3 DEF Fits, Values, StringValues
      <3>2. as_integer(v0) \in Integers64 \cup {Absent}
        <4>1. Absent \notin DOMAIN Trimmed
          BY ConstantsAssumption DEF Values, StringValues
        <4>2. QED  BY <2>3, <4>1, <1>a DEF as_integer
      <3> HIDE DEF current
      <3>3. Eager!Did(cmd, i, {k}, NoDeadline, Eager!Update(a, k, current + delta),
                      IntReply(current + delta))
        BY <2>3, <3>1, <1>d, <1>e
      <3> DEFINE new == current + delta
      <3>4. /\ new \in Integers64
            /\ Eager!Did(cmd, i, {k}, NoDeadline, Eager!Update(visible[i], k, new), IntReply(new))
        BY <3>1, <3>3 DEF a
      <3>5. as_integer(visible[i].prime[k]) \in Integers64 \cup {Absent}
        BY <3>2 DEF a
      <3> HIDE DEF new
      <3>6. QED  BY <1>10, <3>4, <3>5, Counted, SMTT(30)
    <2>4. QED  BY <2>1, <2>2, <2>3
  <1>11. ASSUME NEW v \in StringValues, NEW n \in Ttls, NEW unit \in Units,
                cmd_setex(i, k, v, n, unit)
         PROVE  Eager!Next
    <2> DEFINE deadline == RelativeDeadline(now, n, unit)
               x == add_expire(add_or_update(dbs[i], k, v), k, deadline)
    <2>1. CASE n <= 0
      <3>1. Eager!Saw("SETEX", i, {k}, Err)
        BY <1>11, <2>1, ShownIdle DEF cmd_setex
      <3>2. QED  BY <3>1, Refused
    <2>2. CASE ~(n <= 0)
      <3>1. now \in Int /\ n \in Int /\ v \in Values /\ v # Absent
        BY <1>b, SliceAssumption, ConstantsAssumption, SMTT(30) DEF IInv, TypeOK
      <3>2. deadline \in Deadlines
        BY <3>1, TtlTypes
      <3>3. Sets(dbs[i], dbs[i], k, dbs[i].prime[k], dbs[i].expire[k])
        BY DEF IInv, Sound, Sets
      <3>4. Sets(dbs[i], x, k, v, deadline)
        BY <3>1, <3>2, <3>3, SetsByWrites
      <3>5. Done("SETEX", i, {k}, deadline, x, Ok)
        BY <1>11, <2>2 DEF cmd_setex
      <3> HIDE DEF deadline, x
      <3>6. Eager!Did("SETEX", i, {k}, deadline, Eager!Put(a, k, v, deadline), Ok)
        BY <3>1, <3>2, <3>4, <3>5, <1>d, <1>e
      <3>7. n > 0
        BY <2>2, <3>1, SMTT(30)
      <3>8. QED  BY <3>6, <3>7, WroteWithDeadline DEF a, deadline
    <2>3. QED  BY <2>1, <2>2
  <1>12. ASSUME NEW o \in GetexOptions, cmd_getex(i, k, o)
         PROVE  Eager!Next
    <2>1. CASE ~is_string(v0)
      <3>1. Eager!Saw("GETEX", i, {k}, StringReply(v0))
        BY <1>12, <2>1, <1>a, <1>c DEF cmd_getex, d
      <3>2. QED  BY <2>1, <3>1, <1>z, Refused DEF a
    <2>2. CASE is_string(v0) /\ Done("GETEX", i, {k}, NoDeadline, d, Err)
      <3>1. Eager!Saw("GETEX", i, {k}, Err)
        BY <2>2, <1>c
      <3>2. QED  BY <3>1, Refused
    <2>3. CASE is_string(v0) /\ Done("GETEX", i, {k}, NoDeadline, d, StringReply(v0))
      <3>1. Eager!Saw("GETEX", i, {k}, Bulk(v0))
        BY <2>3, <1>b, <1>c DEF StringReply
      <3>2. QED  BY <2>3, <3>1, Touched DEF a, Eager!Saw
    <2>4. CASE is_string(v0) /\ Done("GETEX", i, {k}, NoDeadline, remove_expire(d, k), Bulk(v0))
      <3>1. Sets(dbs[i], remove_expire(d, k), k, v0, NoDeadline)
        BY <1>0, SetsByWrites
      <3>2. Eager!Did("GETEX", i, {k}, NoDeadline, Eager!Put(a, k, v0, NoDeadline), Bulk(v0))
        BY <2>4, <3>1, <1>b, <1>d, <1>e
      <3>3. QED  BY <2>4, <3>2, Touched DEF a
    <2>5. CASE /\ is_string(v0) /\ o.kind \in {"rel", "abs"} /\ ~(o.n <= 0)
               /\ Done("GETEX", i, {k}, Deadline(o), add_expire(d, k, Deadline(o)), Bulk(v0))
      <3>1. o \in [kind : {"rel", "abs"}, n : Ttls, unit : Units]
        BY <2>5, GetexExpiry
      <3>2. o.n \in Int /\ Deadline(o) \in Deadlines
        BY <2>5, <3>1, ExpiryTypes DEF ExpiryOptions, IInv
      <3>3. o \in Eager!Expiries
        BY <2>5, <3>1, <3>2, SameNumbers, SMTT(30) DEF Eager!Expiries
      <3>4. v0 # Absent
        BY <2>5, <1>b
      <3>5. Sets(dbs[i], add_expire(d, k, Deadline(o)), k, v0, Deadline(o))
        BY <1>0, <3>2, <3>4, SetsByWrites
      <3>6. Eager!Did("GETEX", i, {k}, Deadline(o), Eager!Put(a, k, v0, Deadline(o)), Bulk(v0))
        <4>1. v0 \in Values /\ Deadline(o) \in Deadlines \cup {NoDeadline}
          BY <2>5, <3>2, <1>b
        <4>2. Sets(a, Eager!Put(a, k, v0, Deadline(o)), k, v0, Deadline(o))
          BY <4>1, <1>e
        <4>3. Done("GETEX", i, {k}, Deadline(o), add_expire(d, k, Deadline(o)), Bulk(v0))
          BY <2>5
        <4>4. QED  BY <3>5, <4>2, <4>3, <1>d
      <3>7. QED  BY <2>5, <3>3, <3>6, Touched, SMTT(30) DEF a
    <2>6. QED
      BY <1>12, <1>a, <2>1, <2>2, <2>3, <2>4, <2>5 DEF cmd_getex, d
  <1>13. ASSUME NEW v \in StringValues, NEW flags \in SetFlags, NEW e \in ExpiryOptions,
                cmd_set(i, k, v, flags, e)
         PROVE  Eager!Next
    <2> DEFINE kept == IF "KEEPTTL" \in flags /\ Contains(d, k) THEN d.expire[k] ELSE NoDeadline
               new == SetExpiry(add_or_update(d, k, v), k, kept, flags, e)
               given == IF e.kind = "none" THEN NoDeadline ELSE Deadline(e)
               deadline == IF e.kind = "none" /\ "KEEPTTL" \in flags THEN g0 ELSE given
               getReply == IF "GET" \in flags THEN StringReply(v0) ELSE Nil
               badOption == (e.kind # "none" /\ e.n <= 0) \/ {"NX", "XX"} \subseteq flags
               wrongType == "GET" \in flags /\ Contains(d, k) /\ ~is_string(v0)
               refused == ("NX" \in flags /\ v0 # Absent) \/ ("XX" \in flags /\ v0 = Absent)
    <2>0. \/ badOption /\ Done("SET", i, {k}, NoDeadline, dbs[i], Err)
          \/ ~badOption /\ wrongType /\ Done("SET", i, {k}, NoDeadline, d, WrongType)
          \/ ~badOption /\ ~wrongType /\ refused /\ Done("SET", i, {k}, NoDeadline, d, getReply)
          \/ /\ ~badOption /\ ~wrongType /\ ~refused
             /\ Done("SET", i, {k}, given, new, IF "GET" \in flags THEN getReply ELSE Ok)
      BY <1>13, <1>a DEF cmd_set, d
    <2>1. CASE Done("SET", i, {k}, NoDeadline, dbs[i], Err)
      <3>1. Eager!Saw("SET", i, {k}, Err)
        BY <2>1, ShownIdle
      <3>2. QED  BY <3>1, Refused
    <2>2. CASE wrongType /\ Done("SET", i, {k}, NoDeadline, d, WrongType)
      <3>1. v0 = List
        BY <2>2, <1>a, <1>b
      <3>2. Eager!Saw("SET", i, {k}, WrongType)
        BY <2>2, <1>c
      <3>3. QED  BY <3>1, <3>2, Refused DEF a
    <2>3. e \in Eager!Expiries \cup {Eager!NoExpiry} \/ badOption
      <3>1. CASE e = NoExpiry
        BY <3>1 DEF NoExpiry, Eager!NoExpiry
      <3>2. CASE e \in [kind : {"rel", "abs"}, n : Ttls, unit : Units]
        <4>1. e.n \in Int
          BY ExpiryTypes DEF IInv
        <4>2. QED  BY <3>2, <4>1, SameNumbers, SMTT(30) DEF Eager!Expiries
      <3>3. QED  BY <3>1, <3>2 DEF ExpiryOptions
    <2>4. e = Eager!NoExpiry <=> e.kind = "none"
      BY SMTT(30) DEF ExpiryOptions, NoExpiry, Eager!NoExpiry
    <2>5. wrongType \/ ("GET" \in flags => StringReply(v0) # WrongType)
      <3>1. v0 = Absent \/ is_string(v0) => StringReply(v0) # WrongType
        BY <1>b DEF StringReply, Nil, Bulk, WrongType
      <3>2. QED  BY <3>1, <1>a
    <2>6. CASE ~badOption /\ ~wrongType /\ refused /\ Done("SET", i, {k}, NoDeadline, d, getReply)
      <3>1. Eager!Did("SET", i, {k}, NoDeadline, a, getReply)
        BY <2>6, <1>c DEF Eager!Saw, a
      <3>2. Eager!Set(i, k, v, flags, e)
        BY <2>5, <2>6, <3>1, SameReplies, SameTables, SameNumbers DEF a, Contains, Eager!Set
      <3>3. QED  BY <2>3, <2>6, <3>2, WasSet
    <2>7. CASE /\ ~badOption /\ ~wrongType /\ ~refused
               /\ Done("SET", i, {k}, given, new, IF "GET" \in flags THEN getReply ELSE Ok)
      <3>1. given \in Deadlines \cup {NoDeadline} /\ (e.kind # "none" => given \in Deadlines)
        BY ExpiryTypes DEF IInv
      <3>2. v \in Values /\ v # Absent
        BY <1>b, ConstantsAssumption
      <3>3. Sets(dbs[i], new, k, v, deadline)
        <4> DEFINE w == add_or_update(d, k, v)
        <4>1. Sets(dbs[i], w, k, v, g0)
          BY <3>2, <1>e
        <4>2. /\ \A h \in Deadlines : Sets(dbs[i], add_expire(w, k, h), k, v, h)
              /\ Sets(dbs[i], remove_expire(w, k), k, v, NoDeadline)
          BY <3>2, <4>1, SetsByWrites
        <4> HIDE DEF w
        <4>3. CASE e.kind # "none"
          BY <3>1, <4>2, <4>3 DEF SetExpiry, w
        <4>4. CASE e.kind = "none" /\ kept # NoDeadline
          BY <4>2, <4>4, <1>a DEF SetExpiry, w
        <4>5. CASE e.kind = "none" /\ kept = NoDeadline /\ "KEEPTTL" \notin flags
          BY <4>2, <4>5 DEF SetExpiry, w
        <4>6. CASE e.kind = "none" /\ kept = NoDeadline /\ "KEEPTTL" \in flags
          BY <4>1, <4>6 DEF SetExpiry, w
        <4>7. QED  BY <4>3, <4>4, <4>5, <4>6
      <3>4. Done("SET", i, {k}, given, new, IF "GET" \in flags THEN getReply ELSE Ok)
        BY <2>7
      <3>5. deadline \in Deadlines \cup {NoDeadline}
        BY <3>1, <1>a
      <3> HIDE DEF new
      <3>6. Eager!Did("SET", i, {k}, given, Eager!Put(a, k, v, deadline),
                      IF "GET" \in flags THEN getReply ELSE Ok)
        <4> HIDE DEF given, deadline, getReply
        <4>1. QED  BY <3>2, <3>3, <3>4, <3>5, <1>d, <1>e
      <3>7. Eager!Set(i, k, v, flags, e)
        BY <2>4, <2>5, <2>7, <3>6, SameReplies, SameTables, SameNumbers DEF a, Contains, Eager!Set
      <3>8. QED  BY <2>3, <2>7, <3>7, WasSet
    <2>8. QED
      <3> HIDE DEF kept, new, given, deadline, getReply, badOption, wrongType, refused
      <3>1. QED  BY <2>0, <2>1, <2>2, <2>6, <2>7
  <1>14. QED
    BY <1>1, <1>2, <1>3, <1>4, <1>5, <1>6, <1>7, <1>8, <1>9, <1>10, <1>11, <1>12, <1>13
    DEF StringCommand, cmd_incrby, cmd_decrby
=============================================================================
