------------------------------- MODULE DbSlice -------------------------------
(***************************************************************************)
(* The databases of one shard and the commands that act on them.  The      *)
(* shard's thread runs one command at a time, so a command is one action.  *)
(* Keys expire lazily, when a command looks them up, and actively, in the  *)
(* periodic sweep; between its deadline and its removal a key lingers in   *)
(* the tables.                                                             *)
(***************************************************************************)
EXTENDS DbTable

CONSTANTS
  Dbs,         \* database indices (0..15 in the code)
  Ttls,        \* integers given as TTL or timestamp arguments
  SecMs,       \* milliseconds per second: the unit of EX, EXPIRE, ...
  SweepCount,  \* entries of the expire table a sweep looks at (20)
  SetFlags,    \* combinations of the flags of SET that are tried
  MaxNow       \* bound on the clock

ASSUME SliceAssumption ==
  /\ Dbs # {}
  /\ Ttls \subseteq Int
  /\ SecMs \in Nat \ {0}
  /\ SweepCount \in Nat
  /\ SetFlags \subseteq SUBSET {"NX", "XX", "GET", "KEEPTTL"}
  /\ MaxNow \in Deadlines

VARIABLES
  dbs,  \* DbSlice.dbs
  now,  \* DbSlice.now_ms
  last  \* the last command run: its keys, the deadline it gave, its reply

vars == <<dbs, now, last>>

Units == {1, SecMs}
NoExpiry == [kind |-> "none", n |-> 0, unit |-> 1]
ExpiryOptions == {NoExpiry} \cup [kind : {"rel", "abs"}, n : Ttls, unit : Units]

Deadline(e) == IF e.kind = "abs" THEN AbsoluteDeadline(e.n, e.unit)
                                 ELSE RelativeDeadline(now, e.n, e.unit)

-----------------------------------------------------------------------------
(* DbSlice operations that compare deadlines with the clock. *)
(* Mutant: a key outlives its deadline by a millisecond. *)
Past_late(d, k, t) == d.expire[k] # NoDeadline /\ t > d.expire[k]

Past(d, k, t) == d.expire[k] # NoDeadline /\ t >= d.expire[k]

check_and_expire(d, k, t) == IF Past(d, k, t) THEN Remove(d, {k}) ELSE d

(* find/exists on several keys, one after the other. *)
CheckAll(d, K, t) == Remove(d, {k \in K : Past(d, k, t)})

Live(d, k, t) == Contains(d, k) /\ ~Past(d, k, t)

(* Mutant: one entry short. *)
FirstDeadlines_short(d, n) ==
  {k \in HasDeadline(d) : Cardinality({j \in HasDeadline(d) : j < k}) + 1 < n}

FirstDeadlines(d, n) ==
  {k \in HasDeadline(d) : Cardinality({j \in HasDeadline(d) : j < k}) < n}

expire_sweep(d, n, t) == Remove(d, {k \in FirstDeadlines(d, n) : Past(d, k, t)})

-----------------------------------------------------------------------------
NoCommand == [cmd |-> "none", db |-> 0, keys |-> {}, given |-> NoDeadline, reply |-> Ok]

Init ==
  /\ dbs = [i \in Dbs |-> EmptyTable]
  /\ now \in 0 .. MaxNow
  /\ last = NoCommand

Done(cmd, i, K, given, d, r) ==
  /\ dbs' = [dbs EXCEPT ![i] = d]
  /\ last' = [cmd |-> cmd, db |-> i, keys |-> K, given |-> given, reply |-> r]
  /\ UNCHANGED now

(* update_time: the clock of the shard catches up with the wall clock,    *)
(* every millisecond and before every command.                             *)
Tick ==
  /\ \E t \in now + 1 .. MaxNow : now' = t
  /\ UNCHANGED <<dbs, last>>

(* Mutant: sweeps before it updates the clock. *)
Sweep_stale ==
  \E t \in now .. MaxNow :
    /\ now' = t
    /\ dbs' = [i \in Dbs |-> expire_sweep(dbs[i], SweepCount, now)]
    /\ UNCHANGED last

(* The 100 ms task: update the clock, then sweep every database. *)
Sweep ==
  \E t \in now .. MaxNow :
    /\ now' = t
    /\ dbs' = [i \in Dbs |-> IF Present(dbs[i]) # {}
                             THEN expire_sweep(dbs[i], SweepCount, t)
                             ELSE dbs[i]]
    /\ UNCHANGED last

(* Arity, syntax and number errors found before the database is touched. *)
Reject(i) == Done("reject", i, {}, NoDeadline, dbs[i], Err)

-----------------------------------------------------------------------------
(* String commands. *)
cmd_get(i, k) ==
  LET d == check_and_expire(dbs[i], k, now)
  IN  Done("GET", i, {k}, NoDeadline, d, StringReply(d.prime[k]))

cmd_mget(i, K) ==
  LET d == CheckAll(dbs[i], K, now)
  IN  Done("MGET", i, K, NoDeadline, d,
           ValueList([k \in K |-> IF is_string(d.prime[k]) THEN Bulk(d.prime[k])
                                                           ELSE Nil]))

(* STRLEN and GETRANGE return a function of the bytes of the value. *)
cmd_strlen(i, k) ==
  LET d == check_and_expire(dbs[i], k, now)
  IN  Done("STRLEN", i, {k}, NoDeadline, d,
           IF Contains(d, k) THEN StringReply(d.prime[k]) ELSE IntReply(0))

SetExpiry(d, k, kept, flags, e) ==
  CASE e.kind # "none" -> add_expire(d, k, Deadline(e))
    [] e.kind = "none" /\ kept # NoDeadline -> add_expire(d, k, kept)
    [] e.kind = "none" /\ kept = NoDeadline /\ "KEEPTTL" \notin flags -> remove_expire(d, k)
    [] OTHER -> d

cmd_set(i, k, v, flags, e) ==
  LET d == check_and_expire(dbs[i], k, now)
      old == d.prime[k]
      exists == Contains(d, k)
      kept == IF "KEEPTTL" \in flags /\ exists THEN d.expire[k] ELSE NoDeadline
      new == SetExpiry(add_or_update(d, k, v), k, kept, flags, e)
      given == IF e.kind = "none" THEN NoDeadline ELSE Deadline(e)
      getReply == IF "GET" \in flags THEN StringReply(old) ELSE Nil
      badOption == (e.kind # "none" /\ e.n <= 0) \/ {"NX", "XX"} \subseteq flags
      wrongType == "GET" \in flags /\ exists /\ ~is_string(old)
      refused == ("NX" \in flags /\ exists) \/ ("XX" \in flags /\ ~exists)
  IN  \/ /\ badOption
         /\ Done("SET", i, {k}, NoDeadline, dbs[i], Err)
      \/ /\ ~badOption /\ wrongType
         /\ Done("SET", i, {k}, NoDeadline, d, WrongType)
      \/ /\ ~badOption /\ ~wrongType /\ refused
         /\ Done("SET", i, {k}, NoDeadline, d, getReply)
      \/ /\ ~badOption /\ ~wrongType /\ ~refused
         /\ Done("SET", i, {k}, given, new, IF "GET" \in flags THEN getReply ELSE Ok)

cmd_setnx(i, k, v) ==
  LET d == check_and_expire(dbs[i], k, now)
  IN  IF Contains(d, k)
      THEN Done("SETNX", i, {k}, NoDeadline, d, IntReply(0))
      ELSE Done("SETNX", i, {k}, NoDeadline, add_or_update(d, k, v), IntReply(1))

(* SETEX (unit SecMs) and PSETEX (unit 1). *)
cmd_setex(i, k, v, n, unit) ==
  LET deadline == RelativeDeadline(now, n, unit)
  IN  IF n <= 0
      THEN Done("SETEX", i, {k}, NoDeadline, dbs[i], Err)
      ELSE Done("SETEX", i, {k}, deadline,
                add_expire(add_or_update(dbs[i], k, v), k, deadline), Ok)

(* The pairs of MSET and MSETNX: a function from the keys to values. *)
AddPairs(d, pairs) ==
  [prime |-> [k \in Keys |-> IF k \in DOMAIN pairs THEN pairs[k] ELSE d.prime[k]],
   expire |-> d.expire]

RemoveExpires(d, K) ==
  [prime |-> d.prime,
   expire |-> [k \in Keys |-> IF k \in K THEN NoDeadline ELSE d.expire[k]]]

cmd_mset(i, pairs) ==
  Done("MSET", i, DOMAIN pairs, NoDeadline,
       RemoveExpires(AddPairs(dbs[i], pairs), DOMAIN pairs), Ok)

(* exists() stops at the first key that exists: only the keys asked before *)
(* it have been checked for expiry.  `asked` is that prefix.               *)
cmd_msetnx(i, pairs, asked) ==
  LET d == CheckAll(dbs[i], asked, now)
  IN  /\ asked \subseteq DOMAIN pairs
      /\ \/ /\ \E k \in asked : Contains(d, k)
            /\ \A j, k \in asked : Contains(d, j) /\ Contains(d, k) => j = k
            /\ Done("MSETNX", i, DOMAIN pairs, NoDeadline, d, IntReply(0))
         \/ /\ asked = DOMAIN pairs
            /\ \A k \in asked : ~Contains(d, k)
            /\ Done("MSETNX", i, DOMAIN pairs, NoDeadline, AddPairs(d, pairs), IntReply(1))

cmd_getset(i, k, v) ==
  LET d == check_and_expire(dbs[i], k, now)
      new == remove_expire(add_or_update(d, k, v), k)
      wrongType == Contains(d, k) /\ ~is_string(d.prime[k])
  IN  Done("GETSET", i, {k}, NoDeadline, IF wrongType THEN d ELSE new, StringReply(d.prime[k]))

cmd_getdel(i, k) ==
  LET d == check_and_expire(dbs[i], k, now)
  IN  Done("GETDEL", i, {k}, NoDeadline,
           IF is_string(d.prime[k]) THEN del(d, k) ELSE d, StringReply(d.prime[k]))

(* GETEX with an expiry option, with PERSIST, with an unknown option, or   *)
(* with none; its option is only read once the key has been found.         *)
GetexOptions == ExpiryOptions \cup {[kind |-> x, n |-> 0, unit |-> 1] : x \in {"persist", "bad"}}

cmd_getex(i, k, o) ==
  LET d == check_and_expire(dbs[i], k, now)
      found == is_string(d.prime[k])
      expiry == o.kind \in {"rel", "abs"}
      bad == o.kind = "bad" \/ (expiry /\ o.n <= 0)
  IN  \/ /\ ~found \/ o.kind = "none"
         /\ Done("GETEX", i, {k}, NoDeadline, d, StringReply(d.prime[k]))
      \/ /\ found /\ bad
         /\ Done("GETEX", i, {k}, NoDeadline, d, Err)
      \/ /\ found /\ o.kind = "persist"
         /\ Done("GETEX", i, {k}, NoDeadline, remove_expire(d, k), Bulk(d.prime[k]))
      \/ /\ found /\ expiry /\ ~bad
         /\ Done("GETEX", i, {k}, Deadline(o), add_expire(d, k, Deadline(o)), Bulk(d.prime[k]))

(* INCR, DECR, INCRBY and DECRBY with the delta they add. *)
incr_by(cmd, i, k, delta) ==
  LET d == check_and_expire(dbs[i], k, now)
      current == IF Contains(d, k) THEN as_integer(d.prime[k]) ELSE 0
  IN  \/ /\ current \notin Integers64
         /\ Done(cmd, i, {k}, NoDeadline, d, Err)
      \/ /\ current \in Integers64 /\ ~Fits(current + delta)
         /\ Done(cmd, i, {k}, NoDeadline, d, Err)
      \/ /\ current \in Integers64 /\ Fits(current + delta)
         /\ Done(cmd, i, {k}, NoDeadline, add_or_update(d, k, current + delta),
                 IntReply(current + delta))

cmd_incrby(i, k, delta) == incr_by("INCRBY", i, k, delta)

cmd_decrby(i, k, delta) == incr_by("DECRBY", i, k, WrappingNeg(delta))

(* APPEND, SETRANGE and INCRBYFLOAT replace the bytes by some function of  *)
(* them, v, and keep the deadline.  INCRBYFLOAT also fails on a string     *)
(* that is no float, and where the sum is not finite.                      *)
cmd_append(i, k, v) ==
  LET d == check_and_expire(dbs[i], k, now)
      wrongType == Contains(d, k) /\ ~is_string(d.prime[k])
  IN  \/ /\ wrongType
         /\ Done("APPEND", i, {k}, NoDeadline, d, WrongType)
      \/ /\ ~wrongType
         /\ Done("APPEND", i, {k}, NoDeadline, add_or_update(d, k, v), Bulk(v))

cmd_incrbyfloat(i, k, v) ==
  LET d == check_and_expire(dbs[i], k, now)
  IN  \/ Done("INCRBYFLOAT", i, {k}, NoDeadline, d, Err)
      \/ /\ ~Contains(d, k) \/ is_string(d.prime[k])
         /\ Done("INCRBYFLOAT", i, {k}, NoDeadline, add_or_update(d, k, v), Bulk(v))

-----------------------------------------------------------------------------
(* A collection, seen as one value that is never empty. *)
cmd_lpush(i, k) ==
  LET d == check_and_expire(dbs[i], k, now)
  IN  IF is_string(d.prime[k])
      THEN Done("LPUSH", i, {k}, NoDeadline, d, WrongType)
      ELSE Done("LPUSH", i, {k}, NoDeadline, add_or_update(d, k, List), Bulk(List))

cmd_lpop(i, k) ==
  LET d == check_and_expire(dbs[i], k, now)
  IN  \/ /\ d.prime[k] # List
         /\ Done("LPOP", i, {k}, NoDeadline, d, IF Contains(d, k) THEN WrongType ELSE Nil)
      \/ /\ d.prime[k] = List
         /\ \E rest \in {d, del(d, k)} : Done("LPOP", i, {k}, NoDeadline, rest, Bulk(List))

-----------------------------------------------------------------------------
(* Generic commands. *)
cmd_del(i, K) ==
  Done("DEL", i, K, NoDeadline, Remove(dbs[i], K), IntReply(Cardinality(K \cap Present(dbs[i]))))

cmd_exists(i, K) ==
  LET d == CheckAll(dbs[i], K, now)
  IN  Done("EXISTS", i, K, NoDeadline, d, IntReply(Cardinality(K \cap Present(d))))

cmd_type(i, k) ==
  LET d == check_and_expire(dbs[i], k, now)
  IN  Done("TYPE", i, {k}, NoDeadline, d, Bulk(d.prime[k]))

cmd_rename(i, from, to) ==
  Done("RENAME", i, {from, to}, dbs[i].expire[from], rename(dbs[i], from, to),
       IF Contains(dbs[i], from) THEN Ok ELSE Err)

cmd_renamenx(i, from, to) ==
  LET d == check_and_expire(dbs[i], from, now)
      d2 == check_and_expire(d, to, now)
  IN  \/ /\ ~Contains(d, from)
         /\ Done("RENAMENX", i, {from, to}, NoDeadline, d, Err)
      \/ /\ Contains(d, from) /\ Contains(d2, to)
         /\ Done("RENAMENX", i, {from, to}, NoDeadline, d2, IntReply(0))
      \/ /\ Contains(d, from) /\ ~Contains(d2, to)
         /\ Done("RENAMENX", i, {from, to}, d.expire[from], rename(d2, from, to), IntReply(1))

(* EXPIRE (unit SecMs) and PEXPIRE (unit 1). *)
set_expire_relative(i, k, n, unit) ==
  LET d == check_and_expire(dbs[i], k, now)
      deadline == RelativeDeadline(now, n, unit)
  IN  \/ /\ ~Contains(d, k)
         /\ Done("EXPIRE", i, {k}, NoDeadline, d, IntReply(0))
      \/ /\ Contains(d, k) /\ n <= 0
         /\ Done("EXPIRE", i, {k}, NoDeadline, del(d, k), IntReply(1))
      \/ /\ Contains(d, k) /\ n > 0
         /\ Done("EXPIRE", i, {k}, deadline, add_expire(d, k, deadline), IntReply(1))

(* EXPIREAT (unit SecMs) and PEXPIREAT (unit 1). *)
set_expire_absolute(i, k, n, unit) ==
  LET d == check_and_expire(dbs[i], k, now)
      deadline == AbsoluteDeadline(n, unit)
  IN  \/ /\ ~Contains(d, k)
         /\ Done("EXPIREAT", i, {k}, NoDeadline, d, IntReply(0))
      \/ /\ Contains(d, k) /\ deadline <= now
         /\ Done("EXPIREAT", i, {k}, NoDeadline, del(d, k), IntReply(1))
      \/ /\ Contains(d, k) /\ deadline > now
         /\ Done("EXPIREAT", i, {k}, deadline, add_expire(d, k, deadline), IntReply(1))

(* TTL and PTTL: ttl_ms drops a key that is past its deadline. *)
cmd_pttl(i, k) ==
  LET d == IF Contains(dbs[i], k) THEN check_and_expire(dbs[i], k, now) ELSE dbs[i]
  IN  Done("PTTL", i, {k}, NoDeadline, d,
           IntReply(CASE ~Contains(d, k) -> -2
                      [] Contains(d, k) /\ d.expire[k] = NoDeadline -> -1
                      [] OTHER -> d.expire[k] - now))

cmd_persist(i, k) ==
  LET d == check_and_expire(dbs[i], k, now)
      removed == Contains(d, k) /\ d.expire[k] # NoDeadline
  IN  Done("PERSIST", i, {k}, NoDeadline, IF Contains(d, k) THEN remove_expire(d, k) ELSE d,
           IntReply(IF removed THEN 1 ELSE 0))

(* KEYS with a pattern that the keys of P match. *)
cmd_keys(i, P) ==
  LET d == CheckAll(dbs[i], Keys, now)
  IN  Done("KEYS", i, P, NoDeadline, d, KeyList(P \cap Present(d)))

cmd_dbsize(i) ==
  Done("DBSIZE", i, {}, NoDeadline, dbs[i], IntReply(Cardinality(Present(dbs[i]))))

(* The first key the prime table iterates over.  The prime and the expire  *)
(* table have hashers of their own, so it is not the first of Keys.        *)
cmd_randomkey(i) ==
  LET P == Present(dbs[i])
  IN  \/ P = {} /\ Done("RANDOMKEY", i, {}, NoDeadline, dbs[i], KeyList({}))
      \/ \E k \in P : Done("RANDOMKEY", i, {}, NoDeadline, dbs[i], KeyList({k}))

(* The keys that cursor, COUNT and pattern pick, whatever their deadlines: *)
(* which ones is in module DashScan.  A cursor that is no number is an     *)
(* error.                                                                  *)
cmd_scan(i) ==
  \/ \E S \in SUBSET Present(dbs[i]) : Done("SCAN", i, {}, NoDeadline, dbs[i], KeyList(S))
  \/ Done("SCAN", i, {}, NoDeadline, dbs[i], Err)

cmd_flushdb(i) == Done("FLUSHDB", i, Keys, NoDeadline, EmptyTable, Ok)

cmd_flushall(i) ==
  /\ dbs' = [j \in Dbs |-> EmptyTable]
  /\ last' = [cmd |-> "FLUSHALL", db |-> i, keys |-> Keys, given |-> NoDeadline, reply |-> Ok]
  /\ UNCHANGED now

-----------------------------------------------------------------------------
Pairs == UNION {[K -> StringValues] : K \in SUBSET Keys \ {{}}}
KeySets == SUBSET Keys \ {{}}

StringCommand(i, k) ==
  \/ cmd_get(i, k) \/ cmd_strlen(i, k) \/ cmd_getdel(i, k)
  \/ \E v \in StringValues :
       \/ \E flags \in SetFlags, e \in ExpiryOptions : cmd_set(i, k, v, flags, e)
       \/ \E n \in Ttls, unit \in Units : cmd_setex(i, k, v, n, unit)
       \/ cmd_setnx(i, k, v) \/ cmd_getset(i, k, v)
       \/ cmd_append(i, k, v) \/ cmd_incrbyfloat(i, k, v)
  \/ \E o \in GetexOptions : cmd_getex(i, k, o)
  \/ \E delta \in Integers64 : cmd_incrby(i, k, delta) \/ cmd_decrby(i, k, delta)
  \/ cmd_lpush(i, k) \/ cmd_lpop(i, k)

GenericCommand(i, k) ==
  \/ cmd_type(i, k) \/ cmd_pttl(i, k) \/ cmd_persist(i, k)
  \/ \E to \in Keys : cmd_rename(i, k, to) \/ cmd_renamenx(i, k, to)
  \/ \E n \in Ttls, unit \in Units :
       set_expire_relative(i, k, n, unit) \/ set_expire_absolute(i, k, n, unit)

ManyKeyCommand(i) ==
  \/ \E K \in KeySets : cmd_mget(i, K) \/ cmd_del(i, K) \/ cmd_exists(i, K) \/ cmd_keys(i, K)
  \/ \E pairs \in Pairs :
       cmd_mset(i, pairs) \/ \E asked \in KeySets : cmd_msetnx(i, pairs, asked)
  \/ cmd_dbsize(i) \/ cmd_randomkey(i) \/ cmd_scan(i) \/ cmd_flushdb(i) \/ cmd_flushall(i) \/ Reject(i)

Next ==
  \/ Tick
  \/ Sweep
  \/ \E i \in Dbs :
       \/ \E k \in Keys : StringCommand(i, k) \/ GenericCommand(i, k)
       \/ ManyKeyCommand(i)

Spec == Init /\ [][Next]_vars

(* The sweep task and the commands are tasks of one cooperative executor   *)
(* that polls every woken task in turn, and a command runs to its end      *)
(* without waiting: the 100 ms tick is served over and over.               *)
FairSpec == Spec /\ WF_vars(Sweep)

-----------------------------------------------------------------------------
TypeOK ==
  /\ dbs \in [Dbs -> Tables]
  /\ now \in 0 .. MaxNow
  /\ last.keys \in SUBSET Keys
  /\ last.given \in Deadlines \cup {NoDeadline}

(* The expire table only holds keys of the prime table.  Commands drop the *)
(* two entries of a key one after the other and most writes leave the      *)
(* expire table alone, so that a deadline left behind by DEL, RENAME,      *)
(* GETDEL, the sweep or lazy expiry would expire the next value of the key.*)
NoOrphanDeadline ==
  \A i \in Dbs : HasDeadline(dbs[i]) \subseteq Present(dbs[i])

(* A key that comes (back) to life has no deadline but the one its command *)
(* gave it: no write, neither one that looks the key up first (SETNX,      *)
(* MSETNX, INCRBY, APPEND, LPUSH, SET KEEPTTL) nor one that does not (MSET,*)
(* SETEX, RENAME), revives a key together with the deadline it died from.  *)
FreshKeyDeadline ==
  [][\A i \in Dbs, k \in Keys :
       ~Live(dbs[i], k, now) /\ Live(dbs'[i], k, now')
         => dbs'[i].expire[k] \in {NoDeadline, last'.given}]_vars

(* An expired key does not stay in memory: the sweep (or a lookup) removes *)
(* it, however the commands interleave with the sweeps.                    *)
ExpiredReclaimed ==
  \A i \in Dbs, k \in Keys :
    Past(dbs[i], k, now) ~> ~Past(dbs[i], k, now)

(* A sweep that finds the memory of expired keys to reclaim reclaims some. *)
SweepProgress ==
  [][Sweep => \A i \in Dbs :
       LET E == {k \in Keys : Past(dbs[i], k, now')}
       IN  E # {} => E \cap HasDeadline(dbs'[i]) # E]_vars

(* What a client can see of a database at time t: the keys that are not    *)
(* past their deadline.                                                    *)
Visible(d, t) == Remove(d, {k \in Keys : Past(d, k, t)})

visible == [i \in Dbs |-> Visible(dbs[i], now)]

(* The store in which keys vanish at their deadline, seen through DbSlice. *)
Eager == INSTANCE EagerStore WITH dbs <- visible

(* DbSlice implements EagerStore: lazy and active expiry are invisible,    *)
(* but for the exceptions EagerStore names.                                *)
ImplementsEagerStore == Eager!Spec
=============================================================================
