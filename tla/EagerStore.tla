----------------------------- MODULE EagerStore ------------------------------
(***************************************************************************)
(* What a client may rely on: a store in which a key vanishes at the very  *)
(* instant its deadline is reached.  No command has to check deadlines and *)
(* there is nothing to sweep.  Module DbSlice implements this store; its   *)
(* lazy and active expiry must not show, except where it does in the code: *)
(*   - DEL and DBSIZE may still count lingering keys, RANDOMKEY and SCAN   *)
(*     return them (StaleCount, StaleSize, StaleKey, StaleScan);           *)
(*   - RENAME of a key that lingers past its deadline answers OK and       *)
(*     removes the destination (StaleRename).                              *)
(***************************************************************************)
EXTENDS DbTable

CONSTANTS Dbs, Ttls, SecMs, SetFlags, MaxNow

VARIABLES dbs, now, last

vars == <<dbs, now, last>>

Units == {1, SecMs}
Due(d, t) == {k \in Keys : d.expire[k] # NoDeadline /\ d.expire[k] <= t}
Deadline(e) == IF e.kind = "abs" THEN AbsoluteDeadline(e.n, e.unit)
                                 ELSE RelativeDeadline(now, e.n, e.unit)
NoExpiry == [kind |-> "none", n |-> 0, unit |-> 1]
Expiries == [kind : {"rel", "abs"}, n : {n \in Ttls : n > 0}, unit : Units]

Init ==
  /\ dbs = [i \in Dbs |-> EmptyTable]
  /\ now \in 0 .. MaxNow
  /\ last = [cmd |-> "none", db |-> 0, keys |-> {}, given |-> NoDeadline, reply |-> Ok]

(* Time passes and every key that is due is gone. *)
Advance ==
  \E t \in now .. MaxNow :
    /\ now' = t
    /\ UNCHANGED last
    /\ dbs' = [i \in Dbs |-> Remove(dbs[i], Due(dbs[i], t))]

(* Command cmd turns database i into d, minus the keys d makes due.  The   *)
(* first conjunct is implied by the next one, and quicker to evaluate.     *)
Did(cmd, i, K, given, d, r) ==
  /\ last'.cmd = cmd /\ last'.keys = K
  /\ last' = [cmd |-> cmd, db |-> i, keys |-> K, given |-> given, reply |-> r]
  /\ dbs' = [dbs EXCEPT ![i] = Remove(d, Due(d, now))]
  /\ UNCHANGED now

(* A command that leaves the store alone. *)
Saw(cmd, i, K, r) == Did(cmd, i, K, NoDeadline, dbs[i], r)

(* Key k gets value v and the deadline given, or loses its deadline. *)
Put(d, k, v, given) == [prime |-> [d.prime EXCEPT ![k] = v],
                        expire |-> [d.expire EXCEPT ![k] = given]]

(* Key k gets value v and keeps its deadline. *)
Update(d, k, v) == [d EXCEPT !.prime[k] = v]

-----------------------------------------------------------------------------
Lookup(i, k) ==
  LET d == dbs[i]
      v == d.prime[k]
  IN  \/ Saw("GET", i, {k}, StringReply(v))
      \/ Saw("STRLEN", i, {k}, IF v = Absent THEN IntReply(0) ELSE StringReply(v))
      \/ Saw("TYPE", i, {k}, Bulk(v))
      \/ Saw("PTTL", i, {k}, IntReply(IF v = Absent THEN -2
                                      ELSE IF d.expire[k] = NoDeadline THEN -1
                                      ELSE d.expire[k] - now))

LookupMany(i, K) ==
  \/ Saw("MGET", i, K, ValueList([k \in K |-> IF is_string(dbs[i].prime[k])
                                              THEN Bulk(dbs[i].prime[k]) ELSE Nil]))
  \/ Saw("EXISTS", i, K, IntReply(Cardinality(K \cap Present(dbs[i]))))
  \/ Saw("KEYS", i, K, KeyList(K \cap Present(dbs[i])))

(* Commands that fail, or find nothing to do. *)
Refuse(i, k) ==
  LET v == dbs[i].prime[k]
      Refused(cmds, r) == \E cmd \in cmds : Saw(cmd, i, {k}, r)
  IN  \/ Refused({"SET", "SETEX", "GETEX", "INCRBY", "DECRBY", "INCRBYFLOAT"}, Err)
      \/ v = List /\ Refused({"SET", "GETSET", "GETDEL", "GETEX", "APPEND"}, WrongType)
      \/ is_string(v) /\ Refused({"LPUSH", "LPOP"}, WrongType)
      \/ v = Absent /\ Refused({"GETDEL", "GETEX", "LPOP"}, Nil)
      \/ v = Absent /\ Refused({"EXPIRE", "EXPIREAT"}, IntReply(0))
      \/ v # Absent /\ Refused({"SETNX"}, IntReply(0))
      \/ dbs[i].expire[k] = NoDeadline /\ Refused({"PERSIST"}, IntReply(0))

(* SET, with the outcome its flags ask for. *)
Set(i, k, v, flags, e) ==
  LET d == dbs[i]
      exists == Contains(d, k)
      old == StringReply(d.prime[k])
      given == IF e = NoExpiry THEN NoDeadline ELSE Deadline(e)
      deadline == IF e = NoExpiry /\ "KEEPTTL" \in flags THEN d.expire[k] ELSE given
      allowed == ("NX" \in flags => ~exists) /\ ("XX" \in flags => exists)
  IN  /\ ~ {"NX", "XX"} \subseteq flags
      /\ "GET" \in flags => old # WrongType
      /\ Did("SET", i, {k}, IF allowed THEN given ELSE NoDeadline,
             IF allowed THEN Put(d, k, v, deadline) ELSE d,
             CASE "GET" \in flags -> old
               [] "GET" \notin flags /\ allowed -> Ok
               [] OTHER -> Nil)

Write(i, k, v) ==
  LET d == dbs[i]
      old == d.prime[k]
  IN  \/ old = Absent /\ Did("SETNX", i, {k}, NoDeadline, Put(d, k, v, NoDeadline), IntReply(1))
      \/ \E n \in Ttls, unit \in Units :
           /\ n > 0
           /\ LET given == RelativeDeadline(now, n, unit)
              IN  Did("SETEX", i, {k}, given, Put(d, k, v, given), Ok)
      \/ old # List /\ Did("GETSET", i, {k}, NoDeadline, Put(d, k, v, NoDeadline), StringReply(old))
      \/ old # List /\ \E cmd \in {"APPEND", "INCRBYFLOAT"} :
           Did(cmd, i, {k}, NoDeadline, Update(d, k, v), Bulk(v))

(* A counter command answers with the value it stored.  Whether that is    *)
(* the exact sum is not promised: DECRBY by the least i64 wraps.           *)
Count(i, k, new) ==
  /\ as_integer(dbs[i].prime[k]) \in Integers64 \cup {Absent}
  /\ \E cmd \in {"INCRBY", "DECRBY"} :
       Did(cmd, i, {k}, NoDeadline, Update(dbs[i], k, new), IntReply(new))

Collection(i, k) ==
  LET d == dbs[i]
  IN  \/ d.prime[k] \in {Absent, List}
         /\ Did("LPUSH", i, {k}, NoDeadline, Update(d, k, List), Bulk(List))
      \/ d.prime[k] = List
         /\ \E rest \in {d, del(d, k)} : Did("LPOP", i, {k}, NoDeadline, rest, Bulk(List))

(* Commands that take the value or move the deadline of a key that exists. *)
Touch(i, k) ==
  LET d == dbs[i]
      v == d.prime[k]
      NewDeadline(cmd, given, r) == Did(cmd, i, {k}, given, Put(d, k, v, given), r)
  IN  \/ is_string(v) /\ Did("GETDEL", i, {k}, NoDeadline, del(d, k), Bulk(v))
      \/ is_string(v) /\ Saw("GETEX", i, {k}, Bulk(v))
      \/ is_string(v) /\ NewDeadline("GETEX", NoDeadline, Bulk(v))
      \/ is_string(v) /\ \E e \in Expiries : NewDeadline("GETEX", Deadline(e), Bulk(v))
      \/ d.expire[k] # NoDeadline /\ NewDeadline("PERSIST", NoDeadline, IntReply(1))
      \/ v # Absent /\ \E cmd \in {"EXPIRE", "EXPIREAT"} :
           Did(cmd, i, {k}, NoDeadline, del(d, k), IntReply(1))
      \/ v # Absent /\ \E n \in Ttls, unit \in Units :
           \/ n > 0 /\ NewDeadline("EXPIRE", RelativeDeadline(now, n, unit), IntReply(1))
           \/ NewDeadline("EXPIREAT", AbsoluteDeadline(n, unit), IntReply(1))

Move(i, from, to) ==
  LET d == dbs[i]
      exists == Contains(d, from)
  IN  \/ exists /\ Did("RENAME", i, {from, to}, d.expire[from], rename(d, from, to), Ok)
      \/ ~exists /\ Saw("RENAME", i, {from, to}, Err)
      \/ ~exists /\ Saw("RENAMENX", i, {from, to}, Err)
      \/ exists /\ Contains(d, to) /\ Saw("RENAMENX", i, {from, to}, IntReply(0))
      \/ exists /\ ~Contains(d, to)
         /\ Did("RENAMENX", i, {from, to}, d.expire[from], rename(d, from, to), IntReply(1))

(* RENAME of a key that is gone, but still lingers in the tables. *)
StaleRename(i, from, to) ==
  /\ ~Contains(dbs[i], from)
  /\ \E given \in 0 .. now : Did("RENAME", i, {from, to}, given, del(dbs[i], to), Ok)

WriteMany(i, pairs) ==
  LET d == dbs[i]
      K == DOMAIN pairs
      new == [prime |-> [k \in Keys |-> IF k \in K THEN pairs[k] ELSE d.prime[k]],
              expire |-> [k \in Keys |-> IF k \in K THEN NoDeadline ELSE d.expire[k]]]
      free == \A k \in K : ~Contains(d, k)
  IN  \/ Did("MSET", i, K, NoDeadline, new, Ok)
      \/ free /\ Did("MSETNX", i, K, NoDeadline, new, IntReply(1))
      \/ ~free /\ Saw("MSETNX", i, K, IntReply(0))

(* The keys of K that exist and some of those that may have lingered. *)
Lingering(i, K) == {S \in SUBSET K : K \cap Present(dbs[i]) \subseteq S}

StaleCount(i, K) ==
  \E S \in Lingering(i, K) : Did("DEL", i, K, NoDeadline, Remove(dbs[i], K), IntReply(Cardinality(S)))

StaleSize(i) ==
  \E S \in Lingering(i, Keys) : Saw("DBSIZE", i, {}, IntReply(Cardinality(S)))

(* Some key, which may have lingered; none only if there is none. *)
StaleKey(i) ==
  \/ \E k \in Keys : Saw("RANDOMKEY", i, {}, KeyList({k}))
  \/ Present(dbs[i]) = {} /\ Saw("RANDOMKEY", i, {}, KeyList({}))

(* Some keys, any of which may have lingered, or an error. *)
StaleScan(i) ==
  \/ \E S \in SUBSET Keys : Saw("SCAN", i, {}, KeyList(S))
  \/ Saw("SCAN", i, {}, Err)

Flush(i) ==
  /\ \/ /\ last' = [cmd |-> "FLUSHDB", db |-> i, keys |-> Keys, given |-> NoDeadline, reply |-> Ok]
        /\ dbs' = [dbs EXCEPT ![i] = EmptyTable]
     \/ /\ last' = [cmd |-> "FLUSHALL", db |-> i, keys |-> Keys, given |-> NoDeadline, reply |-> Ok]
        /\ dbs' = [j \in Dbs |-> EmptyTable]
  /\ UNCHANGED now

-----------------------------------------------------------------------------
Next ==
  \/ Advance
  \/ \E i \in Dbs :
       \/ \E k \in Keys :
            \/ Lookup(i, k) \/ Refuse(i, k) \/ Collection(i, k) \/ Touch(i, k)
            \/ \E v \in StringValues :
                 \/ Write(i, k, v)
                 \/ \E flags \in SetFlags, e \in Expiries \cup {NoExpiry} : Set(i, k, v, flags, e)
            \/ \E new \in Integers64 : Count(i, k, new)
            \/ \E to \in Keys : Move(i, k, to) \/ StaleRename(i, k, to)
       \/ \E K \in SUBSET Keys \ {{}} : LookupMany(i, K) \/ StaleCount(i, K)
       \/ \E K \in SUBSET Keys \ {{}} : \E pairs \in [K -> StringValues] : WriteMany(i, pairs)
       \/ StaleSize(i) \/ StaleKey(i) \/ StaleScan(i) \/ Flush(i) \/ Saw("reject", i, {}, Err)

Spec == Init /\ [][Next]_vars
=============================================================================
