---------------------------- MODULE Collections ------------------------------
(***************************************************************************)
(* Lists, sets, hashes and sorted sets: the commands of list_family.rs,    *)
(* set_family.rs, hash_family.rs and zset_family.rs on the keys of one     *)
(* database.  A handler runs to its end on the thread of its shard, so     *)
(* that each command is one action.  cmd_x(v, ...) is what the handler of  *)
(* X does with the value v of its key: the value it leaves and the reply.  *)
(* Commands that only read are those of module CollectionReads.            *)
(* An increment or a score that does not parse ends a handler before it    *)
(* looks at its key, which is shown where scores come in pairs; an index,  *)
(* a count or a bound that does not parse stands for a default.            *)
(*                                                                         *)
(* Elements and members are numbers, in the order of their bytes.  A       *)
(* number kept as text is written in halves: 3 stands for "1.5", 4 for     *)
(* "2".  What happens inside a value is in module Containers.              *)
(***************************************************************************)
EXTENDS Containers, FiniteSetsExt

CONSTANTS
  DataKeys,   \* the keys
  MainKey,    \* bound: the key that gets commands which look at one key only
  Elems,      \* list elements, set members and hash fields
  Members,    \* members of sorted sets
  Numbers,    \* score and increment arguments, finite ones
  Indices,    \* index and count arguments
  IntBits,    \* width of i64
  MaxList,    \* bound on the length of a list
  MaxFloat,   \* bound on |text numbers|, in halves
  MaxScore,   \* bound on |finite scores|
  MaxEntries  \* bound on the entries of a sorted set that NaN has put out of step

(* Elements of sorted sets, scores and indices are numbers, and there are  *)
(* finitely many members.                                                  *)
ASSUME CollectionsAssumption ==
  /\ Members \subseteq Int /\ Numbers \subseteq Int /\ Indices \subseteq Int
  /\ Cardinality(Members) \in Nat

VARIABLES
  db,     \* the value of each key
  nanned  \* (history) keys whose sorted set got a NaN score

colvars == <<db, nanned>>

-----------------------------------------------------------------------------
(* Values and replies. *)

Gone == [type |-> "none"]
Text == [type |-> "string"]
List(l) == [type |-> "list", list |-> l]
SetOf(s) == [type |-> "set", set |-> s]
Hash(m) == [type |-> "hash", map |-> m]

IsEmpty(v) ==
  \/ v.type = "list" /\ v.list = <<>>
  \/ v.type = "set" /\ v.set = {}
  \/ v.type = "hash" /\ DOMAIN v.map = {}
  \/ v.type = "zset" /\ DOMAIN v.members = {}

IntReply(n) == <<"int", n>>
Bulk(x) == <<"bulk", x>>
Array(s) == <<"array", s>>
Ok == <<"ok">>
Nil == <<"nil">>
Err == <<"err">>
WrongType == <<"wrongtype">>

Res(v, r) == [value |-> v, reply |-> r]

(* db_slice.del once the collection is empty. *)
Kept(v) == IF IsEmpty(v) THEN Gone ELSE v

(* The match on the value found: absent, of the handler's type, or other. *)
Typed(v, type, absent, found) ==
  CASE v.type = "none" -> absent
    [] v.type = type -> found
    [] OTHER -> Res(v, WrongType)

-----------------------------------------------------------------------------
(* Lists. *)

cmd_lpush(v, xs) ==
  LET push(l) == LET new == Backwards(xs) \o l IN Res(List(new), IntReply(Len(new)))
  IN  Typed(v, "list", push(<<>>), push(v.list))

cmd_rpush(v, xs) ==
  LET push(l) == LET new == l \o xs IN Res(List(new), IntReply(Len(new)))
  IN  Typed(v, "list", push(<<>>), push(v.list))

(* How many elements a pop takes: one without a count argument, at most    *)
(* all, and none when the count is negative.                               *)
Taken(l, single, count) == Min({Len(l), IF single THEN 1 ELSE Max({count, 0})})

Popped(xs, single) ==
  CASE ~single -> Array(xs)
    [] single /\ xs = <<>> -> Nil
    [] OTHER -> Bulk(xs[1])

cmd_lpop(v, single, count) ==
  LET pop(l) == LET n == Taken(l, single, count)
                IN  Res(Kept(List(SubSeq(l, n + 1, Len(l)))), Popped(SubSeq(l, 1, n), single))
  IN  Typed(v, "list", Res(v, Nil), pop(v.list))

cmd_rpop(v, single, count) ==
  LET pop(l) == LET n == Taken(l, single, count)
                    out == Backwards(SubSeq(l, Len(l) - n + 1, Len(l)))
                IN  Res(Kept(List(SubSeq(l, 1, Len(l) - n))), Popped(out, single))
  IN  Typed(v, "list", Res(v, Nil), pop(v.list))

(* Mutant: the last index is left out. *)
Slice_exclusive(l, start, stop) ==
  LET s == IF start < 0 THEN Max({Len(l) + start, 0}) ELSE Min({start, Len(l)})
      e == IF stop < 0 THEN Max({Len(l) + stop, 0}) ELSE Min({stop, Len(l) - 1})
  IN  IF s > e \/ s >= Len(l) THEN <<>> ELSE SubSeq(l, s + 1, e)

(* The range that LRANGE, LTRIM and ZRANGE compute, each for itself. *)
Slice(l, start, stop) ==
  LET s == IF start < 0 THEN Max({Len(l) + start, 0}) ELSE Min({start, Len(l)})
      e == IF stop < 0 THEN Max({Len(l) + stop, 0}) ELSE Min({stop, Len(l) - 1})
  IN  IF s > e \/ s >= Len(l) THEN <<>> ELSE SubSeq(l, s + 1, e + 1)

cmd_ltrim(v, start, stop) ==
  Typed(v, "list", Res(v, Ok), Res(Kept(List(Slice(v.list, start, stop))), Ok))

(* The place of an index; a sum below zero wraps to no place at all. *)
At(l, idx) == IF idx < 0 THEN Len(l) + idx + 1 ELSE idx + 1

cmd_lset(v, idx, x) ==
  Typed(v, "list", Res(v, Err),
        IF At(v.list, idx) \in DOMAIN v.list
        THEN Res(List([v.list EXCEPT ![At(v.list, idx)] = x]), Ok) ELSE Res(v, Err))

cmd_lrem(v, count, x) ==
  LET rem(l) == LET max == IF count = 0 THEN Len(l) ELSE Max({count, -count})
                    new == IF count >= 0 THEN RemoveFromHead(l, x, max) ELSE RemoveFromTail(l, x, max)
                IN  Res(Kept(List(new)), IntReply(Len(l) - Len(new)))
  IN  Typed(v, "list", Res(v, IntReply(0)), rem(v.list))

cmd_linsert(v, before, pivot, x) ==
  LET insert(l) ==
        LET at == Min({i \in DOMAIN l : l[i] = pivot})
        IN  IF pivot \notin Range(l) THEN Res(List(l), IntReply(-1))
            ELSE Res(List(insert_at(l, IF before THEN at ELSE at + 1, x)), IntReply(Len(l) + 1))
  IN  Typed(v, "list", Res(v, IntReply(0)), insert(v.list))

-----------------------------------------------------------------------------
(* Sets. *)

cmd_sadd(v, xs) ==
  LET add(s) == Res(SetOf(s \cup Range(xs)), IntReply(Cardinality(Range(xs) \ s)))
  IN  Typed(v, "set", add({}), add(v.set))

cmd_srem(v, xs) ==
  Typed(v, "set", Res(v, IntReply(0)),
        Res(Kept(SetOf(v.set \ Range(xs))), IntReply(Cardinality(v.set \cap Range(xs)))))

(* SPOP takes the member it finds first in the hash set; SRANDMEMBER shows *)
(* the same one.                                                           *)
cmd_spop(v, m) ==
  Typed(v, "set", Res(v, Nil),
        IF m \in v.set THEN Res(Kept(SetOf(v.set \ {m})), Bulk(m)) ELSE Res(v, Nil))

-----------------------------------------------------------------------------
(* Hashes.  A value is a number in halves, or Word: text that is no number. *)

Word == 1000
IntMax == 2 ^ (IntBits - 1) - 1
i64(n) == ((n + IntMax + 1) % 2 ^ IntBits) - (IntMax + 1)
parse_i64(x) == IF x # Word /\ x % 2 = 0 /\ i64(x \div 2) = x \div 2 THEN x \div 2 ELSE 0
parse_f64(x) == IF x = Word THEN 0 ELSE x

Lookup(m, f, default) == IF f \in DOMAIN m THEN m[f] ELSE default

(* An odd number of arguments after the key (FALSE) is an error. *)
cmd_hset(v, even, pairs) ==
  LET set(m) == LET new == Insert(m, pairs)
                IN  Res(Hash(new), IntReply(Cardinality(DOMAIN new \ DOMAIN m)))
  IN  IF ~even THEN Res(v, Err) ELSE Typed(v, "hash", set(<<>>), set(v.map))

cmd_hmset(v, even, pairs) ==
  IF ~even THEN Res(v, Err)
  ELSE Typed(v, "hash", Res(Hash(Insert(<<>>, pairs)), Ok), Res(Hash(Insert(v.map, pairs)), Ok))

cmd_hsetnx(v, f, x) ==
  Typed(v, "hash", Res(Hash(With(<<>>, f, x)), IntReply(1)),
        IF f \in DOMAIN v.map THEN Res(v, IntReply(0))
        ELSE Res(Hash(Insert(v.map, <<<<f, x>>>>)), IntReply(1)))

(* Mutant: the hash stays when its last field goes. *)
cmd_hdel_keeps_empty(v, fs) ==
  Typed(v, "hash", Res(v, IntReply(0)),
        Res(Hash([f \in DOMAIN v.map \ Range(fs) |-> v.map[f]]),
            IntReply(Cardinality(DOMAIN v.map \cap Range(fs)))))

cmd_hdel(v, fs) ==
  Typed(v, "hash", Res(v, IntReply(0)),
        Res(Kept(Hash([f \in DOMAIN v.map \ Range(fs) |-> v.map[f]])),
            IntReply(Cardinality(DOMAIN v.map \cap Range(fs)))))

(* Mutant: the new number is not stored in the field. *)
cmd_hincrby_unstored(v, f, delta) ==
  LET incr(m) == LET n == i64(parse_i64(Lookup(m, f, 0)) + delta)
                 IN  Res(Hash(Insert(m, <<<<f, 2 * delta>>>>)), IntReply(n))
  IN  Typed(v, "hash", incr(<<>>), incr(v.map))

(* A field that is no integer counts as 0; the sum wraps. *)
cmd_hincrby(v, f, delta) ==
  LET incr(m) == LET n == i64(parse_i64(Lookup(m, f, 0)) + delta)
                 IN  Res(Hash(Insert(m, <<<<f, 2 * n>>>>)), IntReply(n))
  IN  Typed(v, "hash", incr(<<>>), incr(v.map))

(* A number without a fraction is written without a point. *)
cmd_hincrbyfloat(v, f, delta) ==
  LET incr(m) == LET x == parse_f64(Lookup(m, f, 0)) + delta
                 IN  Res(Hash(Insert(m, <<<<f, x>>>>)), Bulk(x))
  IN  Typed(v, "hash", incr(<<>>), incr(v.map))

-----------------------------------------------------------------------------
(* Sorted sets. *)

Unparsed == 102  \* a score argument that is no number
Finite(x) == x \in -MaxScore .. MaxScore

(* Score-member pairs; one score that does not parse refuses them all. *)
cmd_zadd(v, pairs) ==
  LET add(z) == LET new == add_pairs(z, pairs)
                IN  Res(new, IntReply(Cardinality(DOMAIN new.members \ DOMAIN z.members)))
  IN  IF \E p \in Range(pairs) : p[1] = Unparsed THEN Res(v, Err)
      ELSE Typed(v, "zset", add(new_zset), add(v))

cmd_zincrby(v, delta, m) ==
  LET incr(z) == LET s == Sum(Lookup(z.members, m, 0), delta) IN Res(zset_add(z, m, s), Bulk(s))
  IN  Typed(v, "zset", Res(zset_add(new_zset, m, delta), Bulk(delta)), incr(v))

cmd_zrem(v, ms) ==
  LET rem(z) == LET new == remove_all(z, ms)
                IN  Res(Kept(new), IntReply(Cardinality(DOMAIN z.members \ DOMAIN new.members)))
  IN  Typed(v, "zset", Res(v, IntReply(0)), rem(v))

(* ZPOPMIN, and ZPOPMAX with rev. *)
zpop_impl(v, count, rev) ==
  LET pop(z) == LET end == pop_entries(z, count, rev) IN Res(Kept(end.z), Array(end.popped))
  IN  Typed(v, "zset", Res(v, Array(<<>>)), pop(v))

-----------------------------------------------------------------------------
(* The commands as they come in. *)

ColInit == db = [k \in DataKeys |-> Gone] /\ nanned = {}

OneOrTwo(S) == {<<x>> : x \in S} \cup S \X S
Scores == Numbers \cup {Inf, -Inf, NaN}
Fields == Elems
ScorePairs ==
  {<<p>> : p \in Scores \X Members} \cup (Scores \X Members) \X ((Numbers \cup {Unparsed}) \X Members)
FieldValues == {Word} \cup {2 * n : n \in Numbers}
Len0(k) == IF db[k].type = "list" THEN Len(db[k].list) ELSE 0

Leaves(k, v, nan) ==
  /\ db' = [db EXCEPT ![k] = v]
  /\ nanned' = CASE nan -> nanned \cup {k}
                 [] ~nan /\ v.type # "zset" -> nanned \ {k}
                 [] OTHER -> nanned
Run(k, res) == Leaves(k, res.value, FALSE)

(* Handlers but those of set operations look at one key only, so that one  *)
(* key is enough for them and other keys need no value beside it.          *)
Alone(k) == k = MainKey /\ \A j \in DataKeys \ {k} : db[j] = Gone
AmongSets(k) == \A j \in DataKeys \ {k} : db[j].type \in {"none", "string", "set"}

(* SET, and the end of a key: DEL, expiry, FLUSHDB. *)
KeyCommand(k) ==
  \/ AmongSets(k) /\ Leaves(k, Text, FALSE)
  \/ Leaves(k, Gone, FALSE)

ListCommand(k) ==
  /\ Alone(k)
  /\ \/ \E xs \in OneOrTwo(Elems) :
          /\ Len0(k) + Len(xs) <= MaxList
          /\ Run(k, cmd_lpush(db[k], xs)) \/ Run(k, cmd_rpush(db[k], xs))
     \/ \E single \in BOOLEAN, n \in Indices :
          Run(k, cmd_lpop(db[k], single, n)) \/ Run(k, cmd_rpop(db[k], single, n))
     \/ \E i, j \in Indices : Run(k, cmd_ltrim(db[k], i, j))
     \/ \E i \in Indices, x \in Elems :
          Run(k, cmd_lset(db[k], i, x)) \/ Run(k, cmd_lrem(db[k], i, x))
     \/ \E before \in BOOLEAN, p, x \in Elems :
          Len0(k) < MaxList /\ Run(k, cmd_linsert(db[k], before, p, x))

SetCommand(k) ==
  /\ AmongSets(k)
  /\ \/ \E xs \in OneOrTwo(Elems) : Run(k, cmd_sadd(db[k], xs)) \/ Run(k, cmd_srem(db[k], xs))
     \/ \E m \in Elems : (db[k].type = "set" => m \in db[k].set) /\ Run(k, cmd_spop(db[k], m))

HashCommand(k) ==
  /\ Alone(k)
  /\ \/ \E even \in BOOLEAN, pairs \in OneOrTwo(Fields \X FieldValues) :
          Run(k, cmd_hset(db[k], even, pairs)) \/ Run(k, cmd_hmset(db[k], even, pairs))
     \/ \E f \in Fields, x \in FieldValues : Run(k, cmd_hsetnx(db[k], f, x))
     \/ \E fs \in OneOrTwo(Fields) : Run(k, cmd_hdel(db[k], fs))
     \/ \E f \in Fields, n \in Numbers : Run(k, cmd_hincrby(db[k], f, n))
     \/ \E f \in Fields, n \in Numbers :
          LET r == cmd_hincrbyfloat(db[k], f, n)
          IN  (r.reply[1] = "bulk" => r.reply[2] \in -MaxFloat .. MaxFloat) /\ Run(k, r)

ZSetCommand(k) ==
  /\ Alone(k)
  /\ k \in nanned => Len(db[k].scores) <= MaxEntries
  /\ \/ \E pairs \in ScorePairs :
          LET r == cmd_zadd(db[k], pairs)
          IN  Leaves(k, r.value, r.reply[1] = "int" /\ NaN \in {p[1] : p \in Range(pairs)})
     \/ \E d \in Scores, m \in Members :
          LET r == cmd_zincrby(db[k], d, m)
          IN  /\ r.reply[1] = "bulk" => Finite(r.reply[2]) \/ r.reply[2] \in Scores
              /\ Leaves(k, r.value, r.reply = Bulk(NaN))
     \/ \E ms \in OneOrTwo(Members) : Run(k, cmd_zrem(db[k], ms))
     \/ \E n \in 0 .. Cardinality(Members), rev \in BOOLEAN : Run(k, zpop_impl(db[k], n, rev))

ColNext ==
  \E k \in DataKeys :
    KeyCommand(k) \/ ListCommand(k) \/ SetCommand(k) \/ HashCommand(k) \/ ZSetCommand(k)

ColSpec == ColInit /\ [][ColNext]_colvars

-----------------------------------------------------------------------------
(* Properties. *)

(* A collection without elements does not exist: whatever commands took    *)
(* the last one, the key went with it.                                     *)
NoEmptyCollection == \A k \in DataKeys : ~IsEmpty(db[k])

(* The two maps of a sorted set hold the same members with the same        *)
(* scores, and the entries are in order, as long as no score is NaN.       *)
ZSetInStep ==
  \A k \in DataKeys \ nanned :
    db[k].type = "zset" => InStep(db[k])
=============================================================================
