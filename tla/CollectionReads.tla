--------------------------- MODULE CollectionReads ----------------------------
(***************************************************************************)
(* The commands of list_family.rs, set_family.rs, hash_family.rs and       *)
(* zset_family.rs that only read, and what has to agree between what they  *)
(* show and what the commands of Collections do.                           *)
(***************************************************************************)
EXTENDS Collections

LOCAL INSTANCE SequencesExt

CONSTANT
  home  \* the shard of each key

-----------------------------------------------------------------------------
(* Lists. *)

cmd_llen(v) == Typed(v, "list", Res(v, IntReply(0)), Res(v, IntReply(Len(v.list))))

cmd_lrange(v, start, stop) ==
  Typed(v, "list", Res(v, Array(<<>>)), Res(v, Array(Slice(v.list, start, stop))))

cmd_lindex(v, idx) ==
  Typed(v, "list", Res(v, Nil),
        Res(v, IF At(v.list, idx) \in DOMAIN v.list THEN Bulk(v.list[At(v.list, idx)]) ELSE Nil))

-----------------------------------------------------------------------------
(* Sets. *)

cmd_smembers(v) == Typed(v, "set", Res(v, Array({})), Res(v, Array(v.set)))
cmd_scard(v) == Typed(v, "set", Res(v, IntReply(0)), Res(v, IntReply(Cardinality(v.set))))

(* SISMEMBER; SMISMEMBER asks for several members. *)
cmd_sismember(v, m) ==
  Typed(v, "set", Res(v, IntReply(0)), Res(v, IntReply(IF m \in v.set THEN 1 ELSE 0)))

(* What a command on the shard of key k0 finds under key k: the keys of    *)
(* other shards are not in its database.                                   *)
FindAt(k0, k) == IF home[k] = home[k0] THEN db[k] ELSE Gone

(* Mutant: a key that is absent is skipped instead of being an empty set. *)
Operands_skip_absent(ks) ==
  LET there == SelectSeq(ks, LAMBDA k : FindAt(ks[1], k) # Gone)
  IN  [i \in DOMAIN there |-> FindAt(ks[1], there[i]).set]

Operands(ks) ==
  [i \in DOMAIN ks |-> LET v == FindAt(ks[1], ks[i]) IN IF v = Gone THEN {} ELSE v.set]

(* SINTER, SUNION and SDIFF run on the shard of their first key. *)
set_op(op, ks) ==
  LET combine(a, b) == CASE op = "inter" -> a \cap b [] op = "union" -> a \cup b [] op = "diff" -> a \ b
  IN  CASE \E k \in Range(ks) : FindAt(ks[1], k).type \notin {"none", "set"} -> WrongType
        [] Operands(ks) = <<>> -> Array({})
        [] OTHER -> Array(FoldLeft(combine, Head(Operands(ks)), Tail(Operands(ks))))

cmd_sinter(ks) == set_op("inter", ks)
cmd_sunion(ks) == set_op("union", ks)
cmd_sdiff(ks) == set_op("diff", ks)

-----------------------------------------------------------------------------
(* Hashes. *)

cmd_hget(v, f) ==
  Typed(v, "hash", Res(v, Nil),
        Res(v, IF f \in DOMAIN v.map THEN Bulk(v.map[f]) ELSE Nil))
cmd_hexists(v, f) ==
  Typed(v, "hash", Res(v, IntReply(0)), Res(v, IntReply(IF f \in DOMAIN v.map THEN 1 ELSE 0)))
cmd_hmget(v, fs) ==
  Res(v, IF v.type \in {"none", "hash"} THEN Array([i \in DOMAIN fs |-> cmd_hget(v, fs[i]).reply]) ELSE WrongType)

(* HGETALL; HKEYS, HVALS and HLEN show parts of the same map. *)
cmd_hgetall(v) == Typed(v, "hash", Res(v, Array(<<>>)), Res(v, Array(v.map)))

-----------------------------------------------------------------------------
(* Sorted sets. *)

(* ZSCORE, and ZMSCORE of several members, look at the members and ZCARD   *)
(* counts them; ZRANGE reads the scores.                                   *)
cmd_zscore(v, m) ==
  Typed(v, "zset", Res(v, Nil),
        Res(v, IF m \in DOMAIN v.members THEN Bulk(v.members[m]) ELSE Nil))
cmd_zcard(v) ==
  Typed(v, "zset", Res(v, IntReply(0)), Res(v, IntReply(Cardinality(DOMAIN v.members))))
cmd_zrange(v, start, stop) ==
  Typed(v, "zset", Res(v, Array(<<>>)), Res(v, Array(Slice(v.scores, start, stop))))

(* ZRANK, and ZREVRANK with rev: how many entries come before the member's. *)
zrank_impl(v, m, rev) ==
  LET rank(z) ==
        LET in == IF rev THEN Reverse(z.scores) ELSE z.scores
            same == {i \in DOMAIN in : eq(in[i], Entry(z.members[m], m))}
        IN  IF m \notin DOMAIN z.members THEN Res(z, Nil)
            ELSE Res(z, IntReply(Min(same \cup {Len(in) + 1}) - 1))
  IN  Typed(v, "zset", Res(v, Nil), rank(v))

(* A bound that does not parse is the default; "(" is read and forgotten. *)
parse_score_bound(b, default) == IF b.score = Unparsed THEN default ELSE b.score

InBounds(z, min, max) ==
  SelectSeq(z.scores, LAMBDA e : /\ e.score # NaN
                                 /\ e.score >= parse_score_bound(min, -Inf)
                                 /\ e.score <= parse_score_bound(max, Inf))
cmd_zrangebyscore(v, min, max) ==
  Typed(v, "zset", Res(v, Array(<<>>)), Res(v, Array(InBounds(v, min, max))))
cmd_zcount(v, min, max) ==
  Typed(v, "zset", Res(v, IntReply(0)), Res(v, IntReply(Len(InBounds(v, min, max)))))

-----------------------------------------------------------------------------
(* Properties. *)

(* The elements of l at the places in P, in their order. *)
Pick(l, P) == LET at == SetToSortSeq(P, <) IN [i \in DOMAIN at |-> l[at[i]]]

(* The places that a range names.  A stop before the first element is      *)
(* taken for the first element.                                            *)
Places(l, i, j) ==
  LET first == IF i < 0 THEN Len(l) + i ELSE i
      last == IF j < -Len(l) THEN 0 ELSE IF j < 0 THEN Len(l) + j ELSE j
  IN  {p \in DOMAIN l : first <= p - 1 /\ p - 1 <= last}

(* LRANGE and ZRANGE return the elements whose index, from either end,     *)
(* lies between start and stop; LTRIM keeps what LRANGE would return.      *)
RangesExact ==
  \A k \in DataKeys :
    LET v == db[k]
    IN  /\ v.type = "list" => \A i, j \in Indices :
             LET wanted == Pick(v.list, Places(v.list, i, j))
             IN  /\ cmd_lrange(v, i, j).reply = Array(wanted)
                 /\ cmd_ltrim(v, i, j).value = IF wanted = <<>> THEN Gone ELSE List(wanted)
        /\ v.type = "zset" => \A i, j \in Indices :
             cmd_zrange(v, i, j).reply = Array(Pick(v.scores, Places(v.scores, i, j)))

(* LREM removes the first occurrences, the last ones when the count is     *)
(* negative, all when it is 0, and no other element; it counts them.       *)
(* LINSERT puts one element next to the first pivot.                       *)
ListEditsExact ==
  \A k \in DataKeys :
    db[k].type = "list" => \A n \in Indices, x, y \in Elems :
      LET l == db[k].list
          same == {i \in DOMAIN l : l[i] = x}
          out == {i \in same : \/ n = 0
                               \/ n > 0 /\ Cardinality({j \in same : j <= i}) <= n
                               \/ n < 0 /\ Cardinality({j \in same : j >= i}) <= -n}
          rem == cmd_lrem(db[k], n, x)
          ins(before) == cmd_linsert(db[k], before, x, y)
      IN  /\ rem.reply = IntReply(Cardinality(out))
          /\ rem.value = IF out = DOMAIN l THEN Gone ELSE List(Pick(l, DOMAIN l \ out))
          /\ same # {} => \A before \in BOOLEAN :
               LET p == IF before THEN Min(same) ELSE Min(same) + 1
               IN  /\ cmd_lindex(ins(before).value, p - 1).reply = Bulk(y)
                   /\ ins(before).reply = cmd_llen(ins(before).value).reply
                   /\ Pick(ins(before).value.list, DOMAIN ins(before).value.list \ {p}) = l

(* Set operations on keys of one shard compute intersection, union and     *)
(* difference, an absent key being the empty set.  (Keys of other shards   *)
(* are taken for absent.)                                                  *)
SetOpsExact ==
  (\E k \in DataKeys : db[k].type = "set") =>
  \A ks \in OneOrTwo(DataKeys) \cup DataKeys \X DataKeys \X DataKeys :
    (\A i \in DOMAIN ks : home[ks[i]] = home[ks[1]] /\ db[ks[i]].type \in {"none", "set"})
    => LET in(i, x) == cmd_sismember(db[ks[i]], x).reply = IntReply(1)
       IN  /\ cmd_smembers(db[ks[1]]).reply = cmd_sunion(<<ks[1]>>)
           /\ cmd_scard(db[ks[1]]).reply = IntReply(Cardinality(cmd_sunion(<<ks[1]>>)[2]))
           /\ cmd_sinter(ks) = Array({x \in Elems : \A i \in DOMAIN ks : in(i, x)})
           /\ cmd_sunion(ks) = Array({x \in Elems : \E i \in DOMAIN ks : in(i, x)})
           /\ cmd_sdiff(ks) = Array({x \in Elems : in(1, x) /\ \A i \in 2 .. Len(ks) : ~in(i, x)})

(* HINCRBY stores what it answers, touches no other field, and is exact    *)
(* for a field that holds an integer, or none, unless the sum leaves i64.  *)
CountersExact ==
  \A k \in DataKeys :
    db[k].type = "hash" => \A f \in Fields, n \in Numbers :
      LET r == cmd_hincrby(db[k], f, n)
          old == cmd_hmget(db[k], <<f>>).reply
      IN  /\ cmd_hgetall(r.value).reply = Array((f :> 2 * r.reply[2]) @@ cmd_hgetall(db[k]).reply[2])
          /\ cmd_hexists(db[k], f).reply = IntReply(0) => r.reply = IntReply(n)
          /\ \A m \in -IntMax - 1 .. IntMax :
               old = Array(<<Bulk(2 * m)>>) /\ m + n \in -IntMax - 1 .. IntMax => r.reply = IntReply(m + n)

(* What the commands say of a sorted set without NaN agrees: the rank of a *)
(* member is the number of members before it and its place in ZRANGE;      *)
(* ZPOPMIN and ZPOPMAX take the entries ZRANGE shows at its ends, and no   *)
(* others; ZRANGEBYSCORE shows and ZCOUNT counts the members between the   *)
(* bounds (an exclusive bound is read as an inclusive one).                *)
SortedViewsAgree ==
  \A k \in DataKeys \ nanned :
    db[k].type = "zset" =>
      LET z == db[k]
          all == cmd_zrange(z, 0, -1).reply[2]
          e(m) == Entry(cmd_zscore(z, m).reply[2], m)
          left(v) == cmd_zrange(v, 0, -1).reply[2]
      IN  /\ cmd_zcard(z).reply = IntReply(Len(all))
          /\ \A m \in DOMAIN z.members :
               LET r == Cardinality({x \in DOMAIN z.members : Before(e(x), e(m))})
               IN  /\ zrank_impl(z, m, FALSE).reply = IntReply(r)
                   /\ zrank_impl(z, m, TRUE).reply = IntReply(Len(all) - 1 - r)
                   /\ cmd_zrange(z, r, r).reply = Array(<<e(m)>>)
          /\ \A n \in 0 .. Cardinality(Members) :
               LET t == Min({n, Len(all)})
                   least == zpop_impl(z, n, FALSE)
                   most == zpop_impl(z, n, TRUE)
               IN  /\ least.reply[2] \o left(least.value) = all /\ Len(least.reply[2]) = t
                   /\ left(most.value) \o Reverse(most.reply[2]) = all /\ Len(most.reply[2]) = t
          /\ \A a, b \in Numbers \cup {Inf, -Inf, Unparsed} :
               LET low == IF a = Unparsed THEN -Inf ELSE a
                   high == IF b = Unparsed THEN Inf ELSE b
                   bound(x) == [exclusive |-> TRUE, score |-> x]
                   between == SelectSeq(all, LAMBDA x : low <= x.score /\ x.score <= high)
               IN  /\ cmd_zrangebyscore(z, bound(a), bound(b)).reply = Array(between)
                   /\ cmd_zcount(z, bound(a), bound(b)).reply = IntReply(Len(between))
=============================================================================
