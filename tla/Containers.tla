------------------------------ MODULE Containers ------------------------------
(***************************************************************************)
(* What the handlers of list_family.rs, hash_family.rs and zset_family.rs  *)
(* do inside a value: the loops over their arguments, a round at a time,   *)
(* and the two maps of a sorted set, from members to scores and a BTreeMap *)
(* of score-member entries, which each operation has to keep in step.      *)
(* Scores are numbers, the two infinities and NaN; members are numbers, in *)
(* the order of their bytes.  A BTreeMap of up to 11 entries is one node   *)
(* that is searched from its first entry on, which is how `scores` is kept *)
(* here.  A larger one finds the same place as long as its entries are in  *)
(* order.                                                                  *)
(***************************************************************************)
EXTENDS Integers, Sequences

(* A sequence with x in place i, one without its place i, and backwards. *)
insert_at(s, i, x) ==
  [j \in 1 .. Len(s) + 1 |-> IF j < i THEN s[j] ELSE IF j = i THEN x ELSE s[j - 1]]
remove_at(s, i) == [j \in 1 .. Len(s) - 1 |-> IF j < i THEN s[j] ELSE s[j + 1]]
Backwards(s) == [j \in 1 .. Len(s) |-> s[Len(s) + 1 - j]]

(* A map with x under k, and one without k. *)
With(map, k, x) == [y \in DOMAIN map \cup {k} |-> IF y = k THEN x ELSE map[y]]
Without(map, k) == [y \in DOMAIN map \ {k} |-> map[y]]

-----------------------------------------------------------------------------
(* Lists and hashes. *)

(* list.retain: the first max elements that are x go. *)
retain(acc, x, max, y) ==
  IF acc.removed < max /\ y = x THEN [kept |-> acc.kept, removed |-> acc.removed + 1]
  ELSE [kept |-> Append(acc.kept, y), removed |-> acc.removed]
RemoveFromHead(l, x, max) ==
  LET after[i \in 0 .. Len(l)] ==
        IF i = 0 THEN [kept |-> <<>>, removed |-> 0] ELSE retain(after[i - 1], x, max, l[i])
  IN  after[Len(l)].kept

(* The indices of the last max elements that are x, from the last one on. *)
note_index(at, l, x, max, i) == IF Len(at) < max /\ l[i] = x THEN Append(at, i) ELSE at
LastIndices(l, x, max) ==
  LET after[i \in 0 .. Len(l)] ==
        IF i = 0 THEN <<>> ELSE note_index(after[i - 1], l, x, max, Len(l) + 1 - i)
  IN  after[Len(l)]

(* Mutant: they are removed from the smallest on, and shift the others. *)
RemoveFromTail_ascending(l, x, max) ==
  LET at == Backwards(LastIndices(l, x, max))
      after[i \in 0 .. Len(at)] == IF i = 0 THEN l ELSE remove_at(after[i - 1], at[i])
  IN  after[Len(at)]

(* list.remove for each of them. *)
RemoveFromTail(l, x, max) ==
  LET at == LastIndices(l, x, max)
      after[i \in 0 .. Len(at)] == IF i = 0 THEN l ELSE remove_at(after[i - 1], at[i])
  IN  after[Len(at)]

(* map.insert for each field-value pair. *)
Insert(map, pairs) ==
  LET after[i \in 0 .. Len(pairs)] ==
        IF i = 0 THEN map ELSE With(after[i - 1], pairs[i][1], pairs[i][2])
  IN  after[Len(pairs)]

-----------------------------------------------------------------------------
(* Sorted sets. *)

Inf == 100
NaN == 101

Sum(x, y) ==
  CASE NaN \in {x, y} \/ {x, y} = {Inf, -Inf} -> NaN
    [] {x, y} \cap {Inf, -Inf} # {} -> CHOOSE z \in {x, y} : z \in {Inf, -Inf}
    [] OTHER -> x + y

ZSet(m, s) == [type |-> "zset", members |-> m, scores |-> s]
new_zset == ZSet(<<>>, <<>>)
Entry(s, m) == [score |-> s, member |-> m]

(* Mutant: entries of the same score compare equal. *)
cmp_by_score(a, b) == IF NaN \in {a.score, b.score} THEN 0 ELSE a.score - b.score

(* SortedSetEntry::cmp, by its sign: NaN is equal to every score. *)
cmp(a, b) ==
  LET c == IF NaN \in {a.score, b.score} THEN 0 ELSE a.score - b.score
  IN  IF c # 0 THEN c ELSE a.member - b.member

(* SortedSetEntry::eq: NaN is equal to no score. *)
eq(a, b) == a = b /\ a.score # NaN

(* BTreeMap: the first entry that is not less, insert and remove. *)
Search(scores, e) ==
  CHOOSE p \in 1 .. Len(scores) + 1 :
    /\ p = Len(scores) + 1 \/ cmp(e, scores[p]) <= 0
    /\ \A i \in 1 .. p - 1 : cmp(e, scores[i]) > 0
Found(scores, e) == Search(scores, e) \in DOMAIN scores /\ cmp(e, scores[Search(scores, e)]) = 0
MapInsert(scores, e) == IF Found(scores, e) THEN scores ELSE insert_at(scores, Search(scores, e), e)
MapRemove(scores, e) == IF Found(scores, e) THEN remove_at(scores, Search(scores, e)) ELSE scores

(* Mutant: the entry under the old score stays. *)
zset_add_keeps_old(z, m, s) == ZSet(With(z.members, m, s), MapInsert(z.scores, Entry(s, m)))

zset_add(z, m, s) ==
  LET old == IF m \in DOMAIN z.members THEN MapRemove(z.scores, Entry(z.members[m], m)) ELSE z.scores
  IN  ZSet(With(z.members, m, s), MapInsert(old, Entry(s, m)))

zset_remove(z, m) ==
  IF m \notin DOMAIN z.members THEN z
  ELSE ZSet(Without(z.members, m), MapRemove(z.scores, Entry(z.members[m], m)))

(* The loop of ZADD over its score-member pairs, *)
add_pairs(z, pairs) ==
  LET after[i \in 0 .. Len(pairs)] ==
        IF i = 0 THEN z ELSE zset_add(after[i - 1], pairs[i][2], pairs[i][1])
  IN  after[Len(pairs)]

(* that of ZREM over its members, *)
remove_all(z, ms) ==
  LET after[i \in 0 .. Len(ms)] == IF i = 0 THEN z ELSE zset_remove(after[i - 1], ms[i])
  IN  after[Len(ms)]

(* and that of ZPOPMIN, and ZPOPMAX with rev: one entry and then count.    *)
pop_entry(acc, rev) ==
  LET e == IF rev THEN acc.z.scores[Len(acc.z.scores)] ELSE acc.z.scores[1]
  IN  IF acc.z.scores = <<>> THEN acc
      ELSE [z |-> ZSet(Without(acc.z.members, e.member), MapRemove(acc.z.scores, e)),
            popped |-> Append(acc.popped, e)]
pop_entries(z, count, rev) ==
  LET after[i \in 0 .. count] ==
        IF i = 0 THEN [z |-> z, popped |-> <<>>] ELSE pop_entry(after[i - 1], rev)
  IN  after[count]

-----------------------------------------------------------------------------
Before(a, b) == a.score < b.score \/ (a.score = b.score /\ a.member < b.member)

(* The two maps hold the same members with the same scores, and the entries *)
(* are in order.                                                           *)
InStep(z) ==
  /\ {z.scores[i] : i \in DOMAIN z.scores} = {Entry(z.members[m], m) : m \in DOMAIN z.members}
  /\ \A i, j \in DOMAIN z.scores : i < j => Before(z.scores[i], z.scores[j])
=============================================================================
