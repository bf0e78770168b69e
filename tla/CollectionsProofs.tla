--------------------------- MODULE CollectionsProofs --------------------------
(***************************************************************************)
(* For values of every size: commands leave no empty collection under a    *)
(* key, and the two maps of a sorted set stay in step.                     *)
(*                                                                         *)
(* The parts: the search of a BTreeMap and what insert and remove make of  *)
(* its entries; the loops of the handlers, by induction over their rounds; *)
(* a lemma for each command; the invariant.                                *)
(***************************************************************************)
EXTENDS Collections, WellFoundedInduction, TLAPS

(* The prover of the leaves that name none. *)
USE ZenonT(40)

Score == Int \ {NaN}
Ent == [score : Score, member : Int]
Entries(s) == {s[i] : i \in DOMAIN s}
Ordered(s) == \A i, j \in DOMAIN s : i < j => Before(s[i], s[j])

(* A set of natural numbers that is not empty has a least one. *)
LEMMA LeastOf ==
  ASSUME NEW S \in SUBSET Nat, S # {}
  PROVE  \E x \in S : \A y \in S : x <= y
<1> DEFINE R == {p \in Nat \X Nat : p[1] < p[2]}
<1>1. IsWellFoundedOn(R, Nat)
  BY NatLessThanWellFounded DEF OpToRel
<1>2. \A x, y \in Nat : ~ (<<y, x>> \in R) => x <= y
  BY SMTT(30)
<1> HIDE DEF R
<1>3. PICK x \in S : \A y \in S : ~ (<<y, x>> \in R)
  BY <1>1, WFMin
<1> QED
  BY <1>2, <1>3

(* Induction over the numbers of a set. *)
LEMMA NatSetInduction ==
  ASSUME NEW S, 0 \in S, \A n \in Nat : n \in S => n + 1 \in S
  PROVE  Nat \subseteq S
<1> SUFFICES ASSUME Nat \ S # {} PROVE FALSE
  OBVIOUS
<1>1. PICK x \in Nat \ S : \A y \in Nat \ S : x <= y
  BY LeastOf
<1>2. x - 1 \in Nat /\ x = (x - 1) + 1
  BY <1>1, SMTT(30)
<1>3. x - 1 \in S
  BY <1>1, <1>2, SMTT(30)
<1> QED
  BY <1>1, <1>2, <1>3

-----------------------------------------------------------------------------
(* Without NaN, cmp is the order by score and member. *)
LEMMA CmpSign ==
  ASSUME NEW a \in Ent, NEW b \in Ent
  PROVE  /\ cmp(a, b) \in Int
         /\ cmp(a, b) = 0 <=> a = b
         /\ cmp(a, b) > 0 <=> Before(b, a)
         /\ cmp(a, b) < 0 <=> Before(a, b)
<1>1. /\ a.score \in Int /\ a.score # NaN /\ a.member \in Int
      /\ b.score \in Int /\ b.score # NaN /\ b.member \in Int
  BY DEF Ent, Score
<1>2. a.score = b.score /\ a.member = b.member => a = b
  BY SMTT(30) DEF Ent
<1>3. cmp(a, b) = IF a.score - b.score # 0 THEN a.score - b.score ELSE a.member - b.member
  BY <1>1 DEF cmp
<1> QED
  BY <1>1, <1>2, <1>3, SMTT(30) DEF Before

(* It is a strict order. *)
LEMMA BeforeOrder ==
  ASSUME NEW a \in Ent, NEW b \in Ent, NEW c \in Ent
  PROVE  /\ ~Before(a, a)
         /\ Before(a, b) => ~Before(b, a) /\ a # b
         /\ Before(a, b) /\ Before(b, c) => Before(a, c)
         /\ a # b => Before(a, b) \/ Before(b, a)
<1>1. /\ a.score \in Int /\ a.member \in Int /\ b.score \in Int /\ b.member \in Int
      /\ c.score \in Int /\ c.member \in Int
  BY DEF Ent, Score
<1>2. a.score = b.score /\ a.member = b.member => a = b
  BY SMTT(30) DEF Ent
<1> QED
  BY <1>1, <1>2, SMTT(30) DEF Before

(* Search finds the first place whose entry is not less. *)
LEMMA SearchIs ==
  ASSUME NEW s \in Seq(Ent), NEW e \in Ent
  PROVE  /\ Search(s, e) \in 1 .. Len(s) + 1
         /\ Search(s, e) = Len(s) + 1 \/ e = s[Search(s, e)] \/ Before(e, s[Search(s, e)])
         /\ \A i \in 1 .. Search(s, e) - 1 : Before(s[i], e)
<1> DEFINE P(p) == /\ p = Len(s) + 1 \/ cmp(e, s[p]) <= 0
                   /\ \A i \in 1 .. p - 1 : cmp(e, s[i]) > 0
           S == {p \in 1 .. Len(s) + 1 : p = Len(s) + 1 \/ cmp(e, s[p]) <= 0}
<1>1. Len(s) \in Nat /\ \A i \in 1 .. Len(s) : s[i] \in Ent /\ cmp(e, s[i]) \in Int
  BY CmpSign, SMTT(30)
<1>2. PICK x \in S : \A y \in S : x <= y
  <2>1. S \in SUBSET Nat /\ Len(s) + 1 \in S
    BY <1>1, SMTT(30)
  <2> HIDE DEF S
  <2> QED
    BY <2>1, LeastOf
<1>3. ASSUME NEW i \in 1 .. x - 1 PROVE cmp(e, s[i]) > 0
  <2>1. i \in 1 .. Len(s) + 1 /\ i # Len(s) + 1 /\ i < x
    BY <1>1, <1>2, SMTT(30)
  <2>2. i \notin S
    BY <1>2, <2>1, SMTT(30)
  <2> QED
    BY <1>1, <2>1, <2>2, SMTT(30)
<1>4. \E p \in 1 .. Len(s) + 1 : P(p)
  BY <1>2, <1>3
<1> DEFINE q == CHOOSE p \in 1 .. Len(s) + 1 : P(p)
<1>5. q \in 1 .. Len(s) + 1 /\ P(q)
  <2> HIDE DEF P
  <2> QED
    BY <1>4
<1>6. Search(s, e) = q
  BY DEF Search
<1> HIDE DEF q, S
<1>7. q # Len(s) + 1 => q \in 1 .. Len(s)
  BY <1>1, <1>5, SMTT(30)
<1>8. q = Len(s) + 1 \/ e = s[q] \/ Before(e, s[q])
  <2> SUFFICES ASSUME q # Len(s) + 1 PROVE e = s[q] \/ Before(e, s[q])
    OBVIOUS
  <2>1. s[q] \in Ent /\ cmp(e, s[q]) <= 0
    BY <1>1, <1>5, <1>7
  <2> HIDE DEF P
  <2> QED
    BY <2>1, CmpSign, SMTT(30)
<1>9. ASSUME NEW i \in 1 .. q - 1 PROVE Before(s[i], e)
  <2>1. i \in 1 .. Len(s) /\ cmp(e, s[i]) > 0
    BY <1>1, <1>5, SMTT(30)
  <2> QED
    BY <1>1, <2>1, CmpSign
<1> QED
  BY <1>5, <1>6, <1>8, <1>9

(* In an ordered map an entry is found when it is there, at its place. *)
LEMMA FoundIs ==
  ASSUME NEW s \in Seq(Ent), NEW e \in Ent, Ordered(s)
  PROVE  /\ Found(s, e) => Search(s, e) \in 1 .. Len(s) /\ s[Search(s, e)] = e
         /\ e \in Entries(s) => Found(s, e)
<1> DEFINE p == Search(s, e)
<1>1. /\ p \in 1 .. Len(s) + 1
      /\ p = Len(s) + 1 \/ e = s[p] \/ Before(e, s[p])
      /\ \A i \in 1 .. p - 1 : Before(s[i], e)
  BY SearchIs
<1>2. Len(s) \in Nat /\ DOMAIN s = 1 .. Len(s) /\ \A i \in 1 .. Len(s) : s[i] \in Ent
  BY SMTT(30)
<1> HIDE DEF p
<1>3. Found(s, e) <=> p \in DOMAIN s /\ cmp(e, s[p]) = 0
  BY DEF Found, p
<1>4. Found(s, e) => p \in 1 .. Len(s) /\ s[p] = e
  BY <1>2, <1>3, CmpSign
<1>5. ASSUME e \in Entries(s) PROVE Found(s, e)
  <2>1. PICK i \in 1 .. Len(s) : s[i] = e
    BY <1>2, <1>5 DEF Entries
  <2>2. ~Before(e, e)
    BY BeforeOrder
  <2>3. p <= i
    BY <1>1, <1>2, <2>1, <2>2, SMTT(30)
  <2>4. p \in 1 .. Len(s)
    BY <1>1, <1>2, <2>1, <2>3, SMTT(30)
  <2>5. p < i => Before(s[p], e)
    BY <1>2, <2>1, <2>4 DEF Ordered
  <2>6. e = s[p]
    BY <1>1, <1>2, <2>1, <2>3, <2>4, <2>5, BeforeOrder, SMTT(30)
  <2> QED
    BY <1>2, <1>3, <2>4, <2>6, CmpSign
<1> QED
  BY <1>4, <1>5 DEF p

(* The BTreeMap with one more entry, still in order. *)
LEMMA InsertIs ==
  ASSUME NEW s \in Seq(Ent), NEW e \in Ent, Ordered(s)
  PROVE  /\ MapInsert(s, e) \in Seq(Ent)
         /\ Ordered(MapInsert(s, e))
         /\ Entries(MapInsert(s, e)) = Entries(s) \cup {e}
<1>1. CASE Found(s, e)
  <2>1. MapInsert(s, e) = s
    BY <1>1 DEF MapInsert
  <2>2. e \in Entries(s)
    BY <1>1, FoundIs, SMTT(30) DEF Entries
  <2> QED
    BY <2>1, <2>2
<1>2. CASE ~Found(s, e)
  <2> DEFINE p == Search(s, e)
             n == Len(s)
             t == [i \in 1 .. n + 1 |-> IF i < p THEN s[i] ELSE IF i = p THEN e ELSE s[i - 1]]
  <2>1. MapInsert(s, e) = t
    BY <1>2 DEF MapInsert, insert_at
  <2>2. n \in Nat /\ DOMAIN s = 1 .. n /\ \A i \in 1 .. n : s[i] \in Ent
    BY SMTT(30)
  <2>3. /\ p \in 1 .. n + 1
        /\ p = n + 1 \/ e = s[p] \/ Before(e, s[p])
        /\ \A i \in 1 .. p - 1 : Before(s[i], e)
    BY SearchIs
  <2>4. e \notin Entries(s)
    BY <1>2, FoundIs
  <2> HIDE DEF p, n
  <2>5. \A i \in 1 .. n + 1 : t[i] = IF i < p THEN s[i] ELSE IF i = p THEN e ELSE s[i - 1]
    OBVIOUS
  <2>6. t \in Seq(Ent) /\ DOMAIN t = 1 .. n + 1
    <3>1. \A i \in 1 .. n + 1 : t[i] \in Ent
      BY <2>2, <2>3, <2>5, SMTT(30)
    <3> QED
      BY <2>2, <3>1, SMTT(30)
  <2> HIDE DEF t
  <2>7. ASSUME NEW i \in 1 .. n, i >= p PROVE Before(e, s[i])
    <3>1. p \in 1 .. n /\ s[p] \in Ent /\ s[i] \in Ent
      BY <2>2, <2>3, <2>7, SMTT(30)
    <3>2. e # s[p]
      BY <2>2, <2>4, <3>1 DEF Entries
    <3>3. Before(e, s[p])
      BY <2>3, <3>1, <3>2, <2>2, SMTT(30)
    <3>4. i # p => Before(s[p], s[i])
      BY <2>2, <2>7, <3>1, SMTT(30) DEF Ordered
    <3> QED
      BY <3>1, <3>3, <3>4, BeforeOrder
  <2>8. ASSUME NEW i \in 1 .. n + 1, NEW j \in 1 .. n + 1, i < j PROVE Before(t[i], t[j])
    <3>1. CASE j < p
      <4>1. i \in 1 .. n /\ j \in 1 .. n /\ t[i] = s[i] /\ t[j] = s[j]
        BY <2>2, <2>3, <2>5, <2>8, <3>1, SMTT(30)
      <4> QED
        BY <2>2, <2>8, <4>1 DEF Ordered
    <3>2. CASE j = p
      <4>1. t[i] = s[i] /\ t[j] = e /\ i \in 1 .. p - 1
        BY <2>2, <2>3, <2>5, <2>8, <3>2, SMTT(30)
      <4> QED
        BY <2>3, <4>1
    <3>3. CASE i = p
      <4>1. t[i] = e /\ t[j] = s[j - 1] /\ j - 1 \in 1 .. n /\ j - 1 >= p
        BY <2>2, <2>3, <2>5, <2>8, <3>3, SMTT(30)
      <4> QED
        BY <2>7, <4>1
    <3>4. CASE i > p
      <4>1. t[i] = s[i - 1] /\ t[j] = s[j - 1] /\ i - 1 \in 1 .. n /\ j - 1 \in 1 .. n /\ i - 1 < j - 1
        BY <2>2, <2>3, <2>5, <2>8, <3>4, SMTT(30)
      <4> QED
        BY <2>2, <4>1 DEF Ordered
    <3>5. CASE i < p /\ j > p
      <4>1. t[i] = s[i] /\ t[j] = s[j - 1] /\ i \in 1 .. n /\ j - 1 \in 1 .. n /\ i < j - 1
        BY <2>2, <2>3, <2>5, <2>8, <3>5, SMTT(30)
      <4> QED
        BY <2>2, <4>1 DEF Ordered
    <3> QED
      BY <2>2, <2>3, <3>1, <3>2, <3>3, <3>4, <3>5, SMTT(30)
  <2>9. Entries(t) = Entries(s) \cup {e}
    <3>1. ASSUME NEW i \in 1 .. n + 1 PROVE t[i] \in Entries(s) \cup {e}
      <4>1. CASE i < p
        <5>1. i \in 1 .. n /\ t[i] = s[i]
          BY <2>2, <2>3, <2>5, <4>1, SMTT(30)
        <5> QED
          BY <2>2, <5>1 DEF Entries
      <4>2. CASE i > p
        <5>1. i - 1 \in 1 .. n /\ t[i] = s[i - 1]
          BY <2>2, <2>3, <2>5, <4>2, SMTT(30)
        <5> QED
          BY <2>2, <5>1 DEF Entries
      <4>3. CASE i = p
        BY <2>5, <4>3, SMTT(30)
      <4> QED
        BY <2>3, <4>1, <4>2, <4>3, SMTT(30)
    <3>2. ASSUME NEW i \in 1 .. n PROVE s[i] \in Entries(t)
      <4>1. CASE i < p
        <5>1. i \in 1 .. n + 1 /\ t[i] = s[i]
          BY <2>2, <2>5, <4>1, SMTT(30)
        <5> QED
          BY <2>6, <5>1 DEF Entries
      <4>2. CASE i >= p
        <5>1. i + 1 \in 1 .. n + 1 /\ t[i + 1] = s[i]
          BY <2>2, <2>3, <2>5, <4>2, SMTT(30)
        <5> QED
          BY <2>6, <5>1 DEF Entries
      <4> QED
        BY <2>2, <2>3, <4>1, <4>2, SMTT(30)
    <3>3. e \in Entries(t)
      <4>1. t[p] = e
        BY <2>2, <2>3, <2>5, SMTT(30)
      <4> QED
        BY <2>3, <2>6, <4>1 DEF Entries
    <3> QED
      BY <2>2, <2>6, <3>1, <3>2, <3>3 DEF Entries
  <2> QED
    BY <2>1, <2>6, <2>8, <2>9 DEF Ordered
<1> QED
  BY <1>1, <1>2

(* ... and without one. *)
LEMMA RemoveIs ==
  ASSUME NEW s \in Seq(Ent), NEW e \in Ent, Ordered(s)
  PROVE  /\ MapRemove(s, e) \in Seq(Ent)
         /\ Ordered(MapRemove(s, e))
         /\ Entries(MapRemove(s, e)) = Entries(s) \ {e}
<1>1. CASE ~Found(s, e)
  <2>1. MapRemove(s, e) = s
    BY <1>1 DEF MapRemove
  <2>2. e \notin Entries(s)
    BY <1>1, FoundIs
  <2> QED
    BY <2>1, <2>2
<1>2. CASE Found(s, e)
  <2> DEFINE p == Search(s, e)
             n == Len(s)
             t == [i \in 1 .. n - 1 |-> IF i < p THEN s[i] ELSE s[i + 1]]
  <2>1. MapRemove(s, e) = t
    BY <1>2 DEF MapRemove, remove_at
  <2>2. n \in Nat /\ DOMAIN s = 1 .. n /\ \A i \in 1 .. n : s[i] \in Ent
    BY SMTT(30)
  <2>3. p \in 1 .. n /\ s[p] = e
    BY <1>2, FoundIs
  <2> HIDE DEF p, n
  <2>4. n - 1 \in Nat /\ \A i \in 1 .. n - 1 : t[i] = IF i < p THEN s[i] ELSE s[i + 1]
    BY <2>2, <2>3, SMTT(30)
  <2>5. t \in Seq(Ent) /\ DOMAIN t = 1 .. n - 1
    <3>1. \A i \in 1 .. n - 1 : t[i] \in Ent
      BY <2>2, <2>3, <2>4, SMTT(30)
    <3> QED
      BY <2>2, <2>4, <3>1, SMTT(30)
  <2> HIDE DEF t
  <2> DEFINE at(i) == IF i < p THEN i ELSE i + 1
  <2>6. \A i \in 1 .. n - 1 : at(i) \in 1 .. n /\ at(i) # p /\ t[i] = s[at(i)]
    BY <2>2, <2>3, <2>4, SMTT(30)
  <2>7. \A i, j \in 1 .. n - 1 : i < j => at(i) < at(j)
    BY <2>2, <2>3, SMTT(30)
  <2>8. ASSUME NEW i \in 1 .. n, i # p PROVE \E j \in 1 .. n - 1 : at(j) = i
    <3>1. CASE i < p
      BY <2>2, <2>3, <3>1, SMTT(30)
    <3>2. CASE i > p
      <4>1. i - 1 \in 1 .. n - 1 /\ at(i - 1) = i
        BY <2>2, <2>3, <3>2, SMTT(30)
      <4> QED
        BY <4>1
    <3> QED
      BY <2>2, <2>3, <2>8, <3>1, <3>2, SMTT(30)
  <2> HIDE DEF at
  <2>9. Ordered(t)
    BY <2>2, <2>5, <2>6, <2>7 DEF Ordered
  <2>10. ASSUME NEW i \in 1 .. n, i # p PROVE s[i] # e
    <3>1. Before(s[i], s[p]) \/ Before(s[p], s[i])
      BY <2>2, <2>3, <2>10, SMTT(30) DEF Ordered
    <3> QED
      BY <2>2, <2>3, <3>1, BeforeOrder
  <2>11. Entries(t) = Entries(s) \ {e}
    <3>1. ASSUME NEW i \in 1 .. n - 1 PROVE t[i] \in Entries(s) \ {e}
      BY <2>2, <2>6, <2>10 DEF Entries
    <3>2. ASSUME NEW i \in 1 .. n, s[i] # e PROVE s[i] \in Entries(t)
      <4>1. PICK j \in 1 .. n - 1 : at(j) = i
        BY <2>3, <2>8, <3>2
      <4> QED
        BY <2>5, <2>6, <4>1 DEF Entries
    <3> QED
      BY <2>2, <2>5, <3>1, <3>2 DEF Entries
  <2> QED
    BY <2>1, <2>5, <2>9, <2>11
<1> QED
  BY <1>1, <1>2

-----------------------------------------------------------------------------
(* A sorted set without NaN whose two maps are in step. *)
Good(z) ==
  /\ z.type = "zset"
  /\ DOMAIN z.members \subseteq Int
  /\ \A m \in DOMAIN z.members : z.members[m] \in Score
  /\ z.scores \in Seq(Ent)
  /\ InStep(z)

(* What that says of the entries. *)
LEMMA GoodIs ==
  ASSUME NEW m, NEW s
  PROVE  Good(ZSet(m, s)) <=> /\ DOMAIN m \subseteq Int
                              /\ \A x \in DOMAIN m : m[x] \in Score
                              /\ s \in Seq(Ent)
                              /\ Entries(s) = {Entry(m[x], x) : x \in DOMAIN m}
                              /\ Ordered(s)
BY DEF Good, ZSet, InStep, Entries, Ordered

(* The same of any sorted set. *)
LEMMA GoodSays ==
  ASSUME NEW z, Good(z)
  PROVE  /\ DOMAIN z.members \subseteq Int
         /\ \A x \in DOMAIN z.members : z.members[x] \in Score /\ Entry(z.members[x], x) \in Ent
         /\ z.scores \in Seq(Ent)
         /\ Entries(z.scores) = {Entry(z.members[x], x) : x \in DOMAIN z.members}
         /\ Ordered(z.scores)
<1>1. \A x \in DOMAIN z.members : Entry(z.members[x], x) \in Ent
  BY DEF Good, Entry, Ent
<1> QED
  BY <1>1 DEF Good, InStep, Entries, Ordered

(* A map without one of its members. *)
LEMMA WithoutMember ==
  ASSUME NEW f, NEW m
  PROVE  /\ DOMAIN Without(f, m) = DOMAIN f \ {m}
         /\ \A y \in DOMAIN f \ {m} : Without(f, m)[y] = f[y]
BY DEF Without

(* Entries of different members differ. *)
LEMMA EntryIs ==
  ASSUME NEW a, NEW b, NEW m, NEW n
  PROVE  /\ Entry(a, m).score = a /\ Entry(a, m).member = m
         /\ Entry(a, m) = Entry(b, n) <=> a = b /\ m = n
BY DEF Entry

(* A sorted set with nothing in it. *)
LEMMA NewIsGood == Good(new_zset)
<1>1. DOMAIN <<>> = {} /\ <<>> \in Seq(Ent)
  BY SMTT(30)
<1>2. Entries(<<>>) = {} /\ Ordered(<<>>)
  BY <1>1 DEF Entries, Ordered
<1> QED
  BY <1>1, <1>2, GoodIs DEF new_zset

(* What is left of the entries without those of member m. *)
LEMMA EntriesWithout ==
  ASSUME NEW z, Good(z), NEW m \in DOMAIN z.members
  PROVE  Entries(z.scores) \ {Entry(z.members[m], m)} = {Entry(z.members[x], x) : x \in DOMAIN z.members \ {m}}
<1>1. Entries(z.scores) = {Entry(z.members[x], x) : x \in DOMAIN z.members}
  BY GoodSays
<1>2. \A x \in DOMAIN z.members : Entry(z.members[x], x) = Entry(z.members[m], m) <=> x = m
  BY EntryIs, SMTT(30)
<1> QED
  BY <1>1, <1>2

(* zset_remove *)
LEMMA RemoveGood ==
  ASSUME NEW z, Good(z), NEW m
  PROVE  Good(zset_remove(z, m))
<1>1. CASE m \notin DOMAIN z.members
  BY <1>1 DEF zset_remove
<1>2. CASE m \in DOMAIN z.members
  <2> DEFINE e == Entry(z.members[m], m)
             f == Without(z.members, m)
             t == MapRemove(z.scores, e)
  <2>1. zset_remove(z, m) = ZSet(f, t)
    BY <1>2 DEF zset_remove
  <2>2. e \in Ent
    BY <1>2, GoodSays
  <2>3. t \in Seq(Ent) /\ Ordered(t) /\ Entries(t) = Entries(z.scores) \ {e}
    <3> HIDE DEF e
    <3> QED
      BY <2>2, GoodSays, RemoveIs
  <2>4. Entries(z.scores) \ {e} = {Entry(z.members[x], x) : x \in DOMAIN z.members \ {m}}
    BY <1>2, EntriesWithout
  <2>5. DOMAIN f = DOMAIN z.members \ {m} /\ \A y \in DOMAIN f : f[y] = z.members[y]
    BY WithoutMember
  <2> HIDE DEF e, f, t
  <2>6. Entries(t) = {Entry(f[x], x) : x \in DOMAIN f}
    BY <2>3, <2>4, <2>5
  <2>7. DOMAIN f \subseteq Int /\ \A x \in DOMAIN f : f[x] \in Score
    BY <2>5, GoodSays
  <2> QED
    BY <2>1, <2>3, <2>6, <2>7, GoodIs, SMTT(30)
<1> QED
  BY <1>1, <1>2

(* zset_add *)
LEMMA AddGood ==
  ASSUME NEW z, Good(z), NEW m \in Int, NEW s \in Score
  PROVE  Good(zset_add(z, m, s))
<1> DEFINE old == IF m \in DOMAIN z.members THEN MapRemove(z.scores, Entry(z.members[m], m)) ELSE z.scores
           f == With(z.members, m, s)
           e == Entry(s, m)
           t == MapInsert(old, e)
<1>1. zset_add(z, m, s) = ZSet(f, t)
  BY DEF zset_add
<1>2. /\ old \in Seq(Ent) /\ Ordered(old)
      /\ Entries(old) = {Entry(z.members[x], x) : x \in DOMAIN z.members \ {m}}
  <2>1. CASE m \in DOMAIN z.members
    <3>1. Entry(z.members[m], m) \in Ent
      BY <2>1, GoodSays
    <3>2. old = MapRemove(z.scores, Entry(z.members[m], m))
      BY <2>1
    <3> DEFINE d == Entry(z.members[m], m)
    <3>3. d \in Ent /\ old = MapRemove(z.scores, d)
      BY <3>1, <3>2
    <3>4. Entries(z.scores) \ {d} = {Entry(z.members[x], x) : x \in DOMAIN z.members \ {m}}
      BY <2>1, EntriesWithout
    <3> HIDE DEF old, d
    <3> QED
      BY <3>3, <3>4, GoodSays, RemoveIs
  <2>2. CASE m \notin DOMAIN z.members
    <3>1. DOMAIN z.members \ {m} = DOMAIN z.members /\ old = z.scores
      BY <2>2
    <3> HIDE DEF old
    <3> QED
      BY <3>1, GoodSays
  <2> QED
    BY <2>1, <2>2
<1>3. e \in Ent
  BY DEF Entry, Ent
<1> HIDE DEF old, e
<1>4. t \in Seq(Ent) /\ Ordered(t) /\ Entries(t) = Entries(old) \cup {e}
  BY <1>2, <1>3, InsertIs
<1>5. DOMAIN f = DOMAIN z.members \cup {m} /\ f[m] = s /\ \A y \in DOMAIN z.members : y # m => f[y] = z.members[y]
  <2> DEFINE g == z.members
  <2>1. f = With(g, m, s)
    OBVIOUS
  <2> HIDE DEF f, g
  <2>2. DOMAIN f = DOMAIN g \cup {m} /\ f[m] = s /\ \A y \in DOMAIN g : y # m => f[y] = g[y]
    BY <2>1 DEF With
  <2> QED
    BY <2>2 DEF g
<1> HIDE DEF f, t
<1>6. {Entry(f[x], x) : x \in DOMAIN f} = {Entry(z.members[x], x) : x \in DOMAIN z.members \ {m}} \cup {e}
  BY <1>5 DEF e
<1>7. DOMAIN f \subseteq Int /\ \A x \in DOMAIN f : f[x] \in Score
  BY <1>5, GoodSays
<1> QED
  BY <1>1, <1>2, <1>4, <1>6, <1>7, GoodIs

(* An entry popped from either end is that of a member. *)
LEMMA PopGood ==
  ASSUME NEW acc, Good(acc.z), NEW rev \in BOOLEAN
  PROVE  Good(pop_entry(acc, rev).z)
<1> DEFINE z == acc.z
           n == Len(z.scores)
           e == IF rev THEN z.scores[n] ELSE z.scores[1]
           f == Without(z.members, e.member)
           t == MapRemove(z.scores, e)
<1>1. CASE z.scores = <<>>
  BY <1>1 DEF pop_entry
<1>2. CASE z.scores # <<>>
  <2>1. pop_entry(acc, rev).z = ZSet(f, t)
    BY <1>2 DEF pop_entry
  <2>2. z.scores \in Seq(Ent) /\ n \in Nat /\ DOMAIN z.scores = 1 .. n
    BY GoodSays, SMTT(30)
  <2>3. n # 0
    BY <1>2, <2>2, SMTT(30)
  <2>4. e \in Entries(z.scores)
    BY <2>2, <2>3, SMTT(30) DEF Entries
  <2> HIDE DEF e, n
  <2>5. PICK m \in DOMAIN z.members : e = Entry(z.members[m], m)
    BY <2>4, GoodSays
  <2>6. e.member = m /\ e \in Ent
    BY <2>5, EntryIs, GoodSays, SMTT(30)
  <2>7. zset_remove(z, m) = ZSet(f, t)
    BY <2>5, <2>6 DEF zset_remove
  <2> HIDE DEF f, t, z
  <2>8. Good(zset_remove(z, m))
    BY RemoveGood DEF z
  <2> QED
    BY <2>1, <2>7, <2>8
<1> QED
  BY <1>1, <1>2

-----------------------------------------------------------------------------
(* One round of each of the loops, by what it does. *)
Round(what, acc, x) ==
  CASE what = "add" -> zset_add(acc, x[2], x[1])
    [] what = "remove" -> zset_remove(acc, x)
    [] what = "pop" -> pop_entry(acc, x)
    [] what = "retain" -> retain(acc, x[1], x[2], x[3])
    [] what = "index" -> note_index(acc, x[1], x[2], x[3], x[4])
    [] what = "drop" -> remove_at(acc, x)
    [] what = "insert" -> With(acc, x[1], x[2])

(* f holds what a loop over xs has after each of its first n rounds. *)
Rounds(f, what, acc, xs, n) ==
  f = [i \in 0 .. n |-> IF i = 0 THEN acc ELSE Round(what, f[i - 1], xs[i])]

(* There is such a function. *)
LEMMA RoundsExist ==
  ASSUME NEW what, NEW acc, NEW xs, NEW n \in Nat
  PROVE  \E f : Rounds(f, what, acc, xs, n)
<1> DEFINE P == {k \in Nat : \E f : Rounds(f, what, acc, xs, k)}
<1>1. 0 \in P
  <2>1. Rounds([i \in 0 .. 0 |-> acc], what, acc, xs, 0)
    BY SMTT(30) DEF Rounds
  <2> QED
    BY <2>1
<1>2. ASSUME NEW k \in Nat, k \in P PROVE k + 1 \in P
  <2>1. PICK f : Rounds(f, what, acc, xs, k)
    BY <1>2
  <2> DEFINE h == [i \in 0 .. k + 1 |-> IF i = k + 1 THEN Round(what, f[k], xs[k + 1]) ELSE f[i]]
  <2>2. ASSUME NEW i \in 0 .. k + 1
        PROVE  h[i] = IF i = 0 THEN acc ELSE Round(what, h[i - 1], xs[i])
    <3>1. CASE i = k + 1
      <4>1. i - 1 = k /\ k \in 0 .. k + 1 /\ k # k + 1 /\ i # 0
        BY <3>1, SMTT(30)
      <4>2. h[i] = Round(what, f[k], xs[k + 1]) /\ h[k] = f[k]
        BY <3>1, <4>1
      <4> QED
        BY <3>1, <4>1, <4>2
    <3>2. CASE i # k + 1
      <4>1. i \in 0 .. k /\ h[i] = f[i]
        BY <3>2, SMTT(30)
      <4>2. i # 0 => i - 1 \in 0 .. k + 1 /\ i - 1 # k + 1 /\ h[i - 1] = f[i - 1]
        BY <4>1, SMTT(30)
      <4>3. f[i] = IF i = 0 THEN acc ELSE Round(what, f[i - 1], xs[i])
        BY <2>1, <4>1 DEF Rounds
      <4> QED
        BY <4>1, <4>2, <4>3
    <3> QED
      BY <3>1, <3>2
  <2>3. h = [i \in 0 .. k + 1 |-> IF i = 0 THEN acc ELSE Round(what, h[i - 1], xs[i])]
    BY <2>2
  <2>4. Rounds(h, what, acc, xs, k + 1)
    BY <2>3 DEF Rounds
  <2> QED
    BY <2>4, SMTT(30)
<1> HIDE DEF P
<1>3. n \in P
  BY <1>1, <1>2, NatSetInduction
<1> QED
  BY <1>3 DEF P

(* What a round keeps holds when the loop is over.  ZADD: *)
LEMMA AddLoop ==
  ASSUME NEW z, NEW n \in Nat, n # 0, NEW pairs, DOMAIN pairs = 1 .. n
  PROVE  /\ add_pairs(z, pairs).type = "zset"
         /\ DOMAIN add_pairs(z, pairs).members # {}
         /\ Good(z) /\ (\A i \in 1 .. n : pairs[i][1] \in Score /\ pairs[i][2] \in Int)
            => Good(add_pairs(z, pairs))
<1> DEFINE g == CHOOSE f : f = [i \in 0 .. n |-> IF i = 0 THEN z ELSE zset_add(f[i - 1], pairs[i][2], pairs[i][1])]
<1>1. add_pairs(z, pairs) = g[n]
  <2>1. Len(pairs) = n
    BY SMTT(30)
  <2> QED
    BY <2>1 DEF add_pairs
<1>2. g = [i \in 0 .. n |-> IF i = 0 THEN z ELSE zset_add(g[i - 1], pairs[i][2], pairs[i][1])]
  <2>1. PICK f : Rounds(f, "add", z, pairs, n)
    BY RoundsExist
  <2>2. f = [i \in 0 .. n |-> IF i = 0 THEN z ELSE zset_add(f[i - 1], pairs[i][2], pairs[i][1])]
    BY <2>1 DEF Rounds, Round
  <2> QED
    BY <2>2
<1> HIDE DEF g
<1>3. g[n].type = "zset" /\ pairs[n][2] \in DOMAIN g[n].members
  <2>1. g[n] = zset_add(g[n - 1], pairs[n][2], pairs[n][1])
    BY <1>2, SMTT(30)
  <2> QED
    BY <2>1, SMTT(30) DEF zset_add, ZSet, With
<1>4. ASSUME Good(z), \A i \in 1 .. n : pairs[i][1] \in Score /\ pairs[i][2] \in Int
      PROVE  Good(g[n])
  <2> DEFINE P == {k \in Nat : k <= n => Good(g[k])}
  <2>1. 0 \in P
    BY <1>2, <1>4, SMTT(30)
  <2>2. ASSUME NEW k \in Nat, k \in P PROVE k + 1 \in P
    <3> SUFFICES ASSUME k + 1 <= n PROVE Good(g[k + 1])
      BY SMTT(30)
    <3>1. g[k + 1] = zset_add(g[k], pairs[k + 1][2], pairs[k + 1][1])
      BY <1>2, SMTT(30)
    <3>2. Good(g[k]) /\ pairs[k + 1][1] \in Score /\ pairs[k + 1][2] \in Int
      BY <1>4, <2>2, SMTT(30)
    <3> QED
      BY <3>1, <3>2, AddGood
  <2> HIDE DEF P
  <2>3. n \in P
    BY <2>1, <2>2, NatSetInduction
  <2> QED
    BY <2>3, SMTT(30) DEF P
<1> QED
  BY <1>1, <1>3, <1>4

(* ZREM *)
LEMMA RemoveLoop ==
  ASSUME NEW z, z.type = "zset", NEW n \in Nat, NEW ms, DOMAIN ms = 1 .. n
  PROVE  /\ remove_all(z, ms).type = "zset"
         /\ Good(z) => Good(remove_all(z, ms))
<1> DEFINE g == CHOOSE f : f = [i \in 0 .. n |-> IF i = 0 THEN z ELSE zset_remove(f[i - 1], ms[i])]
<1>1. remove_all(z, ms) = g[n]
  <2>1. Len(ms) = n
    BY SMTT(30)
  <2> QED
    BY <2>1 DEF remove_all
<1>2. g = [i \in 0 .. n |-> IF i = 0 THEN z ELSE zset_remove(g[i - 1], ms[i])]
  <2>1. PICK f : Rounds(f, "remove", z, ms, n)
    BY RoundsExist
  <2>2. f = [i \in 0 .. n |-> IF i = 0 THEN z ELSE zset_remove(f[i - 1], ms[i])]
    BY <2>1 DEF Rounds, Round
  <2> QED
    BY <2>2
<1> HIDE DEF g
<1> DEFINE P == {k \in Nat : k <= n => g[k].type = "zset" /\ (Good(z) => Good(g[k]))}
<1>3. 0 \in P
  BY <1>2, SMTT(30)
<1>4. ASSUME NEW k \in Nat, k \in P PROVE k + 1 \in P
  <2> SUFFICES ASSUME k + 1 <= n PROVE g[k + 1].type = "zset" /\ (Good(z) => Good(g[k + 1]))
    BY SMTT(30)
  <2>1. g[k + 1] = zset_remove(g[k], ms[k + 1])
    BY <1>2, SMTT(30)
  <2>2. g[k].type = "zset" /\ (Good(z) => Good(g[k]))
    BY <1>4, SMTT(30)
  <2>3. g[k + 1].type = "zset"
    BY <2>1, <2>2, SMTT(30) DEF zset_remove, ZSet
  <2> QED
    BY <2>1, <2>2, <2>3, RemoveGood
<1> HIDE DEF P
<1>5. n \in P
  BY <1>3, <1>4, NatSetInduction
<1> QED
  BY <1>1, <1>5, SMTT(30) DEF P

(* ZPOPMIN and ZPOPMAX *)
LEMMA PopLoop ==
  ASSUME NEW z, z.type = "zset", NEW count \in Nat, NEW rev \in BOOLEAN
  PROVE  /\ pop_entries(z, count, rev).z.type = "zset"
         /\ Good(z) => Good(pop_entries(z, count, rev).z)
<1> DEFINE start == [z |-> z, popped |-> <<>>]
           g == CHOOSE f : f = [i \in 0 .. count |-> IF i = 0 THEN start ELSE pop_entry(f[i - 1], rev)]
<1>1. pop_entries(z, count, rev) = g[count]
  BY DEF pop_entries
<1>2. g = [i \in 0 .. count |-> IF i = 0 THEN start ELSE pop_entry(g[i - 1], rev)]
  <2> HIDE DEF start
  <2> DEFINE revs == [i \in 1 .. count |-> rev]
  <2>1. PICK f : Rounds(f, "pop", start, revs, count)
    BY RoundsExist
  <2>2. \A i \in 0 .. count : f[i] = IF i = 0 THEN start ELSE pop_entry(f[i - 1], rev)
    BY <2>1, SMTT(30) DEF Rounds, Round
  <2>3. f = [i \in 0 .. count |-> IF i = 0 THEN start ELSE pop_entry(f[i - 1], rev)]
    BY <2>1, <2>2 DEF Rounds
  <2> QED
    BY <2>3
<1>3. start.z = z
  OBVIOUS
<1> HIDE DEF g, start
<1> DEFINE P == {k \in Nat : k <= count => g[k].z.type = "zset" /\ (Good(z) => Good(g[k].z))}
<1>4. 0 \in P
  BY <1>2, <1>3, SMTT(30)
<1>5. ASSUME NEW k \in Nat, k \in P PROVE k + 1 \in P
  <2> SUFFICES ASSUME k + 1 <= count PROVE g[k + 1].z.type = "zset" /\ (Good(z) => Good(g[k + 1].z))
    BY SMTT(30)
  <2>1. g[k + 1] = pop_entry(g[k], rev)
    BY <1>2, SMTT(30)
  <2>2. g[k].z.type = "zset" /\ (Good(z) => Good(g[k].z))
    BY <1>5, SMTT(30)
  <2>3. g[k + 1].z.type = "zset"
    BY <2>1, <2>2, SMTT(30) DEF pop_entry, ZSet
  <2> QED
    BY <2>1, <2>2, <2>3, PopGood
<1> HIDE DEF P
<1>6. count \in P
  BY <1>4, <1>5, NatSetInduction
<1> QED
  BY <1>1, <1>6, SMTT(30) DEF P

-----------------------------------------------------------------------------
(* The loops over lists leave lists of the same elements. *)
LEMMA RemoveAtIs ==
  ASSUME NEW S, NEW s \in Seq(S), NEW i
  PROVE  remove_at(s, i) \in Seq(S)
<1> DEFINE n == Len(s)
           t == [j \in 1 .. n - 1 |-> IF j < i THEN s[j] ELSE s[j + 1]]
<1>1. n \in Nat /\ DOMAIN s = 1 .. n /\ \A j \in 1 .. n : s[j] \in S
  BY SMTT(30)
<1>2. \A j \in 1 .. n - 1 : t[j] \in S
  BY <1>1, SMTT(30)
<1>3. PICK m \in Nat : 1 .. n - 1 = 1 .. m
  <2>1. CASE n = 0
    BY <2>1, SMTT(30)
  <2>2. CASE n # 0
    <3>1. n - 1 \in Nat
      BY <1>1, <2>2, SMTT(30)
    <3> QED
      BY <3>1
  <2> QED
    BY <2>1, <2>2
<1>4. t \in [1 .. m -> S]
  BY <1>2, <1>3
<1> QED
  BY <1>4, SMTT(30) DEF remove_at

LEMMA HeadLoop ==
  ASSUME NEW S, NEW l \in Seq(S), NEW x, NEW max
  PROVE  RemoveFromHead(l, x, max) \in Seq(S)
<1> DEFINE n == Len(l)
           start == [kept |-> <<>>, removed |-> 0]
           g == CHOOSE f : f = [i \in 0 .. n |-> IF i = 0 THEN start ELSE retain(f[i - 1], x, max, l[i])]
<1>0. n \in Nat /\ \A i \in 1 .. n : l[i] \in S
  BY SMTT(30)
<1>1. RemoveFromHead(l, x, max) = g[n].kept
  BY DEF RemoveFromHead
<1> HIDE DEF n
<1>2. g = [i \in 0 .. n |-> IF i = 0 THEN start ELSE retain(g[i - 1], x, max, l[i])]
  <2> HIDE DEF start
  <2> DEFINE xs == [i \in 1 .. n |-> <<x, max, l[i]>>]
  <2>1. PICK f : Rounds(f, "retain", start, xs, n)
    BY <1>0, RoundsExist
  <2>2. \A i \in 0 .. n : f[i] = IF i = 0 THEN start ELSE retain(f[i - 1], x, max, l[i])
    <3>1. \A i \in 1 .. n : xs[i][1] = x /\ xs[i][2] = max /\ xs[i][3] = l[i]
      BY <1>0
    <3>2. \A i \in 0 .. n : f[i] = IF i = 0 THEN start ELSE retain(f[i - 1], xs[i][1], xs[i][2], xs[i][3])
      <4> HIDE DEF xs
      <4> QED
        BY <1>0, <2>1 DEF Rounds, Round
    <3> HIDE DEF xs
    <3> QED
      BY <1>0, <3>1, <3>2, SMTT(30)
  <2>3. f = [i \in 0 .. n |-> IF i = 0 THEN start ELSE retain(f[i - 1], x, max, l[i])]
    BY <2>1, <2>2 DEF Rounds
  <2> QED
    BY <2>3
<1>3. start.kept \in Seq(S)
  BY SMTT(30)
<1> HIDE DEF g, start
<1> DEFINE P == {k \in Nat : k <= n => g[k].kept \in Seq(S)}
<1>4. 0 \in P
  BY <1>0, <1>2, <1>3, SMTT(30)
<1>5. ASSUME NEW k \in Nat, k \in P PROVE k + 1 \in P
  <2> SUFFICES ASSUME k + 1 <= n PROVE g[k + 1].kept \in Seq(S)
    BY SMTT(30)
  <2>1. g[k + 1] = retain(g[k], x, max, l[k + 1])
    BY <1>0, <1>2, SMTT(30)
  <2>2. g[k].kept \in Seq(S) /\ l[k + 1] \in S
    BY <1>0, <1>5, SMTT(30)
  <2> QED
    BY <2>1, <2>2, SMTT(30) DEF retain
<1> HIDE DEF P
<1>6. n \in P
  BY <1>0, <1>4, <1>5, NatSetInduction
<1> QED
  BY <1>1, <1>6, SMTT(30) DEF P

LEMMA IndexLoop ==
  ASSUME NEW S, NEW l \in Seq(S), NEW x, NEW max
  PROVE  LastIndices(l, x, max) \in Seq(Int)
<1> DEFINE n == Len(l)
           g == CHOOSE f : f = [i \in 0 .. n |-> IF i = 0 THEN <<>> ELSE note_index(f[i - 1], l, x, max, n + 1 - i)]
<1>0. n \in Nat
  BY SMTT(30)
<1>1. LastIndices(l, x, max) = g[n]
  BY DEF LastIndices
<1> HIDE DEF n
<1>2. g = [i \in 0 .. n |-> IF i = 0 THEN <<>> ELSE note_index(g[i - 1], l, x, max, n + 1 - i)]
  <2> DEFINE xs == [i \in 1 .. n |-> <<l, x, max, n + 1 - i>>]
  <2>1. PICK f : Rounds(f, "index", <<>>, xs, n)
    BY <1>0, RoundsExist
  <2>2. \A i \in 0 .. n : f[i] = IF i = 0 THEN <<>> ELSE note_index(f[i - 1], l, x, max, n + 1 - i)
    <3>1. \A i \in 1 .. n : xs[i][1] = l /\ xs[i][2] = x /\ xs[i][3] = max /\ xs[i][4] = n + 1 - i
      BY <1>0
    <3>2. \A i \in 0 .. n :
            f[i] = IF i = 0 THEN <<>> ELSE note_index(f[i - 1], xs[i][1], xs[i][2], xs[i][3], xs[i][4])
      <4> HIDE DEF xs
      <4> QED
        BY <1>0, <2>1 DEF Rounds, Round
    <3> HIDE DEF xs
    <3> QED
      <4> SUFFICES ASSUME NEW i \in 0 .. n
                   PROVE  f[i] = IF i = 0 THEN <<>> ELSE note_index(f[i - 1], l, x, max, n + 1 - i)
        OBVIOUS
      <4>1. CASE i = 0
        BY <3>2, <4>1
      <4>2. CASE i # 0
        <5>1. i \in 1 .. n
          BY <1>0, <4>2, SMTT(30)
        <5> QED
          BY <3>1, <3>2, <4>2, <5>1
      <4> QED
        BY <4>1, <4>2
  <2>3. f = [i \in 0 .. n |-> IF i = 0 THEN <<>> ELSE note_index(f[i - 1], l, x, max, n + 1 - i)]
    BY <2>1, <2>2 DEF Rounds
  <2> QED
    BY <2>3
<1> HIDE DEF g
<1> DEFINE P == {k \in Nat : k <= n => g[k] \in Seq(Int)}
<1>4. 0 \in P
  <2>1. g[0] = <<>>
    BY <1>0, <1>2, SMTT(30)
  <2>2. <<>> \in Seq(Int) /\ 0 \in Nat
    BY SMTT(30)
  <2> QED
    BY <2>1, <2>2
<1>5. ASSUME NEW k \in Nat, k \in P PROVE k + 1 \in P
  <2> SUFFICES ASSUME k + 1 <= n PROVE g[k + 1] \in Seq(Int)
    BY SMTT(30)
  <2>1. g[k + 1] = note_index(g[k], l, x, max, n - k)
    BY <1>0, <1>2, SMTT(30)
  <2>2. g[k] \in Seq(Int) /\ n - k \in Int
    BY <1>0, <1>5, SMTT(30)
  <2> QED
    BY <2>1, <2>2, SMTT(30) DEF note_index
<1> HIDE DEF P
<1>6. n \in P
  BY <1>0, <1>4, <1>5, NatSetInduction
<1> QED
  BY <1>1, <1>6, SMTT(30) DEF P

LEMMA TailLoop ==
  ASSUME NEW S, NEW l \in Seq(S), NEW x, NEW max
  PROVE  RemoveFromTail(l, x, max) \in Seq(S)
<1> DEFINE at == LastIndices(l, x, max)
           n == Len(at)
           g == CHOOSE f : f = [i \in 0 .. n |-> IF i = 0 THEN l ELSE remove_at(f[i - 1], at[i])]
<1>0. n \in Nat
  <2>1. at \in Seq(Int)
    BY IndexLoop
  <2> QED
    BY <2>1, SMTT(30)
<1>1. RemoveFromTail(l, x, max) = g[n]
  BY DEF RemoveFromTail
<1> HIDE DEF n, at
<1>2. g = [i \in 0 .. n |-> IF i = 0 THEN l ELSE remove_at(g[i - 1], at[i])]
  <2>1. PICK f : Rounds(f, "drop", l, at, n)
    BY <1>0, RoundsExist
  <2>2. f = [i \in 0 .. n |-> IF i = 0 THEN l ELSE remove_at(f[i - 1], at[i])]
    BY <2>1 DEF Rounds, Round
  <2> QED
    BY <2>2
<1> HIDE DEF g
<1> DEFINE P == {k \in Nat : k <= n => g[k] \in Seq(S)}
<1>4. 0 \in P
  BY <1>0, <1>2, SMTT(30)
<1>5. ASSUME NEW k \in Nat, k \in P PROVE k + 1 \in P
  <2> SUFFICES ASSUME k + 1 <= n PROVE g[k + 1] \in Seq(S)
    BY SMTT(30)
  <2>1. g[k + 1] = remove_at(g[k], at[k + 1])
    BY <1>0, <1>2, SMTT(30)
  <2>2. g[k] \in Seq(S)
    BY <1>0, <1>5, SMTT(30)
  <2> QED
    BY <2>1, <2>2, RemoveAtIs
<1> HIDE DEF P
<1>6. n \in P
  BY <1>0, <1>4, <1>5, NatSetInduction
<1> QED
  BY <1>1, <1>6, SMTT(30) DEF P

(* The loop of HSET leaves a map that is not empty. *)
LEMMA InsertLoop ==
  ASSUME NEW map, NEW n \in Nat, n # 0, NEW pairs, DOMAIN pairs = 1 .. n
  PROVE  DOMAIN Insert(map, pairs) # {}
<1> DEFINE g == CHOOSE f : f = [i \in 0 .. n |-> IF i = 0 THEN map ELSE With(f[i - 1], pairs[i][1], pairs[i][2])]
<1>1. Insert(map, pairs) = g[n]
  <2>1. Len(pairs) = n
    BY SMTT(30)
  <2> QED
    BY <2>1 DEF Insert
<1>2. g = [i \in 0 .. n |-> IF i = 0 THEN map ELSE With(g[i - 1], pairs[i][1], pairs[i][2])]
  <2>1. PICK f : Rounds(f, "insert", map, pairs, n)
    BY RoundsExist
  <2>2. f = [i \in 0 .. n |-> IF i = 0 THEN map ELSE With(f[i - 1], pairs[i][1], pairs[i][2])]
    BY <2>1 DEF Rounds, Round
  <2> QED
    BY <2>2
<1> HIDE DEF g
<1>3. g[n] = With(g[n - 1], pairs[n][1], pairs[n][2])
  BY <1>2, SMTT(30)
<1> QED
  BY <1>1, <1>3 DEF With

-----------------------------------------------------------------------------
(* What a value of the database is, and what a command that is not one of  *)
(* sorted sets may leave for v.                                            *)
Fine(v) == (v.type = "list" => v.list \in Seq(Elems)) /\ ~IsEmpty(v)
Keeps(v, w) == Fine(w) /\ (w = v \/ w.type # "zset")

(* An absent value, and one that is not empty, is fine. *)
LEMMA KeptIs ==
  ASSUME NEW v, v.type = "list" => v.list \in Seq(Elems)
  PROVE  Fine(Kept(v)) /\ (Kept(v) = v \/ Kept(v).type = "none")
BY DEF Fine, Kept, IsEmpty, Gone

(* Values of the four types. *)
LEMMA ListIs ==
  ASSUME NEW l \in Seq(Elems), NEW v
  PROVE  Keeps(v, Kept(List(l))) /\ (l # <<>> => Keeps(v, List(l)))
<1>1. List(l).type = "list" /\ List(l).list = l
  BY DEF List
<1>2. Fine(Kept(List(l))) /\ Kept(List(l)).type # "zset"
  BY <1>1, KeptIs
<1>3. l # <<>> => Fine(List(l))
  BY <1>1 DEF Fine, IsEmpty
<1> QED
  BY <1>1, <1>2, <1>3 DEF Keeps

LEMMA SetIs ==
  ASSUME NEW s, NEW v
  PROVE  Keeps(v, Kept(SetOf(s))) /\ (s # {} => Keeps(v, SetOf(s)))
<1>1. SetOf(s).type = "set" /\ SetOf(s).set = s
  BY DEF SetOf
<1>2. Fine(Kept(SetOf(s))) /\ Kept(SetOf(s)).type # "zset"
  BY <1>1, KeptIs
<1>3. s # {} => Fine(SetOf(s))
  BY <1>1 DEF Fine, IsEmpty
<1> QED
  BY <1>1, <1>2, <1>3 DEF Keeps

LEMMA HashIs ==
  ASSUME NEW m, NEW v
  PROVE  Keeps(v, Kept(Hash(m))) /\ (DOMAIN m # {} => Keeps(v, Hash(m)))
<1>1. Hash(m).type = "hash" /\ Hash(m).map = m
  BY DEF Hash
<1>2. Fine(Kept(Hash(m))) /\ Kept(Hash(m)).type # "zset"
  BY <1>1, KeptIs
<1>3. DOMAIN m # {} => Fine(Hash(m))
  BY <1>1 DEF Fine, IsEmpty
<1> QED
  BY <1>1, <1>2, <1>3 DEF Keeps

(* The match on the value found. *)
LEMMA TypedIs ==
  ASSUME NEW v, NEW type, type # "none", NEW absent, NEW found
  PROVE  \/ v.type = "none" /\ Typed(v, type, absent, found) = absent
         \/ v.type = type /\ Typed(v, type, absent, found) = found
         \/ v.type # type /\ Typed(v, type, absent, found) = Res(v, WrongType)
BY DEF Typed

LEMMA ResIs ==
  ASSUME NEW v, NEW r
  PROVE  Res(v, r).value = v /\ Res(v, r).reply = r
BY DEF Res

(* What a command keeps, from what both of its arms keep. *)
LEMMA TypedKeeps ==
  ASSUME NEW v, Fine(v), NEW type, type # "none", NEW absent, NEW found,
         v.type = "none" => Keeps(v, absent.value),
         v.type = type => Keeps(v, found.value)
  PROVE  Keeps(v, Typed(v, type, absent, found).value)
<1>1. Keeps(v, v)
  BY DEF Keeps
<1>2. Res(v, WrongType).value = v
  BY ResIs
<1> QED
  BY <1>1, <1>2, TypedIs, SMTT(30)

(* One argument or two. *)
LEMMA Arguments ==
  ASSUME NEW S, NEW xs \in OneOrTwo(S)
  PROVE  /\ xs \in Seq(S)
         /\ \E n \in Nat : n # 0 /\ DOMAIN xs = 1 .. n /\ Len(xs) = n
         /\ Range(xs) # {}
<1>1. xs \in Seq(S) /\ ((DOMAIN xs = 1 .. 1 /\ Len(xs) = 1) \/ (DOMAIN xs = 1 .. 2 /\ Len(xs) = 2))
  <2>1. CASE xs \in {<<x>> : x \in S}
    <3>1. PICK x \in S : xs = <<x>>
      BY <2>1
    <3>2. <<x>> \in Seq(S) /\ Len(<<x>>) = 1 /\ DOMAIN <<x>> = 1 .. 1
      BY SMTT(30)
    <3> QED
      BY <3>1, <3>2
  <2>2. CASE xs \in S \X S
    <3>1. PICK x \in S, y \in S : xs = <<x, y>>
      BY <2>2, SMTT(30)
    <3>2. <<x, y>> \in Seq(S) /\ Len(<<x, y>>) = 2 /\ DOMAIN <<x, y>> = 1 .. 2
      BY SMTT(30)
    <3> QED
      BY <3>1, <3>2
  <2> QED
    BY <2>1, <2>2 DEF OneOrTwo
<1>2. 1 \in DOMAIN xs
  BY <1>1, SMTT(30)
<1> QED
  BY <1>1, <1>2, SMTT(30) DEF Range

(* The smaller and the larger of two numbers. *)
Smaller(a, b) == Min({a, b})
Larger(a, b) == Max({a, b})

LEMMA MinMax ==
  ASSUME NEW a \in Int, NEW b \in Int
  PROVE  /\ Smaller(a, b) = IF a <= b THEN a ELSE b
         /\ Larger(a, b) = IF a >= b THEN a ELSE b
BY SMTT(30) DEF Min, Max, Smaller, Larger

-----------------------------------------------------------------------------
(* Lists. *)

LEMMA PushKeeps ==
  ASSUME NEW v, Fine(v), NEW xs \in OneOrTwo(Elems)
  PROVE  Keeps(v, cmd_lpush(v, xs).value) /\ Keeps(v, cmd_rpush(v, xs).value)
<1> DEFINE front(l) == Backwards(xs) \o l
           back(l) == l \o xs
<1>1. Backwards(xs) \in Seq(Elems) /\ Len(Backwards(xs)) # 0 /\ xs \in Seq(Elems) /\ Len(xs) # 0
  <2>1. PICK n \in Nat : n # 0 /\ Len(xs) = n /\ xs \in Seq(Elems)
    BY Arguments
  <2>2. \A j \in 1 .. n : xs[n + 1 - j] \in Elems
    BY <2>1, SMTT(30)
  <2> QED
    BY <2>1, <2>2, SMTT(30) DEF Backwards
<1>2. ASSUME NEW l \in Seq(Elems)
      PROVE  Keeps(v, List(front(l))) /\ Keeps(v, List(back(l)))
  <2>1. front(l) \in Seq(Elems) /\ Len(front(l)) = Len(Backwards(xs)) + Len(l)
    BY <1>1, SMTT(30)
  <2>2. back(l) \in Seq(Elems) /\ Len(back(l)) = Len(l) + Len(xs)
    BY <1>1, SMTT(30)
  <2>3. Len(l) \in Nat /\ Len(xs) \in Nat /\ Len(Backwards(xs)) \in Nat /\ Len(<<>>) = 0
    BY <1>1, SMTT(30)
  <2> HIDE DEF front, back
  <2>4. front(l) # <<>> /\ back(l) # <<>>
    BY <1>1, <2>1, <2>2, <2>3, SMTT(30)
  <2> QED
    BY <2>1, <2>2, <2>4, ListIs
<1>3. <<>> \in Seq(Elems) /\ (v.type = "list" => v.list \in Seq(Elems))
  BY SMTT(30) DEF Fine
<1>4. cmd_lpush(v, xs) = Typed(v, "list", Res(List(front(<<>>)), IntReply(Len(front(<<>>)))),
                               Res(List(front(v.list)), IntReply(Len(front(v.list)))))
  BY DEF cmd_lpush
<1>5. cmd_rpush(v, xs) = Typed(v, "list", Res(List(back(<<>>)), IntReply(Len(back(<<>>)))),
                               Res(List(back(v.list)), IntReply(Len(back(v.list)))))
  BY DEF cmd_rpush
<1> HIDE DEF front, back
<1>6. /\ Keeps(v, List(front(<<>>))) /\ Keeps(v, List(back(<<>>)))
      /\ v.type = "list" => Keeps(v, List(front(v.list))) /\ Keeps(v, List(back(v.list)))
  BY <1>2, <1>3
<1>7. Keeps(v, cmd_lpush(v, xs).value)
  BY <1>4, <1>6, ResIs, TypedKeeps, SMTT(30)
<1>8. Keeps(v, cmd_rpush(v, xs).value)
  BY <1>5, <1>6, ResIs, TypedKeeps, SMTT(30)
<1> QED
  BY <1>7, <1>8

LEMMA PopKeeps ==
  ASSUME NEW v, Fine(v), NEW single \in BOOLEAN, NEW count \in Int
  PROVE  Keeps(v, cmd_lpop(v, single, count).value) /\ Keeps(v, cmd_rpop(v, single, count).value)
<1> DEFINE n(l) == Taken(l, single, count)
           tail(l) == SubSeq(l, n(l) + 1, Len(l))
           init(l) == SubSeq(l, 1, Len(l) - n(l))
<1>1. ASSUME NEW l \in Seq(Elems) PROVE tail(l) \in Seq(Elems) /\ init(l) \in Seq(Elems)
  <2>1. Len(l) \in Nat
    BY SMTT(30)
  <2> DEFINE c == IF single THEN 1 ELSE Larger(count, 0)
  <2>2. c \in Nat
    BY MinMax, SMTT(30)
  <2>3. n(l) = Smaller(Len(l), c)
    BY DEF Taken, Smaller, Larger
  <2> HIDE DEF c, n
  <2>4. n(l) \in 0 .. Len(l)
    BY <2>1, <2>2, <2>3, MinMax, SMTT(30)
  <2> HIDE DEF n
  <2> QED
    BY <2>1, <2>4, SMTT(30)
<1>2. v.type = "list" => v.list \in Seq(Elems)
  BY DEF Fine
<1>3. Keeps(v, v)
  BY DEF Keeps
<1>4. cmd_lpop(v, single, count) =
        Typed(v, "list", Res(v, Nil), Res(Kept(List(tail(v.list))), Popped(SubSeq(v.list, 1, n(v.list)), single)))
  BY DEF cmd_lpop
<1>5. cmd_rpop(v, single, count) =
        Typed(v, "list", Res(v, Nil),
              Res(Kept(List(init(v.list))),
                  Popped(Backwards(SubSeq(v.list, Len(v.list) - n(v.list) + 1, Len(v.list))), single)))
  BY DEF cmd_rpop
<1> HIDE DEF tail, init, n
<1> QED
  BY <1>1, <1>2, <1>3, <1>4, <1>5, ResIs, ListIs, TypedKeeps, SMTT(30)

LEMMA TrimKeeps ==
  ASSUME NEW v, Fine(v), NEW start \in Int, NEW stop \in Int
  PROVE  Keeps(v, cmd_ltrim(v, start, stop).value)
<1>1. ASSUME NEW l \in Seq(Elems) PROVE Slice(l, start, stop) \in Seq(Elems)
  <2> DEFINE s == IF start < 0 THEN Larger(Len(l) + start, 0) ELSE Smaller(start, Len(l))
             e == IF stop < 0 THEN Larger(Len(l) + stop, 0) ELSE Smaller(stop, Len(l) - 1)
  <2>1. Len(l) \in Nat
    BY SMTT(30)
  <2>2. s \in Nat
    BY <2>1, MinMax, SMTT(30)
  <2>3. e \in Int /\ (e <= Len(l) - 1 \/ e = 0)
    BY <2>1, MinMax, SMTT(30)
  <2>4. Slice(l, start, stop) = IF s > e \/ s >= Len(l) THEN <<>> ELSE SubSeq(l, s + 1, e + 1)
    BY DEF Slice, Smaller, Larger
  <2> HIDE DEF s, e
  <2>5. CASE s > e \/ s >= Len(l)
    BY <2>4, <2>5, SMTT(30)
  <2>6. CASE ~(s > e \/ s >= Len(l))
    <3>1. e + 1 <= Len(l) /\ s + 1 >= 1
      BY <2>1, <2>2, <2>3, <2>6, SMTT(30)
    <3> QED
      BY <2>1, <2>2, <2>3, <2>4, <2>6, <3>1, SMTT(30)
  <2> QED
    BY <2>5, <2>6
<1>2. v.type = "list" => v.list \in Seq(Elems)
  BY DEF Fine
<1>3. Keeps(v, v)
  BY DEF Keeps
<1> QED
  BY <1>1, <1>2, <1>3, ResIs, ListIs, TypedKeeps, SMTT(30) DEF cmd_ltrim

LEMMA SetAtKeeps ==
  ASSUME NEW v, Fine(v), NEW idx, NEW x \in Elems
  PROVE  Keeps(v, cmd_lset(v, idx, x).value)
<1>1. ASSUME NEW l \in Seq(Elems), NEW p \in DOMAIN l
      PROVE  [l EXCEPT ![p] = x] \in Seq(Elems) /\ [l EXCEPT ![p] = x] # <<>>
  <2>1. [l EXCEPT ![p] = x] \in Seq(Elems)
    BY SMTT(30)
  <2>2. p \in DOMAIN [l EXCEPT ![p] = x] /\ DOMAIN <<>> = {}
    BY SMTT(30)
  <2> QED
    BY <2>1, <2>2
<1>2. v.type = "list" => v.list \in Seq(Elems)
  BY DEF Fine
<1>3. Keeps(v, v)
  BY DEF Keeps
<1> DEFINE p == At(v.list, idx)
           found == IF p \in DOMAIN v.list THEN Res(List([v.list EXCEPT ![p] = x]), Ok) ELSE Res(v, Err)
<1>4. v.type = "list" => Keeps(v, found.value)
  BY <1>1, <1>2, <1>3, ResIs, ListIs, SMTT(30)
<1>5. cmd_lset(v, idx, x) = Typed(v, "list", Res(v, Err), found)
  BY DEF cmd_lset
<1> HIDE DEF found
<1> QED
  BY <1>3, <1>4, <1>5, ResIs, TypedKeeps, SMTT(30)

LEMMA RemKeeps ==
  ASSUME NEW v, Fine(v), NEW count, NEW x
  PROVE  Keeps(v, cmd_lrem(v, count, x).value)
<1> DEFINE max(l) == IF count = 0 THEN Len(l) ELSE Max({count, -count})
           new(l) == IF count >= 0 THEN RemoveFromHead(l, x, max(l)) ELSE RemoveFromTail(l, x, max(l))
           found == Res(Kept(List(new(v.list))), IntReply(Len(v.list) - Len(new(v.list))))
<1>1. ASSUME NEW l \in Seq(Elems) PROVE new(l) \in Seq(Elems)
  <2> HIDE DEF max
  <2> QED
    BY HeadLoop, TailLoop
<1>2. v.type = "list" => v.list \in Seq(Elems)
  BY DEF Fine
<1>3. Keeps(v, v)
  BY DEF Keeps
<1>4. cmd_lrem(v, count, x) = Typed(v, "list", Res(v, IntReply(0)), found)
  BY DEF cmd_lrem
<1> HIDE DEF new
<1>5. v.type = "list" => Keeps(v, found.value)
  <2>1. found.value = Kept(List(new(v.list)))
    BY ResIs
  <2> HIDE DEF found
  <2>2. v.type = "list" => Keeps(v, Kept(List(new(v.list))))
    BY <1>1, <1>2, ListIs
  <2> QED
    BY <2>1, <2>2
<1> HIDE DEF found
<1> QED
  BY <1>3, <1>4, <1>5, ResIs, TypedKeeps, SMTT(30)

LEMMA InsertKeeps ==
  ASSUME NEW v, Fine(v), NEW before \in BOOLEAN, NEW pivot, NEW x \in Elems
  PROVE  Keeps(v, cmd_linsert(v, before, pivot, x).value)
<1> DEFINE at(l) == Min({i \in DOMAIN l : l[i] = pivot})
           p(l) == IF before THEN at(l) ELSE at(l) + 1
           new(l) == insert_at(l, p(l), x)
           found(l) == IF pivot \notin Range(l) THEN Res(List(l), IntReply(-1))
                       ELSE Res(List(new(l)), IntReply(Len(l) + 1))
<1>1. ASSUME NEW l \in Seq(Elems), pivot \in Range(l) PROVE new(l) \in Seq(Elems) /\ new(l) # <<>>
  <2> DEFINE n == Len(l)
  <2>1. n \in Nat /\ DOMAIN l = 1 .. n /\ \A i \in 1 .. n : l[i] \in Elems
    BY SMTT(30)
  <2>2. at(l) \in 1 .. n
    <3> DEFINE I == {i \in DOMAIN l : l[i] = pivot}
    <3>1. I # {} /\ I \in SUBSET Nat
      BY <1>1, <2>1, SMTT(30) DEF Range
    <3>2. \E i \in I : \A j \in I : i <= j
      BY <3>1, LeastOf
    <3>3. Min(I) \in I
      <4> HIDE DEF I
      <4> QED
        BY <3>2 DEF Min
    <3> QED
      BY <2>1, <3>3
  <2>3. p(l) \in 1 .. n + 1
    <3> HIDE DEF at
    <3> QED
      BY <2>1, <2>2, SMTT(30)
  <2>4. new(l) = [j \in 1 .. n + 1 |-> IF j < p(l) THEN l[j] ELSE IF j = p(l) THEN x ELSE l[j - 1]]
    BY DEF insert_at
  <2> HIDE DEF p, new, n
  <2>5. \A j \in 1 .. n + 1 : new(l)[j] \in Elems
    BY <2>1, <2>3, <2>4, SMTT(30)
  <2>6. n + 1 \in Nat /\ DOMAIN new(l) = 1 .. n + 1 /\ new(l) \in [1 .. n + 1 -> Elems]
    BY <2>1, <2>4, <2>5, SMTT(30)
  <2>7. new(l) \in Seq(Elems)
    BY <2>6, SMTT(30)
  <2>8. 1 \in DOMAIN new(l) /\ DOMAIN <<>> = {}
    BY <2>1, <2>6, SMTT(30)
  <2> QED
    BY <2>7, <2>8
<1>2. v.type = "list" => v.list \in Seq(Elems) /\ v.list # <<>>
  BY DEF Fine, IsEmpty
<1>3. Keeps(v, v)
  BY DEF Keeps
<1>4. v.type = "list" => Keeps(v, found(v.list).value)
  <2> HIDE DEF new
  <2> QED
    BY <1>1, <1>2, ResIs, ListIs, SMTT(30)
<1>5. cmd_linsert(v, before, pivot, x) = Typed(v, "list", Res(v, IntReply(0)), found(v.list))
  BY DEF cmd_linsert
<1> HIDE DEF found
<1> QED
  BY <1>3, <1>4, <1>5, ResIs, TypedKeeps, SMTT(30)

-----------------------------------------------------------------------------
(* Sets and hashes. *)

LEMMA SetKeeps ==
  ASSUME NEW v, Fine(v), NEW xs \in OneOrTwo(Elems), NEW m
  PROVE  /\ Keeps(v, cmd_sadd(v, xs).value)
         /\ Keeps(v, cmd_srem(v, xs).value)
         /\ Keeps(v, cmd_spop(v, m).value)
<1>1. Keeps(v, v)
  BY DEF Keeps
<1>2. Keeps(v, cmd_sadd(v, xs).value)
  <2> DEFINE add(s) == Res(SetOf(s \cup Range(xs)), IntReply(Cardinality(Range(xs) \ s)))
  <2>1. ASSUME NEW s PROVE Keeps(v, add(s).value)
    <3>1. s \cup Range(xs) # {}
      BY Arguments
    <3> QED
      BY <3>1, ResIs, SetIs, SMTT(30)
  <2>2. cmd_sadd(v, xs) = Typed(v, "set", add({}), add(v.set))
    BY DEF cmd_sadd
  <2> HIDE DEF add
  <2> QED
    BY <2>1, <2>2, TypedKeeps
<1>3. Keeps(v, cmd_srem(v, xs).value)
  BY <1>1, ResIs, SetIs, TypedKeeps, SMTT(30) DEF cmd_srem
<1>4. Keeps(v, cmd_spop(v, m).value)
  <2> DEFINE found == IF m \in v.set THEN Res(Kept(SetOf(v.set \ {m})), Bulk(m)) ELSE Res(v, Nil)
  <2>1. Keeps(v, found.value)
    BY <1>1, ResIs, SetIs, SMTT(30)
  <2>2. cmd_spop(v, m) = Typed(v, "set", Res(v, Nil), found)
    BY DEF cmd_spop
  <2> HIDE DEF found
  <2> QED
    BY <1>1, <2>1, <2>2, ResIs, TypedKeeps, SMTT(30)
<1> QED
  BY <1>2, <1>3, <1>4

(* One pair or two make a hash that is not empty. *)
LEMMA InsertSome ==
  ASSUME NEW S, NEW pairs \in OneOrTwo(S), NEW m, NEW v
  PROVE  Keeps(v, Hash(Insert(m, pairs)))
<1>1. DOMAIN Insert(m, pairs) # {}
  <2>1. PICK n \in Nat : n # 0 /\ DOMAIN pairs = 1 .. n
    BY Arguments
  <2> QED
    BY <2>1, InsertLoop
<1> QED
  BY <1>1, HashIs

LEMMA InsertOne ==
  ASSUME NEW f, NEW x, NEW m, NEW v
  PROVE  Keeps(v, Hash(Insert(m, <<<<f, x>>>>))) /\ Keeps(v, Hash(With(m, f, x)))
<1>1. <<<<f, x>>>> \in OneOrTwo({<<f, x>>})
  BY DEF OneOrTwo
<1>2. DOMAIN With(m, f, x) # {}
  BY DEF With
<1> HIDE DEF OneOrTwo
<1> QED
  BY <1>1, <1>2, InsertSome, HashIs

LEMMA HashSetKeeps ==
  ASSUME NEW v, Fine(v), NEW even \in BOOLEAN, NEW S, NEW pairs \in OneOrTwo(S)
  PROVE  Keeps(v, cmd_hset(v, even, pairs).value) /\ Keeps(v, cmd_hmset(v, even, pairs).value)
<1> DEFINE set(m) == Res(Hash(Insert(m, pairs)), IntReply(Cardinality(DOMAIN Insert(m, pairs) \ DOMAIN m)))
           mset(m) == Res(Hash(Insert(m, pairs)), Ok)
<1>1. Keeps(v, v) /\ Res(v, Err).value = v
  BY ResIs DEF Keeps
<1>2. ASSUME NEW m PROVE Keeps(v, set(m).value) /\ Keeps(v, mset(m).value)
  <2>1. set(m).value = Hash(Insert(m, pairs)) /\ mset(m).value = Hash(Insert(m, pairs))
    BY ResIs
  <2> HIDE DEF set, mset
  <2> QED
    BY <2>1, InsertSome
<1>3. cmd_hset(v, even, pairs) = IF ~even THEN Res(v, Err) ELSE Typed(v, "hash", set(<<>>), set(v.map))
  BY DEF cmd_hset
<1>4. cmd_hmset(v, even, pairs) = IF ~even THEN Res(v, Err) ELSE Typed(v, "hash", mset(<<>>), mset(v.map))
  BY DEF cmd_hmset
<1> HIDE DEF set, mset
<1>5. Keeps(v, cmd_hset(v, even, pairs).value)
  BY <1>1, <1>2, <1>3, TypedKeeps
<1>6. Keeps(v, cmd_hmset(v, even, pairs).value)
  BY <1>1, <1>2, <1>4, TypedKeeps
<1> QED
  BY <1>5, <1>6

LEMMA HashKeeps ==
  ASSUME NEW v, Fine(v), NEW f, NEW x, NEW fs, NEW d
  PROVE  /\ Keeps(v, cmd_hsetnx(v, f, x).value)
         /\ Keeps(v, cmd_hdel(v, fs).value)
         /\ Keeps(v, cmd_hincrby(v, f, d).value)
         /\ Keeps(v, cmd_hincrbyfloat(v, f, d).value)
<1>1. Keeps(v, v)
  BY DEF Keeps
<1>2. Keeps(v, cmd_hsetnx(v, f, x).value)
  <2> DEFINE found == IF f \in DOMAIN v.map THEN Res(v, IntReply(0))
                      ELSE Res(Hash(Insert(v.map, <<<<f, x>>>>)), IntReply(1))
             absent == Res(Hash(With(<<>>, f, x)), IntReply(1))
  <2>1. Keeps(v, found.value)
    BY <1>1, ResIs, InsertOne, SMTT(30)
  <2>2. Keeps(v, absent.value)
    <3>1. absent.value = Hash(With(<<>>, f, x))
      BY ResIs
    <3>2. \A m : Keeps(v, Hash(With(m, f, x)))
      BY InsertOne
    <3> QED
      BY <3>1, <3>2
  <2>3. cmd_hsetnx(v, f, x) = Typed(v, "hash", absent, found)
    BY DEF cmd_hsetnx
  <2> HIDE DEF found, absent
  <2> QED
    BY <2>1, <2>2, <2>3, TypedKeeps
<1>3. Keeps(v, cmd_hdel(v, fs).value)
  <2> DEFINE m == [y \in DOMAIN v.map \ Range(fs) |-> v.map[y]]
             found == Res(Kept(Hash(m)), IntReply(Cardinality(DOMAIN v.map \cap Range(fs))))
  <2>1. Keeps(v, found.value)
    <3> HIDE DEF m
    <3> QED
      BY ResIs, HashIs, SMTT(30)
  <2>2. cmd_hdel(v, fs) = Typed(v, "hash", Res(v, IntReply(0)), found)
    BY DEF cmd_hdel
  <2> HIDE DEF found
  <2> QED
    BY <1>1, <2>1, <2>2, ResIs, TypedKeeps, SMTT(30)
<1>4. Keeps(v, cmd_hincrby(v, f, d).value)
  <2> DEFINE n(m) == i64(parse_i64(Lookup(m, f, 0)) + d)
             incr(m) == Res(Hash(Insert(m, <<<<f, 2 * n(m)>>>>)), IntReply(n(m)))
  <2>1. ASSUME NEW m PROVE Keeps(v, incr(m).value)
    <3> HIDE DEF n
    <3> QED
      BY ResIs, InsertOne, SMTT(30)
  <2>2. cmd_hincrby(v, f, d) = Typed(v, "hash", incr(<<>>), incr(v.map))
    BY DEF cmd_hincrby
  <2> HIDE DEF incr
  <2> QED
    BY <2>1, <2>2, TypedKeeps
<1>5. Keeps(v, cmd_hincrbyfloat(v, f, d).value)
  <2> DEFINE n(m) == parse_f64(Lookup(m, f, 0)) + d
             incr(m) == Res(Hash(Insert(m, <<<<f, n(m)>>>>)), Bulk(n(m)))
  <2>1. ASSUME NEW m PROVE Keeps(v, incr(m).value)
    <3> HIDE DEF n
    <3> QED
      BY ResIs, InsertOne, SMTT(30)
  <2>2. cmd_hincrbyfloat(v, f, d) = Typed(v, "hash", incr(<<>>), incr(v.map))
    BY DEF cmd_hincrbyfloat
  <2> HIDE DEF incr
  <2> QED
    BY <2>1, <2>2, TypedKeeps
<1> QED
  BY <1>2, <1>3, <1>4, <1>5

-----------------------------------------------------------------------------
(* Sorted sets.  A command leaves a sorted set in step if it found one and *)
(* no score became NaN.                                                    *)
Sound(v) == v.type = "zset" => Good(v)
StaysSound(v, w, nan) == Fine(w) /\ (Sound(v) /\ ~nan => Sound(w))

LEMMA ZSetIs ==
  ASSUME NEW z, z.type = "zset"
  PROVE  /\ Fine(Kept(z)) /\ (Good(z) => Sound(Kept(z)))
         /\ DOMAIN z.members # {} => Fine(z)
         /\ Good(z) <=> Sound(z)
<1>1. Fine(Kept(z)) /\ (Kept(z) = z \/ Kept(z).type = "none")
  BY KeptIs
<1> QED
  BY <1>1 DEF Fine, IsEmpty, Sound

(* The same for the two arms of a match. *)
LEMMA TypedSound ==
  ASSUME NEW v, Fine(v), NEW absent, NEW found, NEW nan \in BOOLEAN,
         v.type = "none" => StaysSound(v, absent.value, nan),
         v.type = "zset" => StaysSound(v, found.value, nan)
  PROVE  StaysSound(v, Typed(v, "zset", absent, found).value, nan)
<1>1. StaysSound(v, v, nan)
  BY DEF StaysSound
<1>2. Res(v, WrongType).value = v
  BY ResIs
<1> QED
  BY <1>1, <1>2, TypedIs, SMTT(30)

LEMMA RemSound ==
  ASSUME NEW v, Fine(v), NEW ms \in OneOrTwo(Members)
  PROVE  StaysSound(v, cmd_zrem(v, ms).value, FALSE)
<1> DEFINE new == remove_all(v, ms)
           found == Res(Kept(new), IntReply(Cardinality(DOMAIN v.members \ DOMAIN new.members)))
<1>1. cmd_zrem(v, ms) = Typed(v, "zset", Res(v, IntReply(0)), found)
  BY DEF cmd_zrem
<1>2. v.type = "zset" => new.type = "zset" /\ (Good(v) => Good(new))
  <2>1. PICK n \in Nat : n # 0 /\ DOMAIN ms = 1 .. n
    BY Arguments
  <2> QED
    BY <2>1, RemoveLoop
<1> HIDE DEF new
<1>3. v.type = "zset" => StaysSound(v, found.value, FALSE)
  <2>1. found.value = Kept(new)
    BY ResIs
  <2> HIDE DEF found
  <2> QED
    BY <1>2, <2>1, ZSetIs DEF StaysSound
<1>4. StaysSound(v, Res(v, IntReply(0)).value, FALSE)
  BY ResIs DEF StaysSound
<1> HIDE DEF found
<1> QED
  BY <1>1, <1>3, <1>4, TypedSound

LEMMA PopSound ==
  ASSUME NEW v, Fine(v), NEW count \in Nat, NEW rev \in BOOLEAN
  PROVE  StaysSound(v, zpop_impl(v, count, rev).value, FALSE)
<1> DEFINE end == pop_entries(v, count, rev)
           found == Res(Kept(end.z), Array(end.popped))
<1>1. zpop_impl(v, count, rev) = Typed(v, "zset", Res(v, Array(<<>>)), found)
  BY DEF zpop_impl
<1>2. v.type = "zset" => end.z.type = "zset" /\ (Good(v) => Good(end.z))
  BY PopLoop
<1> HIDE DEF end
<1>3. v.type = "zset" => StaysSound(v, found.value, FALSE)
  <2>1. found.value = Kept(end.z)
    BY ResIs
  <2> HIDE DEF found
  <2> QED
    BY <1>2, <2>1, ZSetIs DEF StaysSound
<1>4. StaysSound(v, Res(v, Array(<<>>)).value, FALSE)
  BY ResIs DEF StaysSound
<1> HIDE DEF found
<1> QED
  BY <1>1, <1>3, <1>4, TypedSound

(* One sum of scores. *)
LEMMA SumIs ==
  ASSUME NEW x \in Int, NEW y \in Int
  PROVE  Sum(x, y) \in Int
<1>1. CASE {x, y} \cap {Inf, -Inf} # {}
  <2>1. (CHOOSE z \in {x, y} : z \in {Inf, -Inf}) \in {x, y}
    BY <1>1
  <2> QED
    BY <1>1, <2>1, SMTT(30) DEF Sum, NaN
<1>2. CASE {x, y} \cap {Inf, -Inf} = {}
  BY <1>2, SMTT(30) DEF Sum, NaN
<1> QED
  BY <1>1, <1>2

(* One member added. *)
LEMMA AddOneSound ==
  ASSUME NEW z, NEW m \in Int, NEW s \in Int
  PROVE  Fine(zset_add(z, m, s)) /\ (Good(z) /\ s # NaN => Sound(zset_add(z, m, s)))
<1> DEFINE new == zset_add(z, m, s)
<1>1. new.type = "zset" /\ DOMAIN new.members # {}
  BY DEF zset_add, ZSet, With
<1>2. Good(z) /\ s # NaN => Good(new)
  BY AddGood DEF Score
<1> HIDE DEF new
<1>3. Fine(new) /\ (Good(z) /\ s # NaN => Sound(new))
  BY <1>1, <1>2, ZSetIs
<1> QED
  BY <1>3 DEF new

LEMMA IncrSound ==
  ASSUME NEW v, Fine(v), NEW m \in Members, NEW delta \in Int
  PROVE  StaysSound(v, cmd_zincrby(v, delta, m).value, cmd_zincrby(v, delta, m).reply = Bulk(NaN))
<1> DEFINE s == Sum(Lookup(v.members, m, 0), delta)
           found == Res(zset_add(v, m, s), Bulk(s))
           absent == Res(zset_add(new_zset, m, delta), Bulk(delta))
           r == cmd_zincrby(v, delta, m)
<1>0. m \in Int
  BY CollectionsAssumption
<1>1. r = Typed(v, "zset", absent, found)
  BY DEF cmd_zincrby
<1>2. ASSUME v.type = "zset", r = found
      PROVE  StaysSound(v, found.value, r.reply = Bulk(NaN))
  <2>1. found.value = zset_add(v, m, s) /\ found.reply = Bulk(s)
    BY ResIs
  <2>2. Good(v) => s \in Int
    <3> SUFFICES ASSUME Good(v) PROVE s \in Int
      OBVIOUS
    <3>1. Lookup(v.members, m, 0) \in Int
      BY GoodSays, SMTT(30) DEF Lookup, Score
    <3> QED
      BY <3>1, SumIs
  <2> HIDE DEF s, r, found
  <2>3. r.reply # Bulk(NaN) => s # NaN
    BY <1>2, <2>1
  <2>4. Fine(zset_add(v, m, s))
    <3>1. zset_add(v, m, s).type = "zset" /\ DOMAIN zset_add(v, m, s).members # {}
      BY DEF zset_add, ZSet, With
    <3> QED
      BY <3>1, ZSetIs
  <2>5. Sound(v) => Good(v)
    BY <1>2 DEF Sound
  <2> QED
    BY <1>0, <2>1, <2>2, <2>3, <2>4, <2>5, AddOneSound DEF StaysSound
<1>3. ASSUME r = absent
      PROVE  StaysSound(v, absent.value, r.reply = Bulk(NaN))
  <2>1. absent.value = zset_add(new_zset, m, delta) /\ absent.reply = Bulk(delta)
    BY ResIs
  <2> HIDE DEF r, absent
  <2>2. r.reply # Bulk(NaN) => delta # NaN
    BY <1>3, <2>1
  <2> QED
    BY <1>0, <2>1, <2>2, NewIsGood, AddOneSound DEF StaysSound
<1>4. StaysSound(v, v, r.reply = Bulk(NaN)) /\ Res(v, WrongType).value = v
  BY ResIs DEF StaysSound
<1> HIDE DEF r, absent, found
<1>5. \/ v.type = "none" /\ r = absent
      \/ v.type = "zset" /\ r = found
      \/ v.type # "zset" /\ r = Res(v, WrongType)
  BY <1>1, TypedIs, SMTT(30)
<1>6. StaysSound(v, r.value, r.reply = Bulk(NaN))
  BY <1>2, <1>3, <1>4, <1>5
<1> QED
  BY <1>6 DEF r

(* One pair or two. *)
LEMMA PairsAre ==
  ASSUME NEW pairs \in ScorePairs
  PROVE  \E n \in Nat :
           /\ n # 0 /\ DOMAIN pairs = 1 .. n
           /\ \A i \in 1 .. n : pairs[i][1] \in Int /\ pairs[i][2] \in Int
<1>1. Scores \subseteq Int /\ Members \subseteq Int /\ Numbers \cup {Unparsed} \subseteq Int
  BY CollectionsAssumption, SMTT(30) DEF Scores, Inf, NaN, Unparsed
<1>2. CASE pairs \in {<<p>> : p \in Scores \X Members}
  <2>1. PICK p \in Scores \X Members : pairs = <<p>>
    BY <1>2
  <2>2. p[1] \in Int /\ p[2] \in Int
    BY <1>1
  <2>3. DOMAIN <<p>> = 1 .. 1 /\ <<p>>[1] = p
    BY SMTT(30)
  <2>4. \A i \in 1 .. 1 : i = 1
    BY SMTT(30)
  <2> QED
    BY <2>1, <2>2, <2>3, <2>4, SMTT(30)
<1>3. CASE pairs \in (Scores \X Members) \X ((Numbers \cup {Unparsed}) \X Members)
  <2>1. PICK p \in Scores \X Members, q \in (Numbers \cup {Unparsed}) \X Members : pairs = <<p, q>>
    BY <1>3, SMTT(30)
  <2>2. p[1] \in Int /\ p[2] \in Int /\ q[1] \in Int /\ q[2] \in Int
    BY <1>1
  <2>3. DOMAIN <<p, q>> = 1 .. 2 /\ <<p, q>>[1] = p /\ <<p, q>>[2] = q
    BY SMTT(30)
  <2>4. \A i \in 1 .. 2 : i = 1 \/ i = 2
    BY SMTT(30)
  <2> QED
    BY <2>1, <2>2, <2>3, <2>4, SMTT(30)
<1> QED
  BY <1>2, <1>3 DEF ScorePairs

LEMMA AddSound ==
  ASSUME NEW v, Fine(v), NEW pairs \in ScorePairs
  PROVE  StaysSound(v, cmd_zadd(v, pairs).value,
                    cmd_zadd(v, pairs).reply[1] = "int" /\ NaN \in {p[1] : p \in Range(pairs)})
<1> DEFINE new(z) == add_pairs(z, pairs)
           add(z) == Res(new(z), IntReply(Cardinality(DOMAIN new(z).members \ DOMAIN z.members)))
           r == cmd_zadd(v, pairs)
           hasNaN == NaN \in {p[1] : p \in Range(pairs)}
           nan == r.reply[1] = "int" /\ hasNaN
<1>1. r = IF \E p \in Range(pairs) : p[1] = Unparsed THEN Res(v, Err) ELSE Typed(v, "zset", add(new_zset), add(v))
  BY DEF cmd_zadd
<1>2. PICK n \in Nat : /\ n # 0 /\ DOMAIN pairs = 1 .. n
                       /\ \A i \in 1 .. n : pairs[i][1] \in Int /\ pairs[i][2] \in Int
  BY PairsAre
<1>3. hasNaN \/ \A i \in 1 .. n : pairs[i][1] \in Score /\ pairs[i][2] \in Int
  BY <1>2 DEF Range, Score
<1>4. ASSUME NEW z PROVE Fine(new(z)) /\ (Good(z) /\ ~hasNaN => Sound(new(z)))
  <2>1. /\ new(z).type = "zset"
        /\ DOMAIN new(z).members # {}
        /\ Good(z) /\ ~hasNaN => Good(new(z))
    <3> HIDE DEF hasNaN
    <3> QED
      BY <1>2, <1>3, AddLoop
  <2> HIDE DEF new, hasNaN
  <2> QED
    BY <2>1, ZSetIs
<1>5. ASSUME NEW z PROVE add(z).value = new(z) /\ add(z).reply[1] = "int"
  BY ResIs, SMTT(30) DEF IntReply
<1>6. StaysSound(v, v, nan) /\ Res(v, WrongType).value = v /\ Res(v, Err).value = v
  BY ResIs DEF StaysSound
<1> HIDE DEF new, add, r, hasNaN
<1>7. ASSUME v.type = "zset", r = add(v) PROVE StaysSound(v, r.value, nan)
  BY <1>4, <1>5, <1>7 DEF StaysSound, Sound
<1>8. ASSUME r = add(new_zset) PROVE StaysSound(v, r.value, nan)
  BY <1>4, <1>5, <1>8, NewIsGood DEF StaysSound
<1>9. \/ r = Res(v, Err)
      \/ r = add(new_zset)
      \/ v.type = "zset" /\ r = add(v)
      \/ r = Res(v, WrongType)
  BY <1>1, TypedIs, SMTT(30)
<1>10. StaysSound(v, r.value, nan)
  BY <1>6, <1>7, <1>8, <1>9
<1> QED
  BY <1>10 DEF r, hasNaN

-----------------------------------------------------------------------------
(* The inductive invariant: no value is empty, lists are lists, and sorted *)
(* sets without NaN are in step.                                           *)
ColInv ==
  /\ DOMAIN db = DataKeys
  /\ \A k \in DataKeys : Fine(db[k]) /\ (k \notin nanned => Sound(db[k]))

(* A command that leaves such a value keeps it. *)
LEMMA LeavesKeeps ==
  ASSUME ColInv, NEW k \in DataKeys, NEW w, NEW nan \in BOOLEAN, Leaves(k, w, nan),
         StaysSound(db[k], w, nan)
  PROVE  ColInv'
<1>1. DOMAIN db' = DataKeys /\ db'[k] = w /\ \A j \in DataKeys : j # k => db'[j] = db[j]
  BY DEF ColInv, Leaves
<1>2. \A j \in DataKeys : j # k => (j \in nanned' <=> j \in nanned)
  BY DEF Leaves
<1>3. k \notin nanned' => ~nan /\ (w.type # "zset" \/ k \notin nanned)
  BY DEF Leaves
<1>4. Fine(w) /\ (k \notin nanned' => Sound(w))
  BY <1>3 DEF ColInv, StaysSound, Sound
<1> QED
  BY <1>1, <1>2, <1>4 DEF ColInv

LEMMA RunKeeps ==
  ASSUME ColInv, NEW k \in DataKeys, NEW res, Run(k, res), Keeps(db[k], res.value)
  PROVE  ColInv'
<1>1. StaysSound(db[k], res.value, FALSE)
  BY DEF Keeps, StaysSound, Sound
<1> QED
  BY <1>1, LeavesKeeps DEF Run

LEMMA ListStep ==
  ASSUME ColInv, NEW k \in DataKeys, ListCommand(k)
  PROVE  ColInv'
<1> DEFINE v == db[k]
<1>0. Fine(v)
  BY DEF ColInv
<1> HIDE DEF v
<1>1. ASSUME NEW xs \in OneOrTwo(Elems), Run(k, cmd_lpush(v, xs)) \/ Run(k, cmd_rpush(v, xs))
      PROVE  ColInv'
  BY <1>0, <1>1, PushKeeps, RunKeeps DEF v
<1>2. ASSUME NEW single \in BOOLEAN, NEW n \in Indices,
             Run(k, cmd_lpop(v, single, n)) \/ Run(k, cmd_rpop(v, single, n))
      PROVE  ColInv'
  BY <1>0, <1>2, CollectionsAssumption, PopKeeps, RunKeeps DEF v
<1>3. ASSUME NEW i \in Indices, NEW j \in Indices, Run(k, cmd_ltrim(v, i, j))
      PROVE  ColInv'
  BY <1>0, <1>3, CollectionsAssumption, TrimKeeps, RunKeeps DEF v
<1>4. ASSUME NEW i \in Indices, NEW x \in Elems, Run(k, cmd_lset(v, i, x)) \/ Run(k, cmd_lrem(v, i, x))
      PROVE  ColInv'
  BY <1>0, <1>4, SetAtKeeps, RemKeeps, RunKeeps DEF v
<1>5. ASSUME NEW before \in BOOLEAN, NEW p \in Elems, NEW x \in Elems, Run(k, cmd_linsert(v, before, p, x))
      PROVE  ColInv'
  BY <1>0, <1>5, InsertKeeps, RunKeeps DEF v
<1> QED
  BY <1>1, <1>2, <1>3, <1>4, <1>5 DEF ListCommand, v

LEMMA SetStep ==
  ASSUME ColInv, NEW k \in DataKeys, SetCommand(k)
  PROVE  ColInv'
<1> DEFINE v == db[k]
<1>0. Fine(v)
  BY DEF ColInv
<1> HIDE DEF v
<1>1. ASSUME NEW xs \in OneOrTwo(Elems), Run(k, cmd_sadd(v, xs)) \/ Run(k, cmd_srem(v, xs))
      PROVE  ColInv'
  BY <1>0, <1>1, SetKeeps, RunKeeps DEF v
<1>2. ASSUME NEW m \in Elems, Run(k, cmd_spop(v, m))
      PROVE  ColInv'
  <2>1. <<m>> \in OneOrTwo(Elems)
    BY DEF OneOrTwo
  <2> QED
    BY <1>0, <1>2, <2>1, SetKeeps, RunKeeps DEF v
<1> QED
  BY <1>1, <1>2 DEF SetCommand, v

LEMMA HashStep ==
  ASSUME ColInv, NEW k \in DataKeys, HashCommand(k)
  PROVE  ColInv'
<1> DEFINE v == db[k]
<1>0. Fine(v)
  BY DEF ColInv
<1> HIDE DEF v
<1>1. ASSUME NEW even \in BOOLEAN, NEW pairs \in OneOrTwo(Fields \X FieldValues),
             Run(k, cmd_hset(v, even, pairs)) \/ Run(k, cmd_hmset(v, even, pairs))
      PROVE  ColInv'
  BY <1>0, <1>1, HashSetKeeps, RunKeeps DEF v
<1>2. ASSUME NEW f, NEW x, NEW fs,
             \/ Run(k, cmd_hsetnx(v, f, x)) \/ Run(k, cmd_hdel(v, fs))
             \/ Run(k, cmd_hincrby(v, f, x)) \/ Run(k, cmd_hincrbyfloat(v, f, x))
      PROVE  ColInv'
  BY <1>0, <1>2, HashKeeps, RunKeeps DEF v
<1> QED
  BY <1>1, <1>2 DEF HashCommand, v

LEMMA ZSetStep ==
  ASSUME ColInv, NEW k \in DataKeys, ZSetCommand(k)
  PROVE  ColInv'
<1> DEFINE v == db[k]
<1>0. Fine(v)
  BY DEF ColInv
<1> HIDE DEF v
<1>1. ASSUME NEW pairs \in ScorePairs,
             Leaves(k, cmd_zadd(v, pairs).value,
                    cmd_zadd(v, pairs).reply[1] = "int" /\ NaN \in {p[1] : p \in Range(pairs)})
      PROVE  ColInv'
  BY <1>0, <1>1, AddSound, LeavesKeeps DEF v
<1>2. ASSUME NEW d \in Scores, NEW m \in Members,
             Leaves(k, cmd_zincrby(v, d, m).value, cmd_zincrby(v, d, m).reply = Bulk(NaN))
      PROVE  ColInv'
  <2>1. d \in Int
    BY CollectionsAssumption, SMTT(30) DEF Scores, Inf, NaN
  <2> QED
    BY <1>0, <1>2, <2>1, IncrSound, LeavesKeeps DEF v
<1>3. ASSUME NEW ms \in OneOrTwo(Members), Run(k, cmd_zrem(v, ms))
      PROVE  ColInv'
  BY <1>0, <1>3, RemSound, LeavesKeeps DEF v, Run
<1>4. ASSUME NEW n \in 0 .. Cardinality(Members), NEW rev \in BOOLEAN, Run(k, zpop_impl(v, n, rev))
      PROVE  ColInv'
  <2>1. n \in Nat
    BY CollectionsAssumption, SMTT(30)
  <2> QED
    BY <1>0, <1>4, <2>1, PopSound, LeavesKeeps DEF v, Run
<1> QED
  BY <1>1, <1>2, <1>3, <1>4 DEF ZSetCommand, v

(* Every command keeps the invariant. *)
LEMMA ColStep ==
  ASSUME ColInv, [ColNext]_colvars
  PROVE  ColInv'
<1>1. CASE UNCHANGED colvars
  BY <1>1 DEF colvars, ColInv
<1>2. ASSUME NEW k \in DataKeys, KeyCommand(k) PROVE ColInv'
  <2>1. /\ Fine(Text) /\ Text.type # "zset"
        /\ Fine(Gone) /\ Gone.type # "zset"
    BY DEF Text, Gone, Fine, IsEmpty
  <2>2. StaysSound(db[k], Text, FALSE) /\ StaysSound(db[k], Gone, FALSE)
    BY <2>1 DEF StaysSound, Sound
  <2> QED
    BY <1>2, <2>2, LeavesKeeps DEF KeyCommand
<1> QED
  BY <1>1, <1>2, ListStep, SetStep, HashStep, ZSetStep DEF ColNext

(* Every command, from empty databases on, keeps the invariant. *)
LEMMA ColInvariance == ColSpec => []ColInv
<1>1. ColInit => ColInv
  BY SMTT(30) DEF ColInit, ColInv, Gone, Fine, IsEmpty, Sound
<1> QED
  BY <1>1, ColStep, PTL DEF ColSpec

(* Whatever commands of lists, sets, hashes and sorted sets ran, no key    *)
(* holds a collection without elements: each handler that takes the last   *)
(* one deletes the key.                                                    *)
THEOREM NeverEmpty == ColSpec => []NoEmptyCollection
<1>1. ColInv => NoEmptyCollection
  BY DEF ColInv, Fine, NoEmptyCollection
<1> QED
  BY <1>1, ColInvariance, PTL

(* zset_add, zset_remove and the loops over them keep the map of members   *)
(* and the map of scores in step, as long as no score is NaN.              *)
THEOREM AlwaysInStep == ColSpec => []ZSetInStep
<1>1. ColInv => ZSetInStep
  BY DEF ColInv, Sound, Good, ZSetInStep
<1> QED
  BY <1>1, ColInvariance, PTL
=============================================================================
