-------------------------- MODULE PersistenceProofs --------------------------
(***************************************************************************)
(* For every number of shards, databases, keys, commands, saves, crashes   *)
(* and panics: dump.rdb is whole while saves do not overlap; a file that   *)
(* is accepted by its checksum is one complete snapshot even when they do; *)
(* and a restart brings back what the last save collected.                 *)
(*                                                                         *)
(* The parts: what load_all reads from the image of a snapshot, and from   *)
(* any mixture of images, and what load_entries makes of it, by induction  *)
(* from the tokens of one key to those of a shard, a database and the      *)
(* whole file; the two file names and the offsets (FileInv); the           *)
(* invariants of saving (LoadInv) and of starting (RecInv).                *)
(***************************************************************************)
EXTENDS Persistence, WellFoundedInduction, TLAPS

(* The prover of the leaves that name none. *)
USE ZenonT(40)

(* Induction over the numbers of a set: else there were a least number     *)
(* that is not in it.                                                      *)
LEMMA NatSetInduction ==
  ASSUME NEW S, 0 \in S, \A n \in Nat : n \in S => n + 1 \in S
  PROVE  Nat \subseteq S
<1> DEFINE R == {p \in Nat \X Nat : p[1] < p[2]}
<1>1. SUFFICES ASSUME Nat \ S # {} PROVE FALSE
  OBVIOUS
<1>2. IsWellFoundedOn(R, Nat)
  BY NatLessThanWellFounded DEF OpToRel
<1>3. \A x \in Nat : x # 0 => <<x - 1, x>> \in R
  BY SMTT(30)
<1> HIDE DEF R
<1>4. PICK x \in Nat \ S : \A y \in Nat \ S : ~ (<<y, x>> \in R)
  BY <1>1, <1>2, WFMin
<1>5. x # 0 /\ x - 1 \in Nat /\ x = (x - 1) + 1
  BY <1>4, SMTT(30)
<1>6. x - 1 \in S
  BY <1>3, <1>4, <1>5
<1> QED
  BY <1>4, <1>5, <1>6

(* A set of numbers that is not empty has a greatest one. *)
LEMMA MaxOf ==
  ASSUME NEW n \in Nat, NEW s \in SUBSET (1 .. n), s # {}
  PROVE  Max(s) \in s /\ \A y \in s : y <= Max(s)
<1> DEFINE P == {k \in Nat : \A t \in SUBSET (1 .. k) :
                    t # {} => \E x \in t : \A y \in t : x >= y}
<1>1. 0 \in P
  <2>1. 1 .. 0 = {}
    BY SMTT(30)
  <2> QED
    BY <2>1
<1>2. ASSUME NEW k \in Nat, k \in P PROVE k + 1 \in P
  <2> SUFFICES ASSUME NEW t \in SUBSET (1 .. k + 1), t # {}
               PROVE  \E x \in t : \A y \in t : x >= y
    BY SMTT(30)
  <2>1. CASE k + 1 \in t
    BY <2>1, SMTT(30)
  <2>2. CASE k + 1 \notin t
    <3>1. t \in SUBSET (1 .. k)
      BY <2>2, SMTT(30)
    <3> QED
      BY <3>1, <1>2
  <2> QED
    BY <2>1, <2>2
<1>3. n \in P
  <2> HIDE DEF P
  <2> QED
    BY <1>1, <1>2, NatSetInduction
<1>4. \E x \in s : \A y \in s : x >= y
  BY <1>3
<1>5. Max(s) \in s /\ \A y \in s : Max(s) >= y
  BY <1>4 DEF Max
<1>6. \A y \in s : y \in 1 .. n
  OBVIOUS
<1>7. \A x, y \in 1 .. n : x >= y => y <= x
  OBVIOUS
<1> HIDE DEF P
<1> QED
  BY <1>5, <1>6, <1>7

-----------------------------------------------------------------------------
(* What load_all makes of the tokens ts, going on from acc. *)
ReadAll(acc, ts) ==
  LET read[i \in 0 .. Len(ts)] == IF i = 0 THEN acc ELSE read_entry(read[i - 1], ts[i])
  IN  read[Len(ts)]

(* f is the function of that definition. *)
ReadIter(f, acc, ts, n) == f = [i \in 0 .. n |-> IF i = 0 THEN acc ELSE read_entry(f[i - 1], ts[i])]

(* There is such a function. *)
LEMMA ReadIterExists ==
  ASSUME NEW acc, NEW ts, NEW n \in Nat
  PROVE  \E f : ReadIter(f, acc, ts, n)
<1> DEFINE P == {k \in Nat : \E f : ReadIter(f, acc, ts, k)}
<1>1. 0 \in P
  <2>1. ReadIter([i \in 0 .. 0 |-> acc], acc, ts, 0)
    BY SMTT(30) DEF ReadIter
  <2> QED
    BY <2>1
<1>2. ASSUME NEW k \in Nat, k \in P PROVE k + 1 \in P
  <2>1. PICK f : ReadIter(f, acc, ts, k)
    BY <1>2
  <2> DEFINE h == [i \in 0 .. k + 1 |-> IF i = k + 1 THEN read_entry(f[k], ts[k + 1]) ELSE f[i]]
  <2>2. ASSUME NEW i \in 0 .. k + 1
        PROVE  h[i] = IF i = 0 THEN acc ELSE read_entry(h[i - 1], ts[i])
    <3>1. CASE i = k + 1
      <4>1. i - 1 = k /\ k \in 0 .. k + 1 /\ k # k + 1 /\ i # 0
        BY <3>1, SMTT(30)
      <4>2. h[i] = read_entry(f[k], ts[k + 1]) /\ h[k] = f[k]
        BY <3>1, <4>1
      <4> QED
        BY <3>1, <4>1, <4>2
    <3>2. CASE i # k + 1
      <4>1. i \in 0 .. k /\ h[i] = f[i]
        BY <3>2, SMTT(30)
      <4>2. i # 0 => i - 1 \in 0 .. k + 1 /\ i - 1 # k + 1 /\ h[i - 1] = f[i - 1]
        BY <4>1, SMTT(30)
      <4>3. f[i] = IF i = 0 THEN acc ELSE read_entry(f[i - 1], ts[i])
        BY <2>1, <4>1 DEF ReadIter
      <4> QED
        BY <4>1, <4>2, <4>3
    <3> QED
      BY <3>1, <3>2
  <2>3. h = [i \in 0 .. k + 1 |-> IF i = 0 THEN acc ELSE read_entry(h[i - 1], ts[i])]
    BY <2>2
  <2>4. ReadIter(h, acc, ts, k + 1)
    BY <2>3 DEF ReadIter
  <2> QED
    BY <2>4, SMTT(30)
<1> HIDE DEF P
<1>3. n \in P
  BY <1>1, <1>2, NatSetInduction
<1> QED
  BY <1>3 DEF P

(* The reader, token by token. *)
ReadRun(g, acc, ts, n) ==
  /\ DOMAIN g = 0 .. n
  /\ g[0] = acc
  /\ \A i \in 1 .. n : g[i] = read_entry(g[i - 1], ts[i])

(* Every sequence of tokens has a run, which ends with what is read. *)
LEMMA ReadRunExists ==
  ASSUME NEW acc, NEW ts, NEW n \in Nat, DOMAIN ts = 1 .. n
  PROVE  \E g : ReadRun(g, acc, ts, n) /\ ReadAll(acc, ts) = g[n]
<1> DEFINE g == CHOOSE f : f = [i \in 0 .. n |-> IF i = 0 THEN acc ELSE read_entry(f[i - 1], ts[i])]
<1>1. ReadIter(g, acc, ts, n)
  <2>1. \E f : f = [i \in 0 .. n |-> IF i = 0 THEN acc ELSE read_entry(f[i - 1], ts[i])]
    <3>1. PICK f : ReadIter(f, acc, ts, n)
      BY ReadIterExists
    <3> QED
      BY <3>1 DEF ReadIter
  <2>2. g = [i \in 0 .. n |-> IF i = 0 THEN acc ELSE read_entry(g[i - 1], ts[i])]
    BY <2>1
  <2> QED
    BY <2>2 DEF ReadIter
<1>2. ReadAll(acc, ts) = g[n]
  <2>1. Len(ts) = n
    BY SMTT(30)
  <2> QED
    BY <2>1 DEF ReadAll
<1> HIDE DEF g
<1>3. ReadRun(g, acc, ts, n)
  BY <1>1, SMTT(30) DEF ReadIter, ReadRun
<1> QED
  BY <1>2, <1>3

(* There is only one run. *)
LEMMA ReadRunUnique ==
  ASSUME NEW acc, NEW ts, NEW n \in Nat, NEW g, NEW h,
         ReadRun(g, acc, ts, n), ReadRun(h, acc, ts, n)
  PROVE  \A i \in 0 .. n : g[i] = h[i]
<1> DEFINE P == {i \in Nat : i <= n => g[i] = h[i]}
<1>1. 0 \in P
  BY DEF ReadRun
<1>2. ASSUME NEW i \in Nat, i \in P PROVE i + 1 \in P
  <2> SUFFICES ASSUME i + 1 <= n PROVE g[i + 1] = h[i + 1]
    BY SMTT(30)
  <2>1. i + 1 \in 1 .. n /\ (i + 1) - 1 = i /\ g[i] = h[i]
    BY <1>2, SMTT(30)
  <2> QED
    BY <2>1 DEF ReadRun
<1>3. Nat \subseteq P
  <2> HIDE DEF P
  <2> QED
    BY <1>1, <1>2, NatSetInduction
<1> QED
  BY <1>3, SMTT(30)

(* So that any run ends with what is read. *)
LEMMA ReadOfRun ==
  ASSUME NEW acc, NEW ts, NEW n \in Nat, DOMAIN ts = 1 .. n,
         NEW g, ReadRun(g, acc, ts, n)
  PROVE  ReadAll(acc, ts) = g[n]
<1>1. PICK h : ReadRun(h, acc, ts, n) /\ ReadAll(acc, ts) = h[n]
  BY ReadRunExists
<1>2. g[n] = h[n]
  BY <1>1, ReadRunUnique, SMTT(30)
<1> QED
  BY <1>1, <1>2

(* Nothing to read. *)
LEMMA ReadEmpty ==
  ASSUME NEW acc
  PROVE  ReadAll(acc, <<>>) = acc
<1>1. ReadRun([i \in 0 .. 0 |-> acc], acc, <<>>, 0)
  BY SMTT(30) DEF ReadRun
<1>2. DOMAIN <<>> = 1 .. 0
  BY SMTT(30)
<1> QED
  BY <1>1, <1>2, ReadOfRun, SMTT(30)

(* One token. *)
LEMMA ReadOne ==
  ASSUME NEW acc, NEW x
  PROVE  ReadAll(acc, <<x>>) = read_entry(acc, x)
<1> DEFINE g == [i \in 0 .. 1 |-> IF i = 0 THEN acc ELSE read_entry(acc, x)]
<1>1. ReadRun(g, acc, <<x>>, 1)
  BY SMTT(30) DEF ReadRun
<1>2. DOMAIN <<x>> = 1 .. 1
  BY SMTT(30)
<1>3. ReadAll(acc, <<x>>) = g[1]
  <2> HIDE DEF g
  <2> QED
    BY <1>1, <1>2, ReadOfRun
<1> QED
  BY <1>3, SMTT(30)

(* Two sequences are read one after the other. *)
LEMMA ReadParts ==
  ASSUME NEW acc, NEW T, NEW s \in Seq(T), NEW t \in Seq(T)
  PROVE  ReadAll(acc, s \o t) = ReadAll(ReadAll(acc, s), t)
<1> DEFINE m == Len(s)
           n == Len(t)
           u == s \o t
<1>0. /\ m \in Nat /\ n \in Nat /\ m + n \in Nat
      /\ DOMAIN s = 1 .. m /\ DOMAIN t = 1 .. n /\ DOMAIN u = 1 .. m + n
      /\ \A i \in 1 .. m : u[i] = s[i]
      /\ \A i \in 1 .. n : u[m + i] = t[i]
  BY SMTT(30)
<1> HIDE DEF m, n, u
<1>1. PICK g : ReadRun(g, acc, u, m + n) /\ ReadAll(acc, u) = g[m + n]
  BY <1>0, ReadRunExists, SMTT(30)
<1> DEFINE g1 == [i \in 0 .. m |-> g[i]]
           g2 == [i \in 0 .. n |-> g[m + i]]
<1>2. ReadRun(g1, acc, s, m)
  <2>1. ASSUME NEW i \in 1 .. m PROVE g1[i] = read_entry(g1[i - 1], s[i])
    <3>1. i \in 1 .. m + n /\ i \in 0 .. m /\ i - 1 \in 0 .. m
      BY <1>0, SMTT(30)
    <3> QED
      BY <1>0, <1>1, <3>1 DEF ReadRun
  <2>2. g1[0] = acc
    BY <1>0, <1>1, SMTT(30) DEF ReadRun
  <2> QED
    BY <2>1, <2>2 DEF ReadRun
<1>3. ReadAll(acc, s) = g[m]
  <2>1. ReadAll(acc, s) = g1[m]
    <3> HIDE DEF g1
    <3> QED
      BY <1>0, <1>2, ReadOfRun, SMTT(30)
  <2> QED
    BY <1>0, <2>1, SMTT(30)
<1>4. ReadRun(g2, g[m], t, n)
  <2>1. ASSUME NEW i \in 1 .. n PROVE g2[i] = read_entry(g2[i - 1], t[i])
    <3>1. m + i \in 1 .. m + n /\ i \in 0 .. n /\ i - 1 \in 0 .. n /\ (m + i) - 1 = m + (i - 1)
      BY <1>0, SMTT(30)
    <3> QED
      BY <1>0, <1>1, <3>1 DEF ReadRun
  <2>2. g2[0] = g[m]
    BY <1>0, SMTT(30)
  <2> QED
    BY <2>1, <2>2 DEF ReadRun
<1>5. ReadAll(g[m], t) = g[m + n]
  <2>1. ReadAll(g[m], t) = g2[n]
    <3> HIDE DEF g2
    <3> QED
      BY <1>0, <1>4, ReadOfRun, SMTT(30)
  <2> QED
    BY <1>0, <2>1, SMTT(30)
<1> QED
  BY <1>1, <1>3, <1>5 DEF u

-----------------------------------------------------------------------------
(* The states of the reader. *)
Acc(status, db, expire, garbled, crc, entries) ==
  [status |-> status, db |-> db, expire |-> expire, garbled |-> garbled, crc |-> crc, entries |-> entries]

(* load_all reads from its start. *)
LEMMA LoadAllReads == \A file : load_all(file) = ReadAll(Start, file)
BY DEF load_all, ReadAll

(* The tokens of an image but for its checksum, and the entries that are   *)
(* read.                                                                   *)
Mark == [op |-> "eof"]
Tokens ==
  [op : {"select"}, db : DBs] \cup [op : {"expire"}, ms : Nat]
  \cup [op : {"string"}, key : Keys, value : Strings] \cup {Mark}
Loadable == [name : Names, value : Strings, expire : Deadlines]

(* A snapshot as collect_snapshot makes them. *)
SnapOK(snap) ==
  /\ snap \in Snapshots
  /\ \A n \in Names : snap[shard[n[2]]][n] \in Entries \cup {Absent}

(* The databases of a snapshot. *)
Body(snap) == Concat([i \in 1 .. NumDBs |-> DbTokens(snap, i - 1)])

(* The parts of an image are sequences of tokens: of one key, *)
LEMMA KeyTokensType ==
  ASSUME NEW snap, SnapOK(snap), NEW d \in DBs, NEW s, NEW k \in Keys
  PROVE  KeyTokens(snap, d, s, k) \in Seq(Tokens)
<1>1. CASE shard[k] # s \/ snap[s][<<d, k>>] = Absent
  BY <1>1, SMTT(30) DEF KeyTokens
<1>2. CASE shard[k] = s /\ snap[s][<<d, k>>] # Absent
  <2> DEFINE e == snap[s][<<d, k>>]
  <2>1. e \in Entries
    <3>1. <<d, k>> \in Names /\ <<d, k>>[2] = k
      BY DEF Names
    <3> QED
      BY <1>2, <3>1 DEF SnapOK
  <2>2. KeyTokens(snap, d, s, k) = write_key_value(k, e)
    BY <1>2 DEF KeyTokens
  <2> HIDE DEF e
  <2>3. e.expire # None => <<[op |-> "expire", ms |-> e.expire]>> \in Seq(Tokens)
    BY <2>1, SMTT(30) DEF Entries, Deadlines, Tokens
  <2>4. e.value # Collection => <<[op |-> "string", key |-> k, value |-> e.value]>> \in Seq(Tokens)
    BY <2>1, SMTT(30) DEF Entries, Tokens
  <2> QED
    BY <2>2, <2>3, <2>4, SMTT(30) DEF write_key_value
<1> QED
  BY <1>1, <1>2

(* One step of Concat. *)
CatStep(acc, x) == acc \o x

(* f is the function of that definition. *)
CatIter(f, seqs, n) == f = [i \in 0 .. n |-> IF i = 0 THEN <<>> ELSE CatStep(f[i - 1], seqs[i])]

(* There is such a function. *)
LEMMA CatIterExists ==
  ASSUME NEW seqs, NEW n \in Nat
  PROVE  \E f : CatIter(f, seqs, n)
<1> DEFINE P == {k \in Nat : \E f : CatIter(f, seqs, k)}
<1>1. 0 \in P
  <2>1. CatIter([i \in 0 .. 0 |-> <<>>], seqs, 0)
    BY SMTT(30) DEF CatIter
  <2> QED
    BY <2>1
<1>2. ASSUME NEW k \in Nat, k \in P PROVE k + 1 \in P
  <2>1. PICK f : CatIter(f, seqs, k)
    BY <1>2
  <2> DEFINE h == [i \in 0 .. k + 1 |-> IF i = k + 1 THEN CatStep(f[k], seqs[k + 1]) ELSE f[i]]
  <2>2. ASSUME NEW i \in 0 .. k + 1
        PROVE  h[i] = IF i = 0 THEN <<>> ELSE CatStep(h[i - 1], seqs[i])
    <3>1. CASE i = k + 1
      <4>1. i - 1 = k /\ k \in 0 .. k + 1 /\ k # k + 1 /\ i # 0
        BY <3>1, SMTT(30)
      <4>2. h[i] = CatStep(f[k], seqs[k + 1]) /\ h[k] = f[k]
        BY <3>1, <4>1
      <4> QED
        BY <3>1, <4>1, <4>2
    <3>2. CASE i # k + 1
      <4>1. i \in 0 .. k /\ h[i] = f[i]
        BY <3>2, SMTT(30)
      <4>2. i # 0 => i - 1 \in 0 .. k + 1 /\ i - 1 # k + 1 /\ h[i - 1] = f[i - 1]
        BY <4>1, SMTT(30)
      <4>3. f[i] = IF i = 0 THEN <<>> ELSE CatStep(f[i - 1], seqs[i])
        BY <2>1, <4>1 DEF CatIter
      <4> QED
        BY <4>1, <4>2, <4>3
    <3> QED
      BY <3>1, <3>2
  <2>3. h = [i \in 0 .. k + 1 |-> IF i = 0 THEN <<>> ELSE CatStep(h[i - 1], seqs[i])]
    BY <2>2
  <2>4. CatIter(h, seqs, k + 1)
    BY <2>3 DEF CatIter
  <2> QED
    BY <2>4, SMTT(30)
<1> HIDE DEF P
<1>3. n \in P
  BY <1>1, <1>2, NatSetInduction
<1> QED
  BY <1>3 DEF P

(* Sequence after sequence. *)
CatRun(g, seqs, n) ==
  /\ DOMAIN g = 0 .. n
  /\ g[0] = <<>>
  /\ \A i \in 1 .. n : g[i] = CatStep(g[i - 1], seqs[i])

(* Every sequence of sequences has a run, which ends with their concatenation. *)
LEMMA CatRunExists ==
  ASSUME NEW seqs, NEW n \in Nat, DOMAIN seqs = 1 .. n
  PROVE  \E g : CatRun(g, seqs, n) /\ Concat(seqs) = g[n]
<1> DEFINE g == CHOOSE f : f = [i \in 0 .. n |-> IF i = 0 THEN <<>> ELSE CatStep(f[i - 1], seqs[i])]
<1>1. CatIter(g, seqs, n)
  <2>1. \E f : f = [i \in 0 .. n |-> IF i = 0 THEN <<>> ELSE CatStep(f[i - 1], seqs[i])]
    <3>1. PICK f : CatIter(f, seqs, n)
      BY CatIterExists
    <3> QED
      BY <3>1 DEF CatIter
  <2>2. g = [i \in 0 .. n |-> IF i = 0 THEN <<>> ELSE CatStep(g[i - 1], seqs[i])]
    BY <2>1
  <2> QED
    BY <2>2 DEF CatIter
<1>2. Concat(seqs) = g[n]
  <2>1. Len(seqs) = n
    BY SMTT(30)
  <2> QED
    BY <2>1 DEF Concat, CatStep
<1> HIDE DEF g
<1>3. CatRun(g, seqs, n)
  BY <1>1, SMTT(30) DEF CatIter, CatRun
<1> QED
  BY <1>2, <1>3

(* The sequences that Concat goes through. *)
LEMMA Concats ==
  ASSUME NEW n \in Nat, NEW seqs \in [1 .. n -> Seq(Tokens)]
  PROVE  \E f \in [0 .. n -> Seq(Tokens)] :
           /\ f[0] = <<>>
           /\ \A i \in 1 .. n : f[i] = f[i - 1] \o seqs[i]
           /\ Concat(seqs) = f[n]
<1>1. PICK g : CatRun(g, seqs, n) /\ Concat(seqs) = g[n]
  <2>1. DOMAIN seqs = 1 .. n
    OBVIOUS
  <2> QED
    BY <2>1, CatRunExists
<1>2. g[0] = <<>>
  BY <1>1 DEF CatRun
<1>3. DOMAIN g = 0 .. n /\ g[0] = <<>> /\ \A i \in 1 .. n : g[i] = g[i - 1] \o seqs[i]
  BY <1>1 DEF CatRun, CatStep
<1> DEFINE P == {k \in Nat : k <= n => g[k] \in Seq(Tokens)}
<1>4. 0 \in P
  <2>1. <<>> \in Seq(Tokens) /\ 0 \in Nat
    BY SMTT(30)
  <2> QED
    BY <1>2, <2>1
<1>5. ASSUME NEW k \in Nat, k \in P PROVE k + 1 \in P
  <2> SUFFICES ASSUME k + 1 <= n PROVE g[k + 1] \in Seq(Tokens)
    BY SMTT(30)
  <2>1. k + 1 \in 1 .. n /\ (k + 1) - 1 = k
    BY SMTT(30)
  <2>2. g[k + 1] = g[k] \o seqs[k + 1]
    BY <1>3, <2>1
  <2>3. g[k] \in Seq(Tokens) /\ seqs[k + 1] \in Seq(Tokens)
    BY <1>5, <2>1, SMTT(30)
  <2> QED
    BY <2>2, <2>3, SMTT(30)
<1>6. Nat \subseteq P
  <2> HIDE DEF P
  <2> QED
    BY <1>4, <1>5, NatSetInduction
<1> DEFINE f == [i \in 0 .. n |-> g[i]]
<1>7. f \in [0 .. n -> Seq(Tokens)]
  <2>1. \A i \in 0 .. n : g[i] \in Seq(Tokens)
    BY <1>6, SMTT(30)
  <2> HIDE DEF P
  <2> QED
    BY <2>1
<1>8. f[0] = <<>> /\ f[n] = g[n] /\ \A i \in 1 .. n : f[i] = f[i - 1] \o seqs[i]
  <2>1. \A i \in 1 .. n : i \in 0 .. n /\ i - 1 \in 0 .. n
    BY SMTT(30)
  <2>2. \A i \in 0 .. n : f[i] = g[i]
    OBVIOUS
  <2>3. 0 \in 0 .. n /\ n \in 0 .. n
    BY SMTT(30)
  <2> HIDE DEF f, P
  <2> QED
    BY <1>3, <2>1, <2>2, <2>3
<1> HIDE DEF f, P
<1> QED
  BY <1>1, <1>7, <1>8

(* Concat makes one sequence of several. *)
LEMMA ConcatType ==
  ASSUME NEW n \in Nat, NEW seqs \in [1 .. n -> Seq(Tokens)]
  PROVE  Concat(seqs) \in Seq(Tokens)
<1>1. PICK f \in [0 .. n -> Seq(Tokens)] : Concat(seqs) = f[n]
  BY Concats
<1>2. n \in 0 .. n
  BY SMTT(30)
<1> QED
  BY <1>1, <1>2

(* One shard of one database. *)
ShardTokens(snap, d, s) == Concat([j \in 1 .. Len(Order) |-> KeyTokens(snap, d, s, Order[j])])

(* ... of one shard, *)
LEMMA ShardTokensType ==
  ASSUME NEW snap, SnapOK(snap), NEW d \in DBs, NEW s
  PROVE  ShardTokens(snap, d, s) \in Seq(Tokens)
<1>1. Len(Order) \in Nat /\ \A j \in 1 .. Len(Order) : Order[j] \in Keys
  BY PersistenceAssumption, SMTT(30)
<1>2. [j \in 1 .. Len(Order) |-> KeyTokens(snap, d, s, Order[j])] \in [1 .. Len(Order) -> Seq(Tokens)]
  BY <1>1, KeyTokensType
<1> QED
  BY <1>1, <1>2, ConcatType DEF ShardTokens

(* A database without entries; one that is written shard by shard. *)
NoneThere(snap, d) == \A k \in Keys : snap[shard[k]][<<d, k>>] = Absent
Shardwise(snap, d) == [i \in 1 .. NumShards |-> ShardTokens(snap, d, i - 1)]

(* A database, in these terms. *)
LEMMA DbTokensAre ==
  ASSUME NEW snap, NEW d
  PROVE  DbTokens(snap, d) = IF NoneThere(snap, d) THEN <<>>
                             ELSE <<[op |-> "select", db |-> d]>> \o Concat(Shardwise(snap, d))
BY DEF DbTokens, NoneThere, Shardwise, ShardTokens

(* ... of each shard, *)
LEMMA ShardwiseType ==
  ASSUME NEW snap, SnapOK(snap), NEW d \in DBs
  PROVE  Shardwise(snap, d) \in [1 .. NumShards -> Seq(Tokens)]
<1>1. \A i \in 1 .. NumShards : ShardTokens(snap, d, i - 1) \in Seq(Tokens)
  BY ShardTokensType
<1> QED
  BY <1>1 DEF Shardwise

(* ... of one database, *)
LEMMA DbTokensType ==
  ASSUME NEW snap, SnapOK(snap), NEW d \in DBs
  PROVE  DbTokens(snap, d) \in Seq(Tokens)
<1>1. Concat(Shardwise(snap, d)) \in Seq(Tokens)
  BY ShardwiseType, ConcatType, PersistenceAssumption
<1>2. <<[op |-> "select", db |-> d]>> \in Seq(Tokens)
  BY SMTT(30) DEF Tokens
<1> DEFINE c == <<[op |-> "select", db |-> d]>> \o Concat(Shardwise(snap, d))
<1>3. c \in Seq(Tokens) /\ <<>> \in Seq(Tokens)
  BY <1>1, <1>2, SMTT(30)
<1>4. DbTokens(snap, d) = IF NoneThere(snap, d) THEN <<>> ELSE c
  BY DbTokensAre
<1> HIDE DEF c
<1> QED
  BY <1>3, <1>4

(* The databases, one by one. *)
DbWise(snap) == [i \in 1 .. NumDBs |-> DbTokens(snap, i - 1)]

(* ... and of all databases. *)
LEMMA BodyType ==
  ASSUME NEW snap, SnapOK(snap)
  PROVE  DbWise(snap) \in [1 .. NumDBs -> Seq(Tokens)] /\ Body(snap) \in Seq(Tokens)
<1>1. \A i \in 1 .. NumDBs : i - 1 \in DBs
  BY PersistenceAssumption, SMTT(30) DEF DBs
<1>2. DbWise(snap) \in [1 .. NumDBs -> Seq(Tokens)]
  BY <1>1, DbTokensType DEF DbWise
<1> QED
  BY <1>2, ConcatType, PersistenceAssumption DEF Body, DbWise

-----------------------------------------------------------------------------
(* Reading goes on where it stopped. *)
LEMMA ReadConcat ==
  ASSUME NEW acc, NEW s \in Seq(Tokens), NEW t \in Seq(Tokens)
  PROVE  ReadAll(acc, s \o t) = ReadAll(ReadAll(acc, s), t)
BY ReadParts, SMTT(30)

(* The entries en are those of the strings that snap has under the names N. *)
Loads(en, snap, N) ==
  /\ \A i \in DOMAIN en : /\ en[i].name \in N
                          /\ Saved(snap)[en[i].name] = [value |-> en[i].value, expire |-> en[i].expire]
  /\ \A n \in N : Saved(snap)[n] # Absent => \E i \in DOMAIN en : en[i].name = n

(* The reader is between two entries of a file that starts with the tokens *)
(* crc, and has loaded the names N.                                        *)
Between(acc, D, crc, snap, N) ==
  \E d \in D, en \in Seq(Loadable) :
    acc = Acc("reading", d, None, FALSE, crc, en) /\ Loads(en, snap, N)

(* Reading ts loads the names M. *)
Reads(ts, D, snap, M) ==
  \A acc, N : \A crc \in Seq(Tokens) :
    N \subseteq Names /\ Between(acc, D, crc, snap, N)
    => Between(ReadAll(acc, ts), D, crc \o ts, snap, N \cup M)

(* Without tokens nothing is loaded, which is right for names without      *)
(* strings.                                                                *)
LEMMA ReadsNothing ==
  ASSUME NEW D, NEW snap, NEW M, \A n \in M : Saved(snap)[n] = Absent
  PROVE  Reads(<<>>, D, snap, M)
<1> SUFFICES ASSUME NEW acc, NEW N, NEW crc \in Seq(Tokens), Between(acc, D, crc, snap, N)
             PROVE  Between(ReadAll(acc, <<>>), D, crc \o <<>>, snap, N \cup M)
  BY DEF Reads
<1>1. ReadAll(acc, <<>>) = acc
  BY ReadEmpty
<1>2. crc \o <<>> = crc
  BY SMTT(30)
<1>3. \A en : Loads(en, snap, N) => Loads(en, snap, N \cup M)
  BY DEF Loads
<1> QED
  BY <1>1, <1>2, <1>3 DEF Between

(* Two parts of a file, one after the other. *)
LEMMA ReadsConcat ==
  ASSUME NEW D, NEW snap, NEW s \in Seq(Tokens), NEW t \in Seq(Tokens), NEW L \in SUBSET Names, NEW M,
         Reads(s, D, snap, L), Reads(t, D, snap, M)
  PROVE  Reads(s \o t, D, snap, L \cup M)
<1> SUFFICES ASSUME NEW acc, NEW N, NEW crc \in Seq(Tokens), N \subseteq Names, Between(acc, D, crc, snap, N)
             PROVE  Between(ReadAll(acc, s \o t), D, crc \o (s \o t), snap, N \cup (L \cup M))
  BY DEF Reads
<1>1. Between(ReadAll(acc, s), D, crc \o s, snap, N \cup L)
  BY DEF Reads
<1>2. crc \o s \in Seq(Tokens) /\ N \cup L \subseteq Names
  BY SMTT(30)
<1>3. Between(ReadAll(ReadAll(acc, s), t), D, (crc \o s) \o t, snap, (N \cup L) \cup M)
  BY <1>1, <1>2 DEF Reads
<1>4. ReadAll(ReadAll(acc, s), t) = ReadAll(acc, s \o t)
  BY ReadConcat
<1>5. (crc \o s) \o t = crc \o (s \o t)
  BY SMTT(30)
<1>6. (N \cup L) \cup M = N \cup (L \cup M)
  OBVIOUS
<1> QED
  BY <1>3, <1>4, <1>5, <1>6

(* Several parts of a file, each of which loads its names. *)
UpTo(M, n) == UNION {M[i] : i \in 1 .. n}
ReadsEach(seqs, D, snap, M, n) == \A i \in 1 .. n : Reads(seqs[i], D, snap, M[i])

(* Any number of parts, by induction on their number. *)
LEMMA ReadsFlat ==
  ASSUME NEW D, NEW snap, NEW n \in Nat, NEW seqs \in [1 .. n -> Seq(Tokens)],
         NEW M \in [1 .. n -> SUBSET Names], ReadsEach(seqs, D, snap, M, n)
  PROVE  Reads(Concat(seqs), D, snap, UpTo(M, n))
<1>1. PICK f \in [0 .. n -> Seq(Tokens)] :
           /\ f[0] = <<>>
           /\ \A i \in 1 .. n : f[i] = f[i - 1] \o seqs[i]
           /\ Concat(seqs) = f[n]
  BY Concats
<1> DEFINE U(k) == UNION {M[i] : i \in 1 .. k}
           H(k) == Reads(f[k], D, snap, U(k))
           P == {k \in Nat : k <= n => H(k)}
<1>2. H(0)
  <2>1. Reads(<<>>, D, snap, {})
    BY ReadsNothing
  <2>2. U(0) = {}
    BY SMTT(30)
  <2> HIDE DEF U
  <2> QED
    BY <1>1, <2>1, <2>2
<1>3. ASSUME NEW k \in Nat, k + 1 <= n, H(k) PROVE H(k + 1)
  <2>1. k \in 0 .. n /\ k + 1 \in 1 .. n /\ (k + 1) - 1 = k
    BY <1>3, SMTT(30)
  <2>2. Reads(f[k], D, snap, U(k)) /\ U(k) \in SUBSET Names
    BY <1>3, <2>1, SMTT(30)
  <2>3. f[k + 1] = f[k] \o seqs[k + 1] /\ f[k] \in Seq(Tokens) /\ seqs[k + 1] \in Seq(Tokens)
    BY <1>1, <2>1
  <2>4. Reads(seqs[k + 1], D, snap, M[k + 1])
    BY <2>1 DEF ReadsEach
  <2>5. U(k + 1) = U(k) \cup M[k + 1]
    <3>1. 1 .. k + 1 = (1 .. k) \cup {k + 1}
      BY SMTT(30)
    <3> QED
      BY <3>1
  <2> HIDE DEF U
  <2>6. Reads(f[k] \o seqs[k + 1], D, snap, U(k) \cup M[k + 1])
    BY <2>2, <2>3, <2>4, ReadsConcat
  <2> QED
    BY <2>3, <2>5, <2>6
<1>4. H(n)
  <2> HIDE DEF H
  <2>1. 0 \in P /\ \A k \in Nat : k \in P => k + 1 \in P
    BY <1>2, <1>3, SMTT(30)
  <2>2. n \in P
    <3> HIDE DEF P
    <3> QED
      BY <2>1, NatSetInduction
  <2> QED
    BY <2>2, SMTT(30)
<1> QED
  BY <1>1, <1>4 DEF UpTo

-----------------------------------------------------------------------------
(* The entry that a string makes. *)
LEMMA LoadsOne ==
  ASSUME NEW en \in Seq(Loadable), NEW snap, NEW N, NEW x \in Loadable, Loads(en, snap, N),
         Saved(snap)[x.name] = [value |-> x.value, expire |-> x.expire]
  PROVE  Append(en, x) \in Seq(Loadable) /\ Loads(Append(en, x), snap, N \cup {x.name})
<1> DEFINE a == Append(en, x)
<1>1. a \in Seq(Loadable) /\ DOMAIN a = 1 .. Len(en) + 1 /\ a[Len(en) + 1] = x
      /\ \A i \in 1 .. Len(en) : a[i] = en[i]
  BY SMTT(30)
<1>2. DOMAIN en = 1 .. Len(en) /\ Len(en) \in Nat
  BY SMTT(30)
<1> HIDE DEF a
<1>3. ASSUME NEW i \in DOMAIN a
      PROVE  /\ a[i].name \in N \cup {x.name}
             /\ Saved(snap)[a[i].name] = [value |-> a[i].value, expire |-> a[i].expire]
  <2>1. CASE i = Len(en) + 1
    BY <1>1, <2>1
  <2>2. CASE i # Len(en) + 1
    <3>1. i \in DOMAIN en /\ a[i] = en[i]
      BY <1>1, <1>2, <2>2, SMTT(30)
    <3> QED
      BY <3>1 DEF Loads
  <2> QED
    BY <2>1, <2>2
<1>4. ASSUME NEW n \in N \cup {x.name}, Saved(snap)[n] # Absent
      PROVE  \E i \in DOMAIN a : a[i].name = n
  <2>1. CASE n = x.name
    <3>1. Len(en) + 1 \in DOMAIN a
      BY <1>1, <1>2, SMTT(30)
    <3> QED
      BY <1>1, <2>1, <3>1
  <2>2. CASE n \in N
    <3>1. PICK i \in DOMAIN en : en[i].name = n
      BY <1>4, <2>2 DEF Loads
    <3>2. i \in DOMAIN a /\ a[i] = en[i]
      BY <1>1, <1>2, SMTT(30)
    <3> QED
      BY <3>1, <3>2
  <2> QED
    BY <2>1, <2>2
<1> QED
  BY <1>1, <1>3, <1>4 DEF Loads, a

(* The tokens of one key are read back as its entry. *)
LEMMA ReadsKey ==
  ASSUME NEW snap, SnapOK(snap), ~Dangling(snap), NEW d \in DBs, NEW s, NEW k \in Keys
  PROVE  Reads(KeyTokens(snap, d, s, k), {d}, snap, {n \in {<<d, k>>} : shard[k] = s})
<1> DEFINE n == <<d, k>>
           e == snap[shard[k]][n]
<1>0. n \in Names /\ n[2] = k /\ e \in Entries \cup {Absent}
  BY DEF Names, SnapOK
<1>1. Saved(snap)[n] = IF e = Absent \/ e.value = Collection THEN Absent ELSE e
  BY <1>0 DEF Saved
<1>2. e # Absent /\ e.value = Collection => e.expire = None
  BY <1>0 DEF Dangling
<1>3. CASE shard[k] # s
  <2>1. KeyTokens(snap, d, s, k) = <<>> /\ {m \in {n} : shard[k] = s} = {}
    BY <1>3 DEF KeyTokens
  <2> QED
    BY <2>1, ReadsNothing
<1>4. CASE shard[k] = s /\ (e = Absent \/ e.value = Collection)
  <2>1. KeyTokens(snap, d, s, k) = <<>>
    BY <1>2, <1>4, SMTT(30) DEF KeyTokens, write_key_value
  <2>2. \A m \in {m \in {n} : shard[k] = s} : Saved(snap)[m] = Absent
    BY <1>1, <1>4
  <2> QED
    BY <2>1, <2>2, ReadsNothing
<1>5. CASE shard[k] = s /\ e # Absent /\ e.value # Collection
  <2>0. {m \in {n} : shard[k] = s} = {n}
    BY <1>5
  <2>1. e \in Entries /\ e = [value |-> e.value, expire |-> e.expire]
        /\ e.value \in Strings /\ e.expire \in Nat \cup {None}
    BY <1>0, <1>5 DEF Entries, Deadlines
  <2> DEFINE x == [name |-> n, value |-> e.value, expire |-> e.expire]
             a == [op |-> "expire", ms |-> e.expire]
             b == [op |-> "string", key |-> k, value |-> e.value]
  <2>2. x \in Loadable /\ x.name = n /\ Saved(snap)[x.name] = [value |-> x.value, expire |-> x.expire]
    BY <1>0, <1>1, <1>5, <2>1 DEF Loadable, Deadlines
  <2>3. KeyTokens(snap, d, s, k) = (IF e.expire = None THEN <<>> ELSE <<a>>) \o <<b>>
    BY <1>5 DEF KeyTokens, write_key_value
  <2> SUFFICES ASSUME NEW acc, NEW N, NEW crc \in Seq(Tokens), Between(acc, {d}, crc, snap, N)
               PROVE  Between(ReadAll(acc, KeyTokens(snap, d, s, k)), {d},
                              crc \o KeyTokens(snap, d, s, k), snap, N \cup {n})
    BY <2>0 DEF Reads
  <2>4. PICK en \in Seq(Loadable) : acc = Acc("reading", d, None, FALSE, crc, en) /\ Loads(en, snap, N)
    BY DEF Between
  <2>5. Append(en, x) \in Seq(Loadable) /\ Loads(Append(en, x), snap, N \cup {n})
    BY <2>2, <2>4, LoadsOne
  <2> HIDE DEF n, e
  <2>6. CASE e.expire = None
    <3>1. KeyTokens(snap, d, s, k) = <<b>>
      BY <2>3, <2>6, SMTT(30)
    <3>2. ReadAll(acc, <<b>>) = Acc("reading", d, None, FALSE, Append(crc, b), Append(en, x))
      <4>1. ReadAll(acc, <<b>>) = read_entry(acc, b)
        BY ReadOne
      <4>2. read_entry(Acc("reading", d, None, FALSE, crc, en), b)
            = Acc("reading", d, None, FALSE, Append(crc, b), Append(en, [name |-> <<d, k>>, value |-> e.value, expire |-> None]))
        BY DEF read_entry, Acc
      <4> QED
        BY <2>4, <2>6, <4>1, <4>2 DEF n
    <3>3. crc \o <<b>> = Append(crc, b)
      BY SMTT(30)
    <3> HIDE DEF b, x
    <3> QED
      BY <2>5, <3>1, <3>2, <3>3 DEF Between
  <2>7. CASE e.expire # None
    <3>1. KeyTokens(snap, d, s, k) = <<a>> \o <<b>>
      BY <2>3, <2>7
    <3>2. a \in Tokens /\ b \in Tokens
      BY <2>1, <2>7 DEF Tokens
    <3>3. ReadAll(acc, <<a>>) = Acc("reading", d, e.expire, FALSE, Append(crc, a), en)
      <4>1. ReadAll(acc, <<a>>) = read_entry(acc, a)
        BY ReadOne
      <4>2. read_entry(Acc("reading", d, None, FALSE, crc, en), a)
            = Acc("reading", d, e.expire, FALSE, Append(crc, a), en)
        BY DEF read_entry, Acc
      <4> QED
        BY <2>4, <4>1, <4>2
    <3>4. ReadAll(ReadAll(acc, <<a>>), <<b>>)
          = Acc("reading", d, None, FALSE, Append(Append(crc, a), b), Append(en, x))
      <4>1. ReadAll(ReadAll(acc, <<a>>), <<b>>) = read_entry(ReadAll(acc, <<a>>), b)
        BY ReadOne
      <4>2. read_entry(Acc("reading", d, e.expire, FALSE, Append(crc, a), en), b)
            = Acc("reading", d, None, FALSE, Append(Append(crc, a), b),
                  Append(en, [name |-> <<d, k>>, value |-> e.value, expire |-> e.expire]))
        BY DEF read_entry, Acc
      <4> QED
        BY <3>3, <4>1, <4>2 DEF n
    <3> HIDE DEF a, b, x
    <3>5. ReadAll(acc, <<a>> \o <<b>>) = ReadAll(ReadAll(acc, <<a>>), <<b>>)
      <4>1. <<a>> \in Seq(Tokens) /\ <<b>> \in Seq(Tokens)
        BY <3>2, SMTT(30)
      <4> QED
        BY <4>1, ReadConcat
    <3>6. crc \o (<<a>> \o <<b>>) = Append(Append(crc, a), b)
      BY <3>2, SMTT(30)
    <3> QED
      BY <2>5, <3>1, <3>4, <3>5, <3>6 DEF Between
  <2> QED
    BY <2>6, <2>7
<1> QED
  BY <1>3, <1>4, <1>5

(* The names of database d whose keys are on shard s. *)
NamesOn(d, s) == {n \in {d} \X Keys : shard[n[2]] = s}

(* One shard of one database. *)
LEMMA ReadsShard ==
  ASSUME NEW snap, SnapOK(snap), ~Dangling(snap), NEW d \in DBs, NEW s
  PROVE  Reads(ShardTokens(snap, d, s), {d}, snap, NamesOn(d, s))
<1> DEFINE m == Len(Order)
           seqs == [j \in 1 .. m |-> KeyTokens(snap, d, s, Order[j])]
           M == [j \in 1 .. m |-> {n \in {<<d, Order[j]>>} : shard[Order[j]] = s}]
<1>1. m \in Nat /\ DOMAIN Order = 1 .. m /\ \A j \in 1 .. m : Order[j] \in Keys
  BY PersistenceAssumption, SMTT(30)
<1>2. seqs \in [1 .. m -> Seq(Tokens)]
  BY <1>1, KeyTokensType
<1>3. M \in [1 .. m -> SUBSET Names]
  BY <1>1, SMTT(30) DEF Names
<1>4. ReadsEach(seqs, {d}, snap, M, m)
  BY <1>1, ReadsKey, SMTT(30) DEF ReadsEach
<1>5. UpTo(M, m) = NamesOn(d, s)
  <2>1. \A n : n \in NamesOn(d, s) <=> \E k \in Keys : n = <<d, k>> /\ shard[k] = s
    BY SMTT(30) DEF NamesOn
  <2>2. \A k : k \in Keys <=> \E j \in 1 .. m : k = Order[j]
    BY <1>1 DEF Keys
  <2>3. \A n : n \in UpTo(M, m) <=> \E j \in 1 .. m : n = <<d, Order[j]>> /\ shard[Order[j]] = s
    BY DEF UpTo
  <2> HIDE DEF M, m
  <2> QED
    BY <2>1, <2>2, <2>3, SMTT(30)
<1>6. ShardTokens(snap, d, s) = Concat(seqs)
  BY DEF ShardTokens
<1> HIDE DEF seqs, M, m
<1>7. Reads(Concat(seqs), {d}, snap, UpTo(M, m))
  BY <1>1, <1>2, <1>3, <1>4, ReadsFlat
<1> QED
  BY <1>5, <1>6, <1>7

(* All shards of one database. *)
LEMMA ReadsShards ==
  ASSUME NEW snap, SnapOK(snap), ~Dangling(snap), NEW d \in DBs
  PROVE  Reads(Concat(Shardwise(snap, d)), {d}, snap, {d} \X Keys)
<1> DEFINE M == [i \in 1 .. NumShards |-> NamesOn(d, i - 1)]
<1>1. NumShards \in Nat
  BY PersistenceAssumption
<1>2. Shardwise(snap, d) \in [1 .. NumShards -> Seq(Tokens)]
  BY ShardwiseType
<1>3. M \in [1 .. NumShards -> SUBSET Names]
  BY DEF NamesOn, Names
<1>4. ReadsEach(Shardwise(snap, d), {d}, snap, M, NumShards)
  BY ReadsShard DEF ReadsEach, Shardwise
<1>5. UpTo(M, NumShards) = {d} \X Keys
  <2>1. \A n \in {d} \X Keys : shard[n[2]] + 1 \in 1 .. NumShards /\ n \in M[shard[n[2]] + 1]
    BY <1>1, PersistenceAssumption, SMTT(30) DEF Shards, NamesOn
  <2>2. \A i \in 1 .. NumShards : M[i] \subseteq {d} \X Keys
    BY DEF NamesOn
  <2> HIDE DEF M
  <2> QED
    BY <2>1, <2>2 DEF UpTo
<1> HIDE DEF M
<1>6. Reads(Concat(Shardwise(snap, d)), {d}, snap, UpTo(M, NumShards))
  BY <1>1, <1>2, <1>3, <1>4, ReadsFlat
<1> QED
  BY <1>5, <1>6

(* A database starts with its number, or has no entries. *)
LEMMA ReadsDb ==
  ASSUME NEW snap, SnapOK(snap), ~Dangling(snap), NEW d \in DBs
  PROVE  Reads(DbTokens(snap, d), DBs, snap, {d} \X Keys)
<1>1. CASE NoneThere(snap, d)
  <2>1. DbTokens(snap, d) = <<>>
    BY <1>1, DbTokensAre
  <2>2. \A n \in {d} \X Keys : Saved(snap)[n] = Absent
    BY <1>1, SMTT(30) DEF NoneThere, Saved, Names
  <2> QED
    BY <2>1, <2>2, ReadsNothing
<1>2. CASE ~NoneThere(snap, d)
  <2> DEFINE a == [op |-> "select", db |-> d]
             ts == Concat(Shardwise(snap, d))
  <2>1. DbTokens(snap, d) = <<a>> \o ts
    BY <1>2, DbTokensAre
  <2>2. a \in Tokens /\ <<a>> \in Seq(Tokens)
    BY SMTT(30) DEF Tokens
  <2>3. ts \in Seq(Tokens)
    BY ShardwiseType, ConcatType, PersistenceAssumption
  <2>4. Reads(ts, {d}, snap, {d} \X Keys)
    BY ReadsShards
  <2> SUFFICES ASSUME NEW acc, NEW N, NEW crc \in Seq(Tokens), N \subseteq Names, Between(acc, DBs, crc, snap, N)
               PROVE  Between(ReadAll(acc, <<a>> \o ts), DBs, crc \o (<<a>> \o ts), snap, N \cup ({d} \X Keys))
    BY <2>1 DEF Reads
  <2>5. PICK c \in DBs, en \in Seq(Loadable) : acc = Acc("reading", c, None, FALSE, crc, en) /\ Loads(en, snap, N)
    BY DEF Between
  <2>6. ReadAll(acc, <<a>>) = Acc("reading", d, None, FALSE, Append(crc, a), en)
    <3>1. ReadAll(acc, <<a>>) = read_entry(acc, a)
      BY ReadOne
    <3>2. read_entry(Acc("reading", c, None, FALSE, crc, en), a) = Acc("reading", d, None, FALSE, Append(crc, a), en)
      BY DEF read_entry, Acc
    <3> QED
      BY <2>5, <3>1, <3>2
  <2> HIDE DEF a, ts
  <2>7. Append(crc, a) \in Seq(Tokens) /\ Append(crc, a) \o ts = crc \o (<<a>> \o ts)
    BY <2>2, <2>3, SMTT(30)
  <2>8. Between(ReadAll(acc, <<a>>), {d}, Append(crc, a), snap, N)
    BY <2>5, <2>6 DEF Between
  <2>9. Between(ReadAll(ReadAll(acc, <<a>>), ts), {d}, Append(crc, a) \o ts, snap, N \cup ({d} \X Keys))
    BY <2>4, <2>7, <2>8 DEF Reads
  <2>10. ReadAll(acc, <<a>> \o ts) = ReadAll(ReadAll(acc, <<a>>), ts)
    BY <2>2, <2>3, ReadConcat
  <2>11. Between(ReadAll(acc, <<a>> \o ts), {d}, crc \o (<<a>> \o ts), snap, N \cup ({d} \X Keys))
    BY <2>7, <2>9, <2>10
  <2> QED
    BY <2>11 DEF Between
<1> QED
  BY <1>1, <1>2

(* All databases. *)
LEMMA ReadsBody ==
  ASSUME NEW snap, SnapOK(snap), ~Dangling(snap)
  PROVE  Reads(Body(snap), DBs, snap, Names)
<1> DEFINE M == [i \in 1 .. NumDBs |-> {i - 1} \X Keys]
<1>1. NumDBs \in Nat /\ \A i \in 1 .. NumDBs : i - 1 \in DBs
  BY PersistenceAssumption, SMTT(30) DEF DBs
<1>2. DbWise(snap) \in [1 .. NumDBs -> Seq(Tokens)]
  BY BodyType
<1>3. M \in [1 .. NumDBs -> SUBSET Names]
  BY <1>1 DEF Names
<1>4. ReadsEach(DbWise(snap), DBs, snap, M, NumDBs)
  BY <1>1, ReadsDb DEF ReadsEach, DbWise
<1>5. UpTo(M, NumDBs) = Names
  <2>1. \A n \in Names : n[1] + 1 \in 1 .. NumDBs /\ n \in M[n[1] + 1]
    BY <1>1, SMTT(30) DEF Names, DBs
  <2>2. \A i \in 1 .. NumDBs : M[i] \subseteq Names
    BY <1>1 DEF Names
  <2> HIDE DEF M
  <2> QED
    BY <2>1, <2>2 DEF UpTo
<1>6. Body(snap) = Concat(DbWise(snap))
  BY DEF Body, DbWise
<1> HIDE DEF M
<1>7. Reads(Concat(DbWise(snap)), DBs, snap, UpTo(M, NumDBs))
  BY <1>1, <1>2, <1>3, <1>4, ReadsFlat
<1> QED
  BY <1>5, <1>6, <1>7

-----------------------------------------------------------------------------
(* What the checksum of an image covers, and the token of the checksum. *)
Covered(snap) == Append(Body(snap), Mark)
Crc(snap) == [op |-> "crc", of |-> Covered(snap)]

(* What save_rdb writes: the databases and the end mark, then the checksum. *)
LEMMA ImageIs == \A snap : Image(snap) = Append(Covered(snap), Crc(snap))
BY DEF Image, Body, Covered, Crc, Mark

(* The checksum covers a sequence of tokens. *)
LEMMA CoveredType ==
  ASSUME NEW snap, SnapOK(snap)
  PROVE  Covered(snap) \in Seq(Tokens)
<1>1. Body(snap) \in Seq(Tokens) /\ Mark \in Tokens
  BY BodyType DEF Tokens
<1> QED
  BY <1>1, SMTT(30) DEF Covered

(* The token that is read last. *)
LEMMA ReadAppend ==
  ASSUME NEW acc, NEW s \in Seq(Tokens), NEW t
  PROVE  ReadAll(acc, Append(s, t)) = read_entry(ReadAll(acc, s), t)
<1> DEFINE T == Tokens \cup {t}
           u == <<t>>
<1>1. s \in Seq(T) /\ u \in Seq(T) /\ Append(s, t) = s \o u
  BY SMTT(30)
<1>2. \A x : ReadAll(x, u) = read_entry(x, t)
  BY ReadOne
<1> HIDE DEF T, u
<1>3. ReadAll(acc, s \o u) = ReadAll(ReadAll(acc, s), u)
  BY <1>1, ReadParts, SMTT(30)
<1> QED
  BY <1>1, <1>2, <1>3

(* What save_rdb writes is read back whole: to the end, with nothing       *)
(* garbled, as the strings of the snapshot.                                *)
LEMMA ImageRead ==
  ASSUME NEW snap, SnapOK(snap), ~Dangling(snap)
  PROVE  \E d \in DBs, en \in Seq(Loadable) :
           /\ ReadAll(Start, Image(snap)) = Acc("end", d, None, FALSE, Image(snap), en)
           /\ Loads(en, snap, Names)
<1>1. Between(Start, DBs, <<>>, snap, {})
  <2>1. 0 \in DBs
    BY PersistenceAssumption, SMTT(30) DEF DBs
  <2>2. <<>> \in Seq(Loadable) /\ Loads(<<>>, snap, {})
    BY SMTT(30) DEF Loads
  <2> QED
    BY <2>1, <2>2 DEF Between, Start, Acc
<1>2. Reads(Body(snap), DBs, snap, Names)
  BY ReadsBody
<1>3. Body(snap) \in Seq(Tokens) /\ <<>> \in Seq(Tokens) /\ {} \cup Names = Names
  BY BodyType, SMTT(30)
<1>4. Between(ReadAll(Start, Body(snap)), DBs, <<>> \o Body(snap), snap, {} \cup Names)
  BY <1>1, <1>2, <1>3 DEF Reads
<1>5. <<>> \o Body(snap) = Body(snap)
  BY <1>3, SMTT(30)
<1>6. PICK d \in DBs, en \in Seq(Loadable) :
           /\ ReadAll(Start, Body(snap)) = Acc("reading", d, None, FALSE, Body(snap), en)
           /\ Loads(en, snap, Names)
  BY <1>3, <1>4, <1>5 DEF Between
<1>7. ReadAll(Start, Covered(snap)) = read_entry(ReadAll(Start, Body(snap)), Mark)
  BY <1>3, ReadAppend DEF Covered
<1>8. read_entry(Acc("reading", d, None, FALSE, Body(snap), en), Mark)
      = Acc("eof", d, None, FALSE, Append(Body(snap), Mark), en)
  BY DEF read_entry, Acc, Mark
<1>9. ReadAll(Start, Image(snap)) = read_entry(ReadAll(Start, Covered(snap)), Crc(snap))
  BY CoveredType, ImageIs, ReadAppend
<1>10. read_entry(Acc("eof", d, None, FALSE, Covered(snap), en), Crc(snap))
       = Acc("end", d, None, FALSE, Append(Covered(snap), Crc(snap)), en)
  BY DEF read_entry, stored_crc, Acc, Crc
<1> QED
  BY <1>6, <1>7, <1>8, <1>9, <1>10, ImageIs DEF Covered

(* Entries of a snapshot's strings are loaded as the snapshot. *)
LEMMA LoadedIs ==
  ASSUME NEW snap, NEW r, NEW en \in Seq(Loadable), r.entries = en, Loads(en, snap, Names)
  PROVE  Loaded(r) = Saved(snap)
<1> DEFINE I(n) == {i \in DOMAIN en : en[i].name = n}
           L(n) == IF I(n) = {} THEN Absent ELSE [value |-> en[Max(I(n))].value, expire |-> en[Max(I(n))].expire]
<1>1. Loaded(r) = [n \in Names |-> L(n)]
  BY DEF Loaded
<1>2. ASSUME NEW n \in Names PROVE L(n) = Saved(snap)[n]
  <2>1. Len(en) \in Nat /\ I(n) \in SUBSET (1 .. Len(en))
    BY SMTT(30)
  <2>2. I(n) # {} => Max(I(n)) \in I(n)
    <3> HIDE DEF I
    <3> QED
      BY <2>1, MaxOf
  <2>3. CASE I(n) = {}
    BY <2>3 DEF Loads
  <2>4. CASE I(n) # {}
    <3> DEFINE i == Max(I(n))
    <3>1. i \in DOMAIN en /\ en[i].name = n
      BY <2>2, <2>4
    <3> HIDE DEF i
    <3>2. Saved(snap)[n] = [value |-> en[i].value, expire |-> en[i].expire]
      BY <3>1 DEF Loads
    <3> QED
      BY <2>4, <3>2 DEF i
  <2> QED
    BY <2>3, <2>4
<1>3. Saved(snap) = [n \in Names |-> Saved(snap)[n]]
  BY DEF Saved
<1> HIDE DEF L
<1> QED
  BY <1>1, <1>2, <1>3

-----------------------------------------------------------------------------
(* A file that saves of the snapshots S wrote to, each over the others: any *)
(* of their tokens in any order, and holes.                                *)
FileTokens(S) == Tokens \cup {[op |-> "hole"]} \cup {Crc(snap) : snap \in S}
FileOK(file, S) == \E n \in Nat : DOMAIN file = 1 .. n /\ \A i \in 1 .. n : file[i] \in FileTokens(S)

(* The types of a state of the reader. *)
AccOK(acc) ==
  /\ acc = Acc(acc.status, acc.db, acc.expire, acc.garbled, acc.crc, acc.entries)
  /\ acc.db \in DBs /\ acc.expire \in Deadlines /\ acc.entries \in Seq(Loadable)

(* A step of the reader keeps the types. *)
LEMMA ReadType ==
  ASSUME NEW acc, AccOK(acc), NEW S, NEW t \in FileTokens(S)
  PROVE  AccOK(read_entry(acc, t))
<1> DEFINE x == [name |-> <<acc.db, t.key>>, value |-> t.value, expire |-> acc.expire]
<1>1. t.op = "string" => t.key \in Keys /\ t.value \in Strings
  BY SMTT(30) DEF FileTokens, Tokens, Mark, Crc
<1>2. t.op = "select" => t.db \in DBs
  BY SMTT(30) DEF FileTokens, Tokens, Mark, Crc
<1>3. t.op = "expire" => t.ms \in Deadlines
  BY SMTT(30) DEF FileTokens, Tokens, Mark, Crc, Deadlines
<1>4. None \in Deadlines
  BY DEF Deadlines
<1>5. CASE acc.status \notin {"reading", "eof"}
  BY <1>5 DEF read_entry
<1>9. CASE acc.status = "eof"
  <2>1. read_entry(acc, t) = Acc(stored_crc(t, acc.crc), acc.db, acc.expire, acc.garbled, Append(acc.crc, t), acc.entries)
    BY <1>9 DEF AccOK, Acc, read_entry
  <2> QED
    BY <2>1, SMTT(30) DEF AccOK, Acc
<1>6. CASE acc.status = "reading" /\ t.op = "string"
  <2>1. x \in Loadable
    BY <1>1, <1>6 DEF AccOK, Loadable, Names
  <2>2. Append(acc.entries, x) \in Seq(Loadable)
    BY <2>1, SMTT(30) DEF AccOK
  <2>3. read_entry(acc, t) = Acc("reading", acc.db, None, acc.garbled, Append(acc.crc, t), Append(acc.entries, x))
    BY <1>6 DEF AccOK, Acc, read_entry
  <2> HIDE DEF x
  <2> QED
    BY <1>4, <2>2, <2>3, SMTT(30) DEF AccOK, Acc
<1>7. CASE acc.status = "reading" /\ t.op # "string" /\ acc.expire # None
  <2>1. read_entry(acc, t) = Acc("reading", acc.db, None, TRUE, Append(acc.crc, t), acc.entries)
    BY <1>7 DEF AccOK, Acc, read_entry
  <2> QED
    BY <1>4, <2>1, SMTT(30) DEF AccOK, Acc
<1>8. CASE acc.status = "reading" /\ t.op # "string" /\ acc.expire = None
  <2>1. CASE t.op = "eof"
    <3>1. read_entry(acc, t) = Acc("eof", acc.db, None, acc.garbled, Append(acc.crc, t), acc.entries)
      BY <1>8, <2>1 DEF AccOK, Acc, read_entry
    <3> QED
      BY <1>4, <3>1, SMTT(30) DEF AccOK, Acc
  <2>2. CASE t.op = "select"
    <3>1. read_entry(acc, t) = Acc("reading", t.db, None, acc.garbled, Append(acc.crc, t), acc.entries)
      BY <1>8, <2>2 DEF AccOK, Acc, read_entry
    <3> QED
      BY <1>2, <1>4, <2>2, <3>1, SMTT(30) DEF AccOK, Acc
  <2>3. CASE t.op = "expire"
    <3>1. read_entry(acc, t) = Acc("reading", acc.db, t.ms, acc.garbled, Append(acc.crc, t), acc.entries)
      BY <1>8, <2>3 DEF AccOK, Acc, read_entry
    <3> QED
      BY <1>3, <2>3, <3>1, SMTT(30) DEF AccOK, Acc
  <2>4. CASE t.op \notin {"eof", "select", "expire"}
    <3>1. read_entry(acc, t) = Acc("reading", acc.db, None, TRUE, Append(acc.crc, t), acc.entries)
      BY <1>8, <2>4 DEF AccOK, Acc, read_entry
    <3> QED
      BY <1>4, <3>1, SMTT(30) DEF AccOK, Acc
  <2> QED
    BY <2>1, <2>2, <2>3, <2>4
<1> QED
  BY <1>5, <1>6, <1>7, <1>8, <1>9

(* The reader goes on. *)
Going(acc) == acc.status \in {"reading", "eof"}

(* A reader that goes on has the token in its checksum; one that ended     *)
(* stays where it is; one that ends well met a checksum that is its own.   *)
LEMMA ReadStops ==
  ASSUME NEW acc, ~Going(acc), NEW t
  PROVE  read_entry(acc, t) = acc
BY DEF read_entry, Going

(* A token that is read goes into the checksum. *)
LEMMA ReadCrc ==
  ASSUME NEW acc, AccOK(acc), Going(acc), NEW t
  PROVE  read_entry(acc, t).crc = Append(acc.crc, t)
<1>1. acc = Acc(acc.status, acc.db, acc.expire, acc.garbled, acc.crc, acc.entries)
  BY DEF AccOK
<1>2. CASE acc.status = "eof"
  BY <1>1, <1>2 DEF Acc, read_entry
<1>3. CASE acc.status = "reading" /\ t.op = "string"
  BY <1>1, <1>3 DEF Acc, read_entry
<1>4. CASE acc.status = "reading" /\ t.op # "string" /\ acc.expire # None
  BY <1>1, <1>4 DEF Acc, read_entry
<1>5. CASE acc.status = "reading" /\ t.op = "eof" /\ acc.expire = None
  BY <1>1, <1>5 DEF Acc, read_entry
<1>6. CASE acc.status = "reading" /\ t.op = "select" /\ acc.expire = None
  BY <1>1, <1>6 DEF Acc, read_entry
<1>7. CASE acc.status = "reading" /\ t.op = "expire" /\ acc.expire = None
  BY <1>1, <1>7 DEF Acc, read_entry
<1>8. CASE acc.status = "reading" /\ t.op \notin {"string", "eof", "select", "expire"} /\ acc.expire = None
  BY <1>1, <1>8 DEF Acc, read_entry
<1> QED
  BY <1>2, <1>3, <1>4, <1>5, <1>6, <1>7, <1>8 DEF Going

(* A reader that has not met the end mark does not end well. *)
LEMMA ReadOn ==
  ASSUME NEW acc, AccOK(acc), acc.status = "reading", NEW t
  PROVE  read_entry(acc, t).status \in {"reading", "eof"}
<1>1. acc = Acc("reading", acc.db, acc.expire, acc.garbled, acc.crc, acc.entries)
  BY DEF AccOK
<1>2. CASE t.op = "string"
  BY <1>1, <1>2 DEF Acc, read_entry
<1>3. CASE t.op # "string" /\ acc.expire # None
  BY <1>1, <1>3 DEF Acc, read_entry
<1>4. CASE t.op = "eof" /\ acc.expire = None
  BY <1>1, <1>4 DEF Acc, read_entry
<1>5. CASE t.op = "select" /\ acc.expire = None
  BY <1>1, <1>5 DEF Acc, read_entry
<1>6. CASE t.op = "expire" /\ acc.expire = None
  BY <1>1, <1>6 DEF Acc, read_entry
<1>7. CASE t.op \notin {"string", "eof", "select", "expire"} /\ acc.expire = None
  BY <1>1, <1>7 DEF Acc, read_entry
<1> QED
  BY <1>2, <1>3, <1>4, <1>5, <1>6, <1>7

(* Only the right checksum ends the file well. *)
LEMMA ReadEnds ==
  ASSUME NEW acc, AccOK(acc), Going(acc), NEW t, read_entry(acc, t).status = "end"
  PROVE  t.op = "crc" /\ t.of = acc.crc
<1>1. acc.status = "eof"
  BY ReadOn DEF Going
<1>2. acc = Acc("eof", acc.db, acc.expire, acc.garbled, acc.crc, acc.entries)
  BY <1>1 DEF AccOK
<1>3. read_entry(acc, t).status = stored_crc(t, acc.crc)
  BY <1>1, <1>2 DEF Acc, read_entry
<1> QED
  BY <1>3 DEF stored_crc

(* Only the tokens of a file matter. *)
LEMMA SameTokens ==
  ASSUME NEW n \in Nat, NEW file, DOMAIN file = 1 .. n, NEW image, DOMAIN image = 1 .. n,
         \A i \in 1 .. n : file[i] = image[i]
  PROVE  ReadAll(Start, file) = ReadAll(Start, image)
<1>1. PICK g : ReadRun(g, Start, file, n) /\ ReadAll(Start, file) = g[n]
  BY ReadRunExists
<1>2. ReadRun(g, Start, image, n)
  BY <1>1 DEF ReadRun
<1> QED
  BY <1>1, <1>2, ReadOfRun, SMTT(30)

(* A sequence over a set is one over a larger set. *)
LEMMA SeqOfMore ==
  ASSUME NEW A, NEW B, A \subseteq B, NEW c \in Seq(A)
  PROVE  c \in Seq(B)
  BY SMTT(30)

(* At every token of a run, the reader has either taken all tokens so far  *)
(* into its checksum, or it stopped at one of them.                        *)
Reached(g, file, i) ==
  \/ /\ Going(g[i])
     /\ g[i].crc \in Seq({file[j] : j \in 1 .. i}) /\ Len(g[i].crc) = i
     /\ \A j \in 1 .. i : g[i].crc[j] = file[j]
  \/ \E p \in 1 .. i : g[i] = g[p] /\ ~Going(g[p]) /\ Going(g[p - 1])

(* By induction on the tokens. *)
LEMMA RunReaches ==
  ASSUME NEW S, NEW n \in Nat, NEW file, \A i \in 1 .. n : file[i] \in FileTokens(S), NEW g, ReadRun(g, Start, file, n)
  PROVE  \A i \in 0 .. n : AccOK(g[i]) /\ Reached(g, file, i)
<1> DEFINE H(k) == AccOK(g[k]) /\ Reached(g, file, k)
           P == {k \in Nat : k <= n => H(k)}
<1>1. H(0)
  <2>1. g[0] = Start
    BY DEF ReadRun
  <2>2. AccOK(Start)
    <3>1. 0 \in DBs
      BY PersistenceAssumption, SMTT(30) DEF DBs
    <3> QED
      BY <3>1, SMTT(30) DEF AccOK, Start, Acc, Deadlines
  <2>3. Going(Start) /\ Start.crc = <<>>
    BY DEF Going, Start, Acc
  <2>4. <<>> \in Seq({file[j] : j \in 1 .. 0}) /\ Len(<<>>) = 0 /\ 1 .. 0 = {}
    BY SMTT(30)
  <2> QED
    BY <2>1, <2>2, <2>3, <2>4 DEF Reached
<1>2. ASSUME NEW k \in Nat, k + 1 <= n, H(k) PROVE H(k + 1)
  <2> DEFINE t == file[k + 1]
  <2>1. k + 1 \in 1 .. n /\ (k + 1) - 1 = k
    BY <1>2, SMTT(30)
  <2>2. g[k + 1] = read_entry(g[k], t) /\ t \in FileTokens(S)
    BY <2>1 DEF ReadRun
  <2>3. AccOK(g[k + 1])
    BY <1>2, <2>2, ReadType
  <2>4. CASE Going(g[k])
    <3>1. g[k].crc \in Seq({file[j] : j \in 1 .. k}) /\ Len(g[k].crc) = k
          /\ \A j \in 1 .. k : g[k].crc[j] = file[j]
      BY <1>2, <2>4 DEF Reached
    <3>2. g[k + 1].crc = Append(g[k].crc, t)
      BY <1>2, <2>2, <2>4, ReadCrc
    <3>3. CASE Going(g[k + 1])
      <4> DEFINE c == g[k].crc
                 A == {file[j] : j \in 1 .. k}
                 B == {file[j] : j \in 1 .. k + 1}
      <4>1. c \in Seq(A) /\ A \subseteq B /\ t \in B
        <5>1. 1 .. k \subseteq 1 .. k + 1 /\ k + 1 \in 1 .. k + 1
          BY <1>2, SMTT(30)
        <5>2. A \subseteq B /\ t \in B
          BY <5>1
        <5> QED
          BY <3>1, <5>2
      <4>2. Len(c) = k /\ \A j \in 1 .. k : c[j] = file[j]
        BY <3>1
      <4> HIDE DEF c, A, B, t
      <4>3. c \in Seq(B)
        BY <4>1, SeqOfMore
      <4>4. Append(c, t) \in Seq(B) /\ Len(Append(c, t)) = k + 1 /\ Append(c, t)[k + 1] = t
            /\ \A j \in 1 .. k : Append(c, t)[j] = c[j]
        BY <4>1, <4>2, <4>3, SMTT(30)
      <4>5. \A j \in 1 .. k + 1 : Append(c, t)[j] = file[j]
        BY <4>2, <4>4, SMTT(30) DEF t
      <4> QED
        BY <2>3, <3>2, <3>3, <4>4, <4>5 DEF Reached, B, c
    <3>4. CASE ~Going(g[k + 1])
      BY <2>1, <2>3, <2>4, <3>4, SMTT(30) DEF Reached
    <3> QED
      BY <3>3, <3>4
  <2>5. CASE ~Going(g[k])
    <3>1. g[k + 1] = g[k]
      BY <2>2, <2>5, ReadStops
    <3>2. PICK p \in 1 .. k : g[k] = g[p] /\ ~Going(g[p]) /\ Going(g[p - 1])
      BY <1>2, <2>5 DEF Reached
    <3>3. p \in 1 .. k + 1 /\ g[k + 1] = g[p]
      BY <3>1, <3>2, SMTT(30)
    <3> QED
      BY <2>3, <3>2, <3>3 DEF Reached
  <2> QED
    BY <2>4, <2>5
<1> HIDE DEF H
<1>3. 0 \in P /\ \A k \in Nat : k \in P => k + 1 \in P
  BY <1>1, <1>2, SMTT(30)
<1>4. Nat \subseteq P
  <2> HIDE DEF P
  <2> QED
    BY <1>3, NatSetInduction
<1>5. \A k \in 0 .. n : H(k)
  BY <1>4, SMTT(30)
<1> QED
  BY <1>5 DEF H

(* Whatever was written, what is read has the types of entries. *)
LEMMA FileType ==
  ASSUME NEW S, NEW file, FileOK(file, S)
  PROVE  AccOK(ReadAll(Start, file))
<1>1. PICK n \in Nat : DOMAIN file = 1 .. n /\ \A i \in 1 .. n : file[i] \in FileTokens(S)
  BY DEF FileOK
<1>2. PICK g : ReadRun(g, Start, file, n) /\ ReadAll(Start, file) = g[n]
  BY <1>1, ReadRunExists
<1>3. n \in 0 .. n
  BY SMTT(30)
<1> QED
  BY <1>1, <1>2, <1>3, RunReaches

(* A file that is accepted starts with the whole image of one of its       *)
(* snapshots, and is read as that image.                                   *)
LEMMA FileEnds ==
  ASSUME NEW S, \A snap \in S : SnapOK(snap), NEW file, FileOK(file, S), ReadAll(Start, file).status = "end"
  PROVE  \E snap \in S : ReadAll(Start, file) = ReadAll(Start, Image(snap))
<1>1. PICK n \in Nat : DOMAIN file = 1 .. n /\ \A i \in 1 .. n : file[i] \in FileTokens(S)
  BY DEF FileOK
<1>2. PICK g : ReadRun(g, Start, file, n) /\ ReadAll(Start, file) = g[n]
  BY <1>1, ReadRunExists
<1>3. \A i \in 0 .. n : AccOK(g[i]) /\ Reached(g, file, i)
  BY <1>1, <1>2, RunReaches
<1>4. PICK p \in 1 .. n : g[n] = g[p] /\ ~Going(g[p]) /\ Going(g[p - 1])
  <2>1. n \in 0 .. n
    BY SMTT(30)
  <2> QED
    BY <1>2, <1>3, <2>1 DEF Reached, Going
<1> DEFINE t == file[p]
           c == g[p - 1].crc
<1>5. p - 1 \in 0 .. n /\ p - 1 \in Nat /\ p \in Nat
  BY SMTT(30)
<1>6. g[p] = read_entry(g[p - 1], t) /\ t \in FileTokens(S)
  BY <1>1, <1>2 DEF ReadRun
<1>7. t.op = "crc" /\ t.of = c
  BY <1>2, <1>3, <1>4, <1>5, <1>6, ReadEnds, SMTT(30)
<1>8. PICK snap \in S : t = Crc(snap)
  BY <1>6, <1>7, SMTT(30) DEF FileTokens, Tokens, Mark
<1>9. c \in Seq({file[j] : j \in 1 .. p - 1}) /\ Len(c) = p - 1 /\ \A j \in 1 .. p - 1 : c[j] = file[j]
  BY <1>3, <1>4, <1>5 DEF Reached
<1>10. c = Covered(snap) /\ Covered(snap) \in Seq(Tokens)
  BY <1>7, <1>8, CoveredType, SMTT(30) DEF Crc
<1> DEFINE image == Image(snap)
<1>11. image = Append(c, t)
  BY <1>8, <1>10, ImageIs
<1>12. DOMAIN image = 1 .. p /\ \A j \in 1 .. p : image[j] = file[j]
  <2>1. c \in Seq(Tokens)
    BY <1>10
  <2> HIDE DEF image, c
  <2>2. DOMAIN Append(c, t) = 1 .. p /\ Append(c, t)[p] = t /\ \A j \in 1 .. p - 1 : Append(c, t)[j] = c[j]
    BY <1>5, <1>9, <2>1, SMTT(30)
  <2> QED
    BY <1>5, <1>9, <1>11, <2>2, SMTT(30)
<1> DEFINE h == [i \in 0 .. p |-> g[i]]
<1>13. ReadRun(h, Start, image, p)
  <2>1. DOMAIN h = 0 .. p /\ h[0] = Start
    BY <1>2, <1>5, SMTT(30) DEF ReadRun
  <2>2. ASSUME NEW i \in 1 .. p PROVE h[i] = read_entry(h[i - 1], image[i])
    BY <1>2, <1>12, SMTT(30) DEF ReadRun
  <2> HIDE DEF h, image
  <2> QED
    BY <2>1, <2>2 DEF ReadRun
<1>14. h[p] = g[p]
  BY <1>5, SMTT(30)
<1> HIDE DEF h, image
<1>15. ReadAll(Start, image) = h[p]
  BY <1>5, <1>12, <1>13, ReadOfRun
<1> QED
  BY <1>2, <1>4, <1>14, <1>15 DEF image

-----------------------------------------------------------------------------
(* What load_entries makes of the entries en on shard s. *)
LoadOn(s, st, en) ==
  LET load[i \in 0 .. Len(en)] == IF i = 0 THEN st ELSE load_on(s, load[i - 1], en[i])
  IN  load[Len(en)]

(* The loop of load_entries. *)
LEMMA LoadEntriesIs ==
  ASSUME NEW s, load_entries(s)
  PROVE  store' = IF s \in alive THEN LoadOn(s, store, rdb) ELSE store
BY DEF load_entries, LoadOn

(* f is the function of that definition. *)
LoadIter(f, s, st, en, n) == f = [i \in 0 .. n |-> IF i = 0 THEN st ELSE load_on(s, f[i - 1], en[i])]

(* There is such a function. *)
LEMMA LoadIterExists ==
  ASSUME NEW s, NEW st, NEW en, NEW n \in Nat
  PROVE  \E f : LoadIter(f, s, st, en, n)
<1> DEFINE P == {k \in Nat : \E f : LoadIter(f, s, st, en, k)}
<1>1. 0 \in P
  <2>1. LoadIter([i \in 0 .. 0 |-> st], s, st, en, 0)
    BY SMTT(30) DEF LoadIter
  <2> QED
    BY <2>1
<1>2. ASSUME NEW k \in Nat, k \in P PROVE k + 1 \in P
  <2>1. PICK f : LoadIter(f, s, st, en, k)
    BY <1>2
  <2> DEFINE h == [i \in 0 .. k + 1 |-> IF i = k + 1 THEN load_on(s, f[k], en[k + 1]) ELSE f[i]]
  <2>2. ASSUME NEW i \in 0 .. k + 1
        PROVE  h[i] = IF i = 0 THEN st ELSE load_on(s, h[i - 1], en[i])
    <3>1. CASE i = k + 1
      <4>1. i - 1 = k /\ k \in 0 .. k + 1 /\ k # k + 1 /\ i # 0
        BY <3>1, SMTT(30)
      <4>2. h[i] = load_on(s, f[k], en[k + 1]) /\ h[k] = f[k]
        BY <3>1, <4>1
      <4> QED
        BY <3>1, <4>1, <4>2
    <3>2. CASE i # k + 1
      <4>1. i \in 0 .. k /\ h[i] = f[i]
        BY <3>2, SMTT(30)
      <4>2. i # 0 => i - 1 \in 0 .. k + 1 /\ i - 1 # k + 1 /\ h[i - 1] = f[i - 1]
        BY <4>1, SMTT(30)
      <4>3. f[i] = IF i = 0 THEN st ELSE load_on(s, f[i - 1], en[i])
        BY <2>1, <4>1 DEF LoadIter
      <4> QED
        BY <4>1, <4>2, <4>3
    <3> QED
      BY <3>1, <3>2
  <2>3. h = [i \in 0 .. k + 1 |-> IF i = 0 THEN st ELSE load_on(s, h[i - 1], en[i])]
    BY <2>2
  <2>4. LoadIter(h, s, st, en, k + 1)
    BY <2>3 DEF LoadIter
  <2> QED
    BY <2>4, SMTT(30)
<1> HIDE DEF P
<1>3. n \in P
  BY <1>1, <1>2, NatSetInduction
<1> QED
  BY <1>3 DEF P

(* The store of shard s, entry by entry. *)
LoadRun(g, s, st, en, n) ==
  /\ DOMAIN g = 0 .. n
  /\ g[0] = st
  /\ \A i \in 1 .. n : g[i] = load_on(s, g[i - 1], en[i])

(* Every load has a run. *)
LEMMA LoadRunExists ==
  ASSUME NEW s, NEW st, NEW en, NEW n \in Nat, DOMAIN en = 1 .. n
  PROVE  \E g : LoadRun(g, s, st, en, n) /\ LoadOn(s, st, en) = g[n]
<1> DEFINE g == CHOOSE f : f = [i \in 0 .. n |-> IF i = 0 THEN st ELSE load_on(s, f[i - 1], en[i])]
<1>1. LoadIter(g, s, st, en, n)
  <2>1. \E f : f = [i \in 0 .. n |-> IF i = 0 THEN st ELSE load_on(s, f[i - 1], en[i])]
    <3>1. PICK f : LoadIter(f, s, st, en, n)
      BY LoadIterExists
    <3> QED
      BY <3>1 DEF LoadIter
  <2>2. g = [i \in 0 .. n |-> IF i = 0 THEN st ELSE load_on(s, g[i - 1], en[i])]
    BY <2>1
  <2> QED
    BY <2>2 DEF LoadIter
<1>2. LoadOn(s, st, en) = g[n]
  <2>1. Len(en) = n
    BY SMTT(30)
  <2> QED
    BY <2>1 DEF LoadOn
<1> HIDE DEF g
<1>3. LoadRun(g, s, st, en, n)
  BY <1>1, SMTT(30) DEF LoadIter, LoadRun
<1> QED
  BY <1>2, <1>3

(* What the shards hold. *)
Stores == [Names -> Entries \cup {Absent}]

(* One entry leaves the other names alone, and leaves a store. *)
LEMMA LoadOne ==
  ASSUME NEW s, NEW st \in Stores, NEW e \in Loadable
  PROVE  /\ load_on(s, st, e) \in Stores
         /\ \A n \in Names : n # e.name \/ shard[n[2]] # s => load_on(s, st, e)[n] = st[n]
<1>0. e.name \in Names /\ e.value \in Strings /\ e.expire \in Deadlines
  BY DEF Loadable
<1>1. CASE shard[e.name[2]] # s \/ (e.expire # None /\ e.expire <= now)
  BY <1>1 DEF load_on, load_entry
<1>2. CASE shard[e.name[2]] = s /\ ~(e.expire # None /\ e.expire <= now)
  <2> DEFINE w == IF e.expire = None /\ st[e.name] # Absent THEN st[e.name].expire ELSE e.expire
             x == [value |-> e.value, expire |-> w]
  <2>1. load_on(s, st, e) = [st EXCEPT ![e.name] = x]
    BY <1>2 DEF load_on, load_entry
  <2>2. w \in Deadlines
    BY <1>0 DEF Stores, Entries
  <2>3. x \in Entries
    BY <1>0, <2>2 DEF Entries
  <2> HIDE DEF x
  <2> QED
    BY <1>0, <1>2, <2>1, <2>3 DEF Stores
<1> QED
  BY <1>1, <1>2

(* What shard s has of the snapshot when it loads at this moment. *)
Due(snap, n, t) ==
  LET e == Saved(snap)[n] IN IF e # Absent /\ e.expire # None /\ e.expire <= t THEN Absent ELSE e

(* Each name of shard s is as it was (empty) or as the snapshot has it, and *)
(* is as the snapshot has it once one of its entries was loaded.           *)
Half(g, s, st, en, snap, i) ==
  /\ g[i] \in Stores
  /\ \A n \in Names :
       IF shard[n[2]] # s THEN g[i][n] = st[n]
       ELSE /\ g[i][n] = Absent \/ g[i][n] = Due(snap, n, now)
            /\ (\E j \in 1 .. i : en[j].name = n) => g[i][n] = Due(snap, n, now)

(* One more entry. *)
LEMMA HalfStep ==
  ASSUME NEW s, NEW st \in Stores, NEW en \in Seq(Loadable), NEW snap, SnapOK(snap), Loads(en, snap, Names),
         NEW n \in Nat, n = Len(en), NEW g, LoadRun(g, s, st, en, n),
         NEW k \in Nat, k + 1 <= n, Half(g, s, st, en, snap, k)
  PROVE  Half(g, s, st, en, snap, k + 1)
<1> DEFINE e == en[k + 1]
<1>1. k + 1 \in 1 .. n /\ (k + 1) - 1 = k /\ k + 1 \in DOMAIN en
  BY SMTT(30)
<1>2. e \in Loadable /\ e.name \in Names /\ Saved(snap)[e.name] = [value |-> e.value, expire |-> e.expire]
  BY <1>1, SMTT(30) DEF Loads
<1>3. g[k + 1] = load_on(s, g[k], e) /\ g[k] \in Stores
  BY <1>1 DEF LoadRun, Half
<1>4. g[k + 1] \in Stores /\ \A m \in Names : m # e.name \/ shard[m[2]] # s => g[k + 1][m] = g[k][m]
  BY <1>2, <1>3, LoadOne, SMTT(30)
<1>5. shard[e.name[2]] = s => g[k + 1][e.name] = Due(snap, e.name, now)
  <2> SUFFICES ASSUME shard[e.name[2]] = s PROVE g[k + 1][e.name] = Due(snap, e.name, now)
    OBVIOUS
  <2> DEFINE x == [value |-> e.value, expire |-> e.expire]
  <2>1. x \in Entries /\ x # Absent /\ x.expire = e.expire
    <3>1. e.value \in Strings /\ e.expire \in Deadlines
      BY <1>2 DEF Loadable
    <3> HIDE DEF e
    <3>2. x \in Entries
      BY <3>1 DEF Entries
    <3> QED
      BY <3>2, PersistenceAssumption
  <2>2. g[k][e.name] = Absent \/ g[k][e.name] = Due(snap, e.name, now)
    BY <1>2 DEF Half
  <2>3. CASE e.expire # None /\ e.expire <= now
    <3>1. Due(snap, e.name, now) = Absent
      BY <1>2, <2>1, <2>3 DEF Due
    <3>2. g[k + 1] = g[k]
      BY <1>3, <2>3 DEF load_on, load_entry
    <3> QED
      BY <2>2, <3>1, <3>2
  <2>4. CASE ~(e.expire # None /\ e.expire <= now)
    <3>1. Due(snap, e.name, now) = x
      BY <1>2, <2>1, <2>4 DEF Due
    <3> DEFINE w == IF e.expire = None /\ g[k][e.name] # Absent THEN g[k][e.name].expire ELSE e.expire
    <3>2. w = e.expire
      BY <2>1, <2>2, <3>1
    <3>3. g[k + 1] = [g[k] EXCEPT ![e.name] = [value |-> e.value, expire |-> w]]
      BY <1>3, <2>4 DEF load_on, load_entry
    <3> HIDE DEF w
    <3> QED
      BY <1>2, <1>3, <3>1, <3>2, <3>3 DEF Stores
  <2> QED
    BY <2>3, <2>4
<1>6. ASSUME NEW m \in Names, shard[m[2]] # s PROVE g[k + 1][m] = st[m]
  BY <1>4, <1>6 DEF Half
<1>7. ASSUME NEW m \in Names, shard[m[2]] = s
      PROVE  /\ g[k + 1][m] = Absent \/ g[k + 1][m] = Due(snap, m, now)
             /\ (\E j \in 1 .. k + 1 : en[j].name = m) => g[k + 1][m] = Due(snap, m, now)
  <2>1. CASE m = e.name
    BY <1>5, <1>7, <2>1
  <2>2. CASE m # e.name
    <3>1. g[k + 1][m] = g[k][m]
      BY <1>4, <2>2
    <3>2. \A j \in 1 .. k + 1 : en[j].name = m => j \in 1 .. k
      BY <2>2, SMTT(30)
    <3> QED
      BY <1>7, <3>1, <3>2 DEF Half
  <2> QED
    BY <2>1, <2>2
<1> HIDE DEF e
<1> QED
  BY <1>4, <1>6, <1>7 DEF Half

(* A shard that is empty and loads the entries of a snapshot has its       *)
(* strings, but for those that are due.                                    *)
LEMMA LoadsPart ==
  ASSUME NEW s, NEW st \in Stores, NEW en \in Seq(Loadable), NEW snap, SnapOK(snap), Loads(en, snap, Names),
         \A n \in Names : shard[n[2]] = s => st[n] = Absent
  PROVE  /\ LoadOn(s, st, en) \in Stores
         /\ \A n \in Names : LoadOn(s, st, en)[n] = IF shard[n[2]] = s THEN Due(snap, n, now) ELSE st[n]
<1> DEFINE n == Len(en)
<1>1. n \in Nat /\ DOMAIN en = 1 .. n /\ n = Len(en)
  BY SMTT(30)
<1> HIDE DEF n
<1>2. PICK g : LoadRun(g, s, st, en, n) /\ LoadOn(s, st, en) = g[n]
  BY <1>1, LoadRunExists, SMTT(30)
<1> DEFINE H(k) == Half(g, s, st, en, snap, k)
           P == {k \in Nat : k <= n => H(k)}
<1>3. H(0)
  <2>1. g[0] = st /\ 1 .. 0 = {}
    BY <1>2, SMTT(30) DEF LoadRun
  <2> QED
    BY <2>1 DEF Half
<1>4. ASSUME NEW k \in Nat, k + 1 <= n, H(k) PROVE H(k + 1)
  BY <1>1, <1>2, <1>4, HalfStep
<1> HIDE DEF H
<1>5. 0 \in P /\ \A k \in Nat : k \in P => k + 1 \in P
  BY <1>1, <1>3, <1>4, SMTT(30)
<1>6. n \in P
  <2> HIDE DEF P
  <2> QED
    BY <1>1, <1>5, NatSetInduction
<1>7. Half(g, s, st, en, snap, n)
  BY <1>6, SMTT(30) DEF H
<1>8. ASSUME NEW m \in Names, shard[m[2]] = s PROVE g[n][m] = Due(snap, m, now)
  <2>1. CASE Saved(snap)[m] = Absent
    <3>1. Due(snap, m, now) = Absent
      BY <2>1 DEF Due
    <3> QED
      BY <1>7, <1>8, <3>1 DEF Half
  <2>2. CASE Saved(snap)[m] # Absent
    <3>1. \E j \in 1 .. n : en[j].name = m
      BY <1>1, <2>2 DEF Loads
    <3> QED
      BY <1>7, <1>8, <3>1 DEF Half
  <2> QED
    BY <2>1, <2>2
<1> QED
  BY <1>2, <1>7, <1>8 DEF Half

(* Whatever is loaded, the store has the types of entries, and the other   *)
(* shards are left alone.                                                  *)
LEMMA LoadsOnly ==
  ASSUME NEW s, NEW st \in Stores, NEW en \in Seq(Loadable)
  PROVE  /\ LoadOn(s, st, en) \in Stores
         /\ \A n \in Names : shard[n[2]] # s => LoadOn(s, st, en)[n] = st[n]
<1> DEFINE n == Len(en)
<1>1. n \in Nat /\ DOMAIN en = 1 .. n /\ n = Len(en)
  BY SMTT(30)
<1> HIDE DEF n
<1>2. PICK g : LoadRun(g, s, st, en, n) /\ LoadOn(s, st, en) = g[n]
  BY <1>1, LoadRunExists, SMTT(30)
<1> DEFINE H(k) == g[k] \in Stores /\ \A m \in Names : shard[m[2]] # s => g[k][m] = st[m]
           P == {k \in Nat : k <= n => H(k)}
<1>3. H(0)
  BY <1>2 DEF LoadRun
<1>4. ASSUME NEW k \in Nat, k + 1 <= n, H(k) PROVE H(k + 1)
  <2>1. k + 1 \in 1 .. n /\ (k + 1) - 1 = k /\ en[k + 1] \in Loadable
    BY <1>1, <1>4, SMTT(30)
  <2>2. g[k + 1] = load_on(s, g[k], en[k + 1])
    BY <1>2, <2>1 DEF LoadRun
  <2> QED
    BY <1>4, <2>1, <2>2, LoadOne, SMTT(30)
<1> HIDE DEF H
<1>5. 0 \in P /\ \A k \in Nat : k \in P => k + 1 \in P
  BY <1>1, <1>3, <1>4, SMTT(30)
<1>6. n \in P
  <2> HIDE DEF P
  <2> QED
    BY <1>1, <1>5, NatSetInduction
<1>7. H(n)
  BY <1>6, SMTT(30)
<1> QED
  BY <1>2, <1>7 DEF H

-----------------------------------------------------------------------------
(* The first n tokens of a file are those of an image, and there are no others. *)
Holds(file, image, n) ==
  /\ DOMAIN file = 1 .. n
  /\ \A i \in 1 .. n : file[i] = image[i]

(* What makes DumpWhole inductive: the only save that writes has the       *)
(* temporary file open, and has written its image up to its offset; and    *)
(* the temporary file is not dump.rdb.                                     *)
SaverInv(b) ==
  /\ saver[b] = [pc |-> saver[b].pc, snap |-> saver[b].snap, image |-> saver[b].image,
                 file |-> saver[b].file, off |-> saver[b].off]
  /\ saver[b].file = tmp /\ tmp # None
  /\ saver[b].image = Image(saver[b].snap)
  /\ saver[b].off \in Nat
  /\ Holds(data[tmp], saver[b].image, saver[b].off)

FileInv ==
  /\ dump \in Inodes \cup {None} /\ tmp \in Inodes \cup {None}
  /\ data = [i \in Inodes |-> data[i]]
  /\ saver = [b \in Savers |-> saver[b]]
  /\ overlap \in BOOLEAN
  /\ dump # None => dump # tmp
  /\ ~overlap =>
       /\ \A b, c \in Savers : Writing(b) /\ Writing(c) => b = c
       /\ \A b \in Savers : Writing(b) => SaverInv(b)
       /\ dump # None => Holds(data[dump], Image(saved), Len(Image(saved)))

(* Initially there is no file and no save. *)
LEMMA InitFileInv == Init => FileInv
<1> SUFFICES ASSUME Init PROVE FileInv
  OBVIOUS
<1>1. \A b \in Savers : ~Writing(b)
  BY DEF Init, Idle, Writing
<1>2. dump = None /\ tmp = None /\ overlap \in BOOLEAN
  BY DEF Init
<1>3. data = [i \in Inodes |-> data[i]] /\ saver = [b \in Savers |-> saver[b]]
  BY DEF Init
<1> QED
  BY <1>1, <1>2, <1>3 DEF FileInv

(* A step that leaves the files and the writing saves alone. *)
LEMMA Untouched ==
  ASSUME FileInv, UNCHANGED <<disk, saved, overlap>>,
         saver' = [b \in Savers |-> saver'[b]],
         \A b \in Savers : saver'[b].pc = "write" => saver'[b] = saver[b]
  PROVE  FileInv'
<1>1. dump' = dump /\ tmp' = tmp /\ data' = data /\ saved' = saved /\ overlap' = overlap
  BY DEF disk
<1>2. \A b \in Savers : Writing(b)' => Writing(b) /\ saver'[b] = saver[b]
  BY DEF Writing
<1>3. ASSUME ~overlap, NEW b \in Savers, Writing(b)'
      PROVE  SaverInv(b)'
  <2>1. SaverInv(b) /\ saver'[b] = saver[b]
    BY <1>2, <1>3 DEF FileInv
  <2> QED
    BY <1>1, <2>1 DEF SaverInv
<1>4. dump' # None /\ ~overlap' => Holds(data[dump], Image(saved), Len(Image(saved)))'
  BY <1>1, SMTT(30) DEF FileInv
<1> QED
  BY <1>1, <1>2, <1>3, <1>4, SMTT(30) DEF FileInv

(* A save that opens the temporary file truncates no other save but one it overlaps. *)
LEMMA CreatePreserves ==
  ASSUME FileInv, NEW b \in Savers, save_rdb_create(b)
  PROVE  FileInv'
<1>1. PICK i \in IF tmp # None THEN {tmp} ELSE Inodes \ Used :
           /\ tmp' = i
           /\ data' = [data EXCEPT ![i] = <<>>]
           /\ saver' = [saver EXCEPT ![b] = [pc |-> "write", snap |-> saver[b].snap,
                                             image |-> Image(saver[b].snap), file |-> i, off |-> 0]]
  BY DEF save_rdb_create
<1>2. i \in Inodes /\ i # None /\ (dump # None => i # dump)
  BY PersistenceAssumption DEF FileInv, Used
<1>3. dump' = dump /\ saved' = saved /\ overlap' = (overlap \/ \E c \in Savers \ {b} : Writing(c))
  BY DEF save_rdb_create
<1>4. saver' = [c \in Savers |-> saver'[c]] /\ data' = [j \in Inodes |-> data'[j]]
  BY <1>1 DEF FileInv
<1>5. ASSUME ~overlap'
      PROVE  /\ \A c, d \in Savers : Writing(c)' /\ Writing(d)' => c = d
             /\ \A c \in Savers : Writing(c)' => SaverInv(c)'
             /\ dump' # None => Holds(data[dump], Image(saved), Len(Image(saved)))'
  <2>1. ~overlap /\ \A c \in Savers \ {b} : ~Writing(c)
    BY <1>3, <1>5 DEF FileInv
  <2>2. \A c \in Savers \ {b} : ~Writing(c)'
    BY <1>1, <2>1 DEF FileInv, Writing
  <2>3. saver'[b] = [pc |-> "write", snap |-> saver[b].snap, image |-> Image(saver[b].snap),
                     file |-> i, off |-> 0]
    BY <1>1 DEF FileInv
  <2>4. data'[i] = <<>>
    BY <1>1, <1>2 DEF FileInv
  <2>5. SaverInv(b)'
    BY <1>1, <1>2, <2>3, <2>4, SMTT(30) DEF SaverInv, Holds
  <2>6. dump # None => data'[dump] = data[dump]
    BY <1>1, <1>2 DEF FileInv
  <2> QED
    BY <1>3, <2>1, <2>2, <2>5, <2>6 DEF FileInv, Holds
<1> QED
  BY <1>1, <1>2, <1>3, <1>4, <1>5 DEF FileInv

(* A write continues the image at the offset of the save. *)
LEMMA WritePreserves ==
  ASSUME FileInv, NEW b \in Savers, save_rdb_write(b)
  PROVE  FileInv'
<1> DEFINE x == saver[b]
<1>1. /\ Writing(b)
      /\ x.off < Len(x.image)
      /\ data' = [data EXCEPT ![x.file] = WriteAt(data[x.file], x.off, x.image[x.off + 1])]
      /\ saver' = [saver EXCEPT ![b].off = x.off + 1]
      /\ dump' = dump /\ tmp' = tmp /\ saved' = saved /\ overlap' = overlap
  BY DEF save_rdb_write, history
<1>2. saver' = [c \in Savers |-> saver'[c]] /\ data' = [j \in Inodes |-> data'[j]]
  BY <1>1 DEF FileInv
<1>3. ASSUME ~overlap
      PROVE  /\ \A c, d \in Savers : Writing(c)' /\ Writing(d)' => c = d
             /\ \A c \in Savers : Writing(c)' => SaverInv(c)'
             /\ dump' # None => Holds(data[dump], Image(saved), Len(Image(saved)))'
  <2>1. \A c \in Savers : Writing(c)' => c = b
    <3>1. \A c \in Savers \ {b} : saver'[c] = saver[c]
      BY <1>1 DEF FileInv
    <3> QED
      BY <1>1, <1>3, <3>1 DEF FileInv, Writing
  <2>2. SaverInv(b) /\ x.file = tmp /\ tmp \in Inodes
    BY <1>1, <1>3 DEF FileInv, SaverInv
  <2>3. /\ saver'[b].file = x.file /\ saver'[b].image = x.image /\ saver'[b].snap = x.snap
        /\ saver'[b].off = x.off + 1 /\ saver'[b].pc = x.pc
        /\ saver'[b] = [pc |-> x.pc, snap |-> x.snap, image |-> x.image,
                        file |-> x.file, off |-> x.off + 1]
    BY <1>1, <2>2 DEF FileInv, SaverInv
  <2>4. data'[tmp] = WriteAt(data[tmp], x.off, x.image[x.off + 1])
    BY <1>1, <2>2 DEF FileInv
  <2>5. Holds(data'[tmp], x.image, x.off + 1)
    BY <2>2, <2>4, SMTT(30) DEF SaverInv, Holds, WriteAt
  <2>6. SaverInv(b)'
    BY <1>1, <2>2, <2>3, <2>5, SMTT(30) DEF SaverInv
  <2>7. dump # None => data'[dump] = data[dump]
    BY <1>1, <2>2 DEF FileInv
  <2> QED
    BY <1>1, <1>3, <2>1, <2>6, <2>7 DEF FileInv, Holds
<1> QED
  BY <1>1, <1>2, <1>3 DEF FileInv

(* The file that is renamed holds the whole image of its save. *)
LEMMA RenamePreserves ==
  ASSUME FileInv, NEW b \in Savers, save_rdb_rename(b)
  PROVE  FileInv'
<1>1. /\ Writing(b) /\ saver[b].off = Len(saver[b].image)
      /\ saver' = [saver EXCEPT ![b] = Idle]
      /\ data' = data /\ overlap' = overlap
  BY DEF save_rdb_rename, Ends
<1>2. saver' = [c \in Savers |-> saver'[c]] /\ ~Writing(b)'
  BY <1>1 DEF FileInv, Idle, Writing
<1>3. \A c \in Savers \ {b} : saver'[c] = saver[c]
  BY <1>1 DEF FileInv
<1>4. CASE tmp # None /\ dump' = tmp /\ tmp' = None /\ saved' = saver[b].snap
  <2>1. ASSUME ~overlap
        PROVE  /\ \A c \in Savers : ~Writing(c)'
               /\ Holds(data[dump], Image(saved), Len(Image(saved)))'
    BY <1>1, <1>2, <1>3, <1>4, <2>1, SMTT(30) DEF FileInv, SaverInv, Writing, Holds
  <2> QED
    BY <1>1, <1>2, <1>4, <2>1 DEF FileInv
<1>5. CASE tmp = None /\ UNCHANGED <<dump, tmp, saved>>
  BY <1>1, <1>2, <1>3, <1>5 DEF FileInv, SaverInv, Writing
<1> QED
  BY <1>4, <1>5 DEF save_rdb_rename

(* FileInv is inductive. *)
LEMMA NextFileInv ==
  ASSUME FileInv, [Next]_vars
  PROVE  FileInv'
<1> USE DEF history, disk
<1>1. CASE Tick
  BY <1>1, Untouched DEF Tick, FileInv
<1>2. CASE Crash
  BY <1>2, Untouched DEF Crash, Idle, FileInv
<1>3. CASE Boot
  BY <1>3, Untouched DEF Boot, FileInv
<1>4. ASSUME NEW s \in Shards, Command(s) \/ Panic(s) \/ load_entries(s)
      PROVE  FileInv'
  BY <1>4, Untouched DEF Command, Panic, load_entries, FileInv
<1>5. ASSUME NEW b \in Savers, handle_save(b)
      PROVE  FileInv'
  BY <1>5, Untouched DEF handle_save, FileInv
<1>6. ASSUME NEW b \in Savers, NEW s \in Shards, collect_snapshot(b, s)
      PROVE  FileInv'
  BY <1>6, Untouched, SMTT(30) DEF collect_snapshot, Collecting, FileInv
<1>7. ASSUME NEW b \in Savers, NEW s \in Shards, collect_fails(b, s)
      PROVE  FileInv'
  BY <1>7, Untouched DEF collect_fails, Ends, Idle, FileInv
<1>8. ASSUME NEW b \in Savers, save_rdb_fails(b)
      PROVE  FileInv'
  BY <1>8, Untouched DEF save_rdb_fails, Ends, Idle, FileInv
<1>9. CASE UNCHANGED vars
  BY <1>9, Untouched DEF vars, FileInv
<1> QED
  BY <1>1, <1>2, <1>3, <1>4, <1>5, <1>6, <1>7, <1>8, <1>9,
     CreatePreserves, WritePreserves, RenamePreserves DEF Next, SaveStep

(* Without overlapping saves, dump.rdb is the whole of the last successful *)
(* save at every moment: save_rdb replaces it atomically (snapshot.rs:66). *)
THEOREM DumpAlwaysWhole == Spec => []DumpWhole
<1>1. FileInv => DumpWhole
  BY DEF FileInv, DumpWhole, Holds
<1> QED
  BY <1>1, InitFileInv, NextFileInv, PTL DEF Spec

-----------------------------------------------------------------------------
(* What one shard contributes to a snapshot. *)
PartOK(p, s) == p \in [OnShard(s) -> Entries \cup {Absent}]

(* A save that collects has nothing yet or the part of each shard; with    *)
(* all of them the snapshot is one of those taken.                         *)
CollectorOK(b) ==
  /\ saver[b] = [pc |-> "collect", snap |-> saver[b].snap]
  /\ saver[b].snap = [s \in Shards |-> saver[b].snap[s]]
  /\ \A s \in Shards : saver[b].snap[s] # None => PartOK(saver[b].snap[s], s)
  /\ Collected(b) => saver[b].snap \in taken

(* A save that writes has a snapshot that was taken, and an open file. *)
WriterOK(b) ==
  /\ saver[b] = [pc |-> "write", snap |-> saver[b].snap, image |-> saver[b].image,
                 file |-> saver[b].file, off |-> saver[b].off]
  /\ saver[b].file \in Inodes /\ saver[b].off \in Nat
  /\ saver[b].snap \in taken /\ saver[b].image = Image(saver[b].snap)

(* What makes LoadsASnapshot inductive: the files hold tokens of snapshots *)
(* that were taken, in any mixture.                                        *)
SavesInv ==
  /\ \A snap \in taken : SnapOK(snap)
  /\ \A i \in Inodes : FileOK(data[i], taken)
  /\ \A b \in Savers : (Collecting(b) => CollectorOK(b)) /\ (Writing(b) => WriterOK(b))
  /\ dump # None => saved \in taken

(* The types of what is loaded. *)
StoreInv ==
  /\ now \in Nat
  /\ store \in Stores
  /\ rdb \in Seq(Loadable)

LoadInv == FileInv /\ SavesInv /\ StoreInv

(* A file that was just created. *)
LEMMA EmptyFile == \A S : FileOK(<<>>, S)
<1>1. DOMAIN <<>> = 1 .. 0 /\ 0 \in Nat
  BY SMTT(30)
<1> QED
  BY <1>1, SMTT(30) DEF FileOK

(* Initially the files are empty and nothing is loaded or saved. *)
LEMMA InitLoadInv == Init => LoadInv
<1> SUFFICES ASSUME Init PROVE LoadInv
  OBVIOUS
<1>1. FileInv
  BY InitFileInv
<1>2. SavesInv
  <2>1. \A b \in Savers : ~Writing(b) /\ ~Collecting(b)
    BY DEF Init, Idle, Writing, Collecting
  <2>2. \A i \in Inodes : FileOK(data[i], taken)
    BY EmptyFile DEF Init
  <2>3. taken = {} /\ dump = None
    BY DEF Init
  <2> QED
    BY <2>1, <2>2, <2>3 DEF SavesInv
<1>3. StoreInv
  BY SMTT(30) DEF Init, StoreInv, Stores, Empty
<1> QED
  BY <1>1, <1>2, <1>3 DEF LoadInv

(* What is written of more snapshots. *)
LEMMA MoreTaken ==
  ASSUME NEW S, NEW T, S \subseteq T, NEW file, FileOK(file, S)
  PROVE  FileOK(file, T)
<1>1. FileTokens(S) \subseteq FileTokens(T)
  BY DEF FileTokens
<1> QED
  BY <1>1 DEF FileOK

(* A step that leaves a save alone, whatever snapshots are taken. *)
LEMMA OtherSaver ==
  ASSUME SavesInv, NEW c \in Savers, saver'[c] = saver[c], taken \subseteq taken'
  PROVE  (Collecting(c)' => CollectorOK(c)') /\ (Writing(c)' => WriterOK(c)')
<1>1. ASSUME Collecting(c)' PROVE CollectorOK(c)'
  <2>1. CollectorOK(c)
    BY <1>1 DEF Collecting, SavesInv
  <2> QED
    BY <2>1 DEF CollectorOK, Collected
<1>2. ASSUME Writing(c)' PROVE WriterOK(c)'
  <2>1. WriterOK(c)
    BY <1>2 DEF Writing, SavesInv
  <2> QED
    BY <2>1 DEF WriterOK
<1> QED
  BY <1>1, <1>2

(* A step that leaves the files, and each save alone or ends it. *)
LEMMA SavesUntouched ==
  ASSUME SavesInv, UNCHANGED <<taken, data, dump, saved>>,
         \A b \in Savers : saver'[b] = saver[b] \/ saver'[b].pc \notin {"collect", "write"}
  PROVE  SavesInv'
<1>1. ASSUME NEW b \in Savers
      PROVE  (Collecting(b)' => CollectorOK(b)') /\ (Writing(b)' => WriterOK(b)')
  <2>1. CASE saver'[b] = saver[b]
    BY <2>1, OtherSaver
  <2>2. CASE saver'[b].pc \notin {"collect", "write"}
    BY <2>2 DEF Collecting, Writing
  <2> QED
    BY <2>1, <2>2
<1> QED
  BY <1>1 DEF SavesInv

(* A new save has collected nothing. *)
LEMMA HandleSave ==
  ASSUME SavesInv, FileInv, NEW b \in Savers, handle_save(b)
  PROVE  SavesInv'
<1> DEFINE none == [s \in Shards |-> None]
<1>1. /\ taken' = taken /\ data' = data /\ dump' = dump /\ saved' = saved
      /\ saver'[b] = [pc |-> "collect", snap |-> none]
      /\ \A c \in Savers \ {b} : saver'[c] = saver[c]
  BY DEF handle_save, FileInv, disk, history
<1>2. CollectorOK(b)' /\ ~Writing(b)'
  <2>1. 0 \in Shards
    BY PersistenceAssumption, SMTT(30) DEF Shards
  <2>2. ~Collected(b)'
    BY <1>1, <2>1, SMTT(30) DEF Collected
  <2> QED
    BY <1>1, <2>2, SMTT(30) DEF CollectorOK, Writing
<1>3. ASSUME NEW c \in Savers \ {b}
      PROVE  (Collecting(c)' => CollectorOK(c)') /\ (Writing(c)' => WriterOK(c)')
  BY <1>1, <1>3, OtherSaver
<1> QED
  BY <1>1, <1>2, <1>3 DEF SavesInv

(* A snapshot that has the parts of all shards. *)
LEMMA CompleteSnap ==
  ASSUME NEW snap, snap = [s \in Shards |-> snap[s]], \A s \in Shards : PartOK(snap[s], s)
  PROVE  SnapOK(snap)
<1>1. snap \in Snapshots
  BY DEF Snapshots, PartOK
<1>2. ASSUME NEW n \in Names PROVE snap[shard[n[2]]][n] \in Entries \cup {Absent}
  <2>1. shard[n[2]] \in Shards /\ n \in OnShard(shard[n[2]])
    BY PersistenceAssumption DEF OnShard, Names
  <2> QED
    BY <2>1 DEF PartOK
<1> QED
  BY <1>1, <1>2 DEF SnapOK

(* A part that is collected is one of the store; the last one completes a  *)
(* snapshot.                                                               *)
LEMMA CollectSnapshot ==
  ASSUME SavesInv, FileInv, StoreInv, NEW b \in Savers, NEW s \in Shards, collect_snapshot(b, s)
  PROVE  SavesInv'
<1> DEFINE old == saver[b].snap
           new == saver'[b].snap
<1>1. /\ data' = data /\ dump' = dump /\ saved' = saved /\ Collecting(b)
      /\ \A c \in Savers \ {b} : saver'[c] = saver[c]
  BY DEF collect_snapshot, FileInv, disk
<1>2. CollectorOK(b)
  BY <1>1 DEF SavesInv
<1>3. saver'[b] = [pc |-> "collect", snap |-> [old EXCEPT ![s] = Part(store, s)]]
  BY <1>2, SMTT(30) DEF collect_snapshot, FileInv, CollectorOK
<1>4. PartOK(Part(store, s), s)
  BY DEF Part, PartOK, StoreInv, Stores, OnShard
<1>5. /\ saver'[b] = [pc |-> "collect", snap |-> new]
      /\ new = [t \in Shards |-> new[t]]
      /\ \A t \in Shards : new[t] # None => PartOK(new[t], t)
  <2>1. new = [old EXCEPT ![s] = Part(store, s)]
    BY <1>3, SMTT(30)
  <2>2. old = [t \in Shards |-> old[t]] /\ \A t \in Shards : old[t] # None => PartOK(old[t], t)
    BY <1>2 DEF CollectorOK
  <2>3. saver'[b] = [pc |-> "collect", snap |-> new]
    BY <1>3, <2>1
  <2> HIDE DEF old, new
  <2> QED
    BY <1>4, <2>1, <2>2, <2>3
<1>6. taken' = IF \A t \in Shards : new[t] # None THEN taken \cup {new} ELSE taken
  BY DEF collect_snapshot
<1> HIDE DEF old, new
<1>7. taken \subseteq taken' /\ \A snap \in taken' : SnapOK(snap)
  BY <1>5, <1>6, CompleteSnap DEF SavesInv
<1>8. CollectorOK(b)' /\ ~Writing(b)'
  <2>1. new = [t \in Shards |-> new[t]] /\ \A t \in Shards : new[t] # None => PartOK(new[t], t)
    BY <1>5
  <2>2. (\A t \in Shards : new[t] # None) => new \in taken'
    BY <1>6
  <2>3. saver'[b] = [pc |-> "collect", snap |-> new] /\ saver'[b].snap = new
    BY <1>5 DEF new
  <2>4. CollectorOK(b)'
    BY <2>1, <2>2, <2>3 DEF CollectorOK, Collected
  <2>5. ~Writing(b)'
    BY <2>3, SMTT(30) DEF Writing
  <2> QED
    BY <2>4, <2>5
<1>9. ASSUME NEW c \in Savers \ {b}
      PROVE  (Collecting(c)' => CollectorOK(c)') /\ (Writing(c)' => WriterOK(c)')
  BY <1>1, <1>7, <1>9, OtherSaver
<1>10. \A i \in Inodes : FileOK(data'[i], taken')
  BY <1>1, <1>7, MoreTaken DEF SavesInv
<1> QED
  BY <1>1, <1>7, <1>8, <1>9, <1>10 DEF SavesInv

(* The file that is opened becomes empty; what will be written to it was   *)
(* taken.                                                                  *)
LEMMA CreateFile ==
  ASSUME SavesInv, FileInv, NEW b \in Savers, save_rdb_create(b)
  PROVE  SavesInv'
<1>1. PICK i \in IF tmp # None THEN {tmp} ELSE Inodes \ Used :
           /\ data' = [data EXCEPT ![i] = <<>>]
           /\ saver' = [saver EXCEPT ![b] = [pc |-> "write", snap |-> saver[b].snap,
                                             image |-> Image(saver[b].snap), file |-> i, off |-> 0]]
  BY DEF save_rdb_create
<1>2. i \in Inodes
  BY DEF FileInv
<1>3. /\ taken' = taken /\ dump' = dump /\ saved' = saved /\ Collecting(b) /\ Collected(b)
      /\ \A c \in Savers \ {b} : saver'[c] = saver[c]
  BY <1>1 DEF save_rdb_create, FileInv
<1>4. saver'[b] = [pc |-> "write", snap |-> saver[b].snap, image |-> Image(saver[b].snap), file |-> i, off |-> 0]
  BY <1>1 DEF FileInv
<1>5. saver[b].snap \in taken
  BY <1>3 DEF SavesInv, CollectorOK
<1>6. WriterOK(b)' /\ ~Collecting(b)'
  BY <1>2, <1>3, <1>4, <1>5, SMTT(30) DEF WriterOK, Collecting
<1>7. ASSUME NEW c \in Savers \ {b}
      PROVE  (Collecting(c)' => CollectorOK(c)') /\ (Writing(c)' => WriterOK(c)')
  BY <1>3, <1>7, OtherSaver
<1>8. \A j \in Inodes : FileOK(data'[j], taken')
  BY <1>1, <1>3, EmptyFile DEF SavesInv, FileInv
<1> QED
  BY <1>3, <1>6, <1>7, <1>8 DEF SavesInv

(* The tokens of an image. *)
LEMMA ImageType ==
  ASSUME NEW S, NEW snap \in S, SnapOK(snap)
  PROVE  /\ Image(snap) \in Seq(FileTokens(S))
         /\ DOMAIN Image(snap) = 1 .. Len(Covered(snap)) + 1 /\ Len(Covered(snap)) \in Nat
<1>1. Covered(snap) \in Seq(Tokens)
  BY CoveredType
<1>2. Tokens \subseteq FileTokens(S) /\ Crc(snap) \in FileTokens(S)
  BY DEF FileTokens
<1>3. Covered(snap) \in Seq(FileTokens(S))
  BY <1>1, <1>2, SeqOfMore
<1> QED
  BY <1>2, <1>3, ImageIs, SMTT(30)

(* A write leaves a file that may be read. *)
LEMMA WriteAtOK ==
  ASSUME NEW S, NEW file, FileOK(file, S), NEW off \in Nat, NEW t \in FileTokens(S)
  PROVE  FileOK(WriteAt(file, off, t), S)
<1>1. PICK n \in Nat : DOMAIN file = 1 .. n /\ \A i \in 1 .. n : file[i] \in FileTokens(S)
  BY DEF FileOK
<1> DEFINE m == IF n > off THEN n ELSE off + 1
           w == WriteAt(file, off, t)
<1>2. m \in Nat /\ DOMAIN w = 1 .. m
  BY <1>1, SMTT(30) DEF WriteAt
<1>3. [op |-> "hole"] \in FileTokens(S)
  BY DEF FileTokens
<1>4. \A i \in DOMAIN w : w[i] \in FileTokens(S)
  BY <1>1, <1>3 DEF WriteAt
<1> HIDE DEF m, w
<1> QED
  BY <1>2, <1>4 DEF FileOK, w

(* A save writes a token of its own image, wherever its file is by now. *)
LEMMA WriteToken ==
  ASSUME SavesInv, FileInv, NEW b \in Savers, save_rdb_write(b)
  PROVE  SavesInv'
<1> DEFINE x == saver[b]
           t == x.image[x.off + 1]
<1>1. /\ taken' = taken /\ dump' = dump /\ saved' = saved /\ Writing(b)
      /\ x.off < Len(x.image)
      /\ data' = [data EXCEPT ![x.file] = WriteAt(data[x.file], x.off, t)]
      /\ \A c \in Savers \ {b} : saver'[c] = saver[c]
  BY DEF save_rdb_write, FileInv, history
<1>2. WriterOK(b)
  BY <1>1 DEF SavesInv
<1>3. saver'[b] = [pc |-> "write", snap |-> x.snap, image |-> x.image, file |-> x.file, off |-> x.off + 1]
  BY <1>2, SMTT(30) DEF save_rdb_write, FileInv, WriterOK
<1>4. WriterOK(b)' /\ ~Collecting(b)'
  BY <1>1, <1>2, <1>3, SMTT(30) DEF WriterOK, Collecting
<1>5. ASSUME NEW c \in Savers \ {b}
      PROVE  (Collecting(c)' => CollectorOK(c)') /\ (Writing(c)' => WriterOK(c)')
  BY <1>1, <1>5, OtherSaver
<1>6. t \in FileTokens(taken)
  <2>1. x.image \in Seq(FileTokens(taken)) /\ x.off \in Nat
    BY <1>2, ImageType DEF WriterOK, SavesInv
  <2> QED
    BY <1>1, <2>1, SMTT(30)
<1>7. x.file \in Inodes /\ x.off \in Nat
  BY <1>2 DEF WriterOK
<1> HIDE DEF x, t
<1>8. FileOK(WriteAt(data[x.file], x.off, t), taken)
  BY <1>6, <1>7, WriteAtOK DEF SavesInv
<1>9. \A j \in Inodes : FileOK(data'[j], taken')
  BY <1>1, <1>7, <1>8 DEF SavesInv, FileInv
<1> QED
  BY <1>1, <1>4, <1>5, <1>9 DEF SavesInv

(* A save that ends well leaves the name of a snapshot that was taken. *)
LEMMA Rename ==
  ASSUME SavesInv, FileInv, NEW b \in Savers, save_rdb_rename(b)
  PROVE  SavesInv'
<1>1. /\ taken' = taken /\ data' = data /\ Writing(b) /\ saver'[b] = Idle
      /\ \A c \in Savers \ {b} : saver'[c] = saver[c]
  BY DEF save_rdb_rename, Ends, FileInv
<1>2. dump' # None => saved' \in taken'
  BY <1>1 DEF save_rdb_rename, SavesInv, WriterOK
<1>3. ~Writing(b)' /\ ~Collecting(b)'
  BY <1>1, SMTT(30) DEF Idle, Writing, Collecting
<1>4. ASSUME NEW c \in Savers \ {b}
      PROVE  (Collecting(c)' => CollectorOK(c)') /\ (Writing(c)' => WriterOK(c)')
  BY <1>1, <1>4, OtherSaver
<1> QED
  BY <1>1, <1>2, <1>3, <1>4 DEF SavesInv

(* What main reads has the types of entries. *)
LEMMA BootReads ==
  ASSUME SavesInv, FileInv, Boot
  PROVE  rdb' \in Seq(Loadable)
<1> DEFINE file == IF dump = None THEN <<>> ELSE data[dump]
<1>1. FileOK(file, taken)
  <2>1. dump # None => FileOK(data[dump], taken)
    BY DEF SavesInv, FileInv
  <2> QED
    BY <2>1, EmptyFile
<1>2. AccOK(load_all(file))
  BY <1>1, FileType, LoadAllReads
<1> DEFINE en == load_all(file).entries
<1>3. rdb' = en \/ rdb' = <<>> \/ \E n \in 1 .. Len(en) : rdb' = SubSeq(en, 1, n)
  BY DEF Boot
<1> HIDE DEF file
<1>4. en \in Seq(Loadable)
  BY <1>2 DEF AccOK
<1> HIDE DEF en
<1>5. <<>> \in Seq(Loadable) /\ \A n \in 1 .. Len(en) : SubSeq(en, 1, n) \in Seq(Loadable)
  BY <1>4, SMTT(30)
<1> QED
  BY <1>3, <1>4, <1>5

(* LoadInv is inductive. *)
LEMMA NextLoadInv ==
  ASSUME LoadInv, [Next]_vars
  PROVE  LoadInv'
<1> USE DEF history, disk
<1>0. FileInv /\ SavesInv /\ StoreInv /\ FileInv'
  BY NextFileInv DEF LoadInv
<1>1. CASE Tick
  <2>1. SavesInv'
    BY <1>0, <1>1, SavesUntouched DEF Tick
  <2>2. StoreInv'
    BY <1>0, <1>1, SMTT(30) DEF Tick, StoreInv
  <2> QED
    BY <1>0, <2>1, <2>2 DEF LoadInv
<1>2. CASE Crash
  <2>1. SavesInv'
    BY <1>0, <1>2, SavesUntouched DEF Crash, Idle
  <2>2. StoreInv'
    BY <1>0, <1>2 DEF Crash, StoreInv
  <2> QED
    BY <1>0, <2>1, <2>2 DEF LoadInv
<1>3. CASE Boot
  <2>1. SavesInv'
    BY <1>0, <1>3, SavesUntouched DEF Boot
  <2>2. rdb' \in Seq(Loadable)
    BY <1>0, <1>3, BootReads
  <2>3. StoreInv'
    BY <1>0, <1>3, <2>2 DEF Boot, StoreInv, Stores, Empty
  <2> QED
    BY <1>0, <2>1, <2>3 DEF LoadInv
<1>4. ASSUME NEW s \in Shards, Command(s) PROVE LoadInv'
  <2>1. SavesInv'
    BY <1>0, <1>4, SavesUntouched DEF Command
  <2>2. StoreInv'
    <3>1. PICK c \in Commands : store' = [store EXCEPT ![c[1]] = c[2]]
      BY <1>4 DEF Command
    <3>2. c[1] \in Names /\ c[2] \in Entries \cup {Absent}
      BY PersistenceAssumption
    <3> QED
      BY <1>0, <1>4, <3>1, <3>2 DEF Command, StoreInv, Stores
  <2> QED
    BY <1>0, <2>1, <2>2 DEF LoadInv
<1>5. ASSUME NEW s \in Shards, Panic(s) PROVE LoadInv'
  <2>1. SavesInv'
    BY <1>0, <1>5, SavesUntouched DEF Panic
  <2>2. StoreInv'
    BY <1>0, <1>5 DEF Panic, StoreInv
  <2> QED
    BY <1>0, <2>1, <2>2 DEF LoadInv
<1>6. ASSUME NEW s \in Shards, load_entries(s) PROVE LoadInv'
  <2>1. SavesInv'
    BY <1>0, <1>6, SavesUntouched DEF load_entries
  <2>2. store' = store \/ store' = LoadOn(s, store, rdb)
    BY <1>6, LoadEntriesIs
  <2>3. StoreInv'
    <3>1. now \in Nat /\ store \in Stores /\ rdb \in Seq(Loadable)
      BY <1>0 DEF StoreInv
    <3>2. now' = now /\ rdb' = rdb
      BY <1>6 DEF load_entries
    <3>3. LoadOn(s, store, rdb) \in Stores
      BY <3>1, LoadsOnly
    <3> QED
      BY <2>2, <3>1, <3>2, <3>3 DEF StoreInv
  <2> QED
    BY <1>0, <2>1, <2>3 DEF LoadInv
<1>7. ASSUME NEW b \in Savers, handle_save(b) \/ SaveStep(b) \/ save_rdb_fails(b) PROVE LoadInv'
  <2>1. StoreInv'
    BY <1>0, <1>7 DEF handle_save, SaveStep, collect_snapshot, collect_fails, save_rdb_create, save_rdb_write,
                      save_rdb_rename, save_rdb_fails, StoreInv
  <2>2. CASE handle_save(b)
    BY <1>0, <2>1, <2>2, HandleSave DEF LoadInv
  <2>3. CASE save_rdb_create(b)
    BY <1>0, <2>1, <2>3, CreateFile DEF LoadInv
  <2>4. CASE save_rdb_write(b)
    BY <1>0, <2>1, <2>4, WriteToken DEF LoadInv
  <2>5. CASE save_rdb_rename(b)
    BY <1>0, <2>1, <2>5, Rename DEF LoadInv
  <2>6. ASSUME NEW s \in Shards, collect_snapshot(b, s) PROVE LoadInv'
    BY <1>0, <2>1, <2>6, CollectSnapshot DEF LoadInv
  <2>7. ASSUME Ends(b), UNCHANGED <<disk, history>> PROVE LoadInv'
    <3>1. SavesInv'
      BY <1>0, <2>7, SavesUntouched DEF Ends, Idle, FileInv
    <3> QED
      BY <1>0, <2>1, <3>1 DEF LoadInv
  <2>8. ASSUME NEW s \in Shards, collect_fails(b, s) PROVE LoadInv'
    BY <2>7, <2>8 DEF collect_fails
  <2>9. CASE save_rdb_fails(b)
    BY <2>7, <2>9 DEF save_rdb_fails
  <2> QED
    BY <1>7, <2>2, <2>3, <2>4, <2>5, <2>6, <2>8, <2>9 DEF SaveStep
<1>8. CASE UNCHANGED vars
  <2>1. SavesInv'
    BY <1>0, <1>8, SavesUntouched DEF vars
  <2>2. StoreInv'
    BY <1>0, <1>8 DEF vars, StoreInv
  <2> QED
    BY <1>0, <2>1, <2>2 DEF LoadInv
<1> QED
  BY <1>1, <1>2, <1>3, <1>4, <1>5, <1>6, <1>7, <1>8 DEF Next

(* Whatever overlapping saves write into each other's file, and whenever   *)
(* the process is killed, a file whose checksum load_rdb compares and      *)
(* accepts (rdb_load.rs:82) is read as one complete snapshot: the checksum *)
(* is that of all before it, so that what was read is the image of the     *)
(* save that wrote the checksum.                                           *)
THEOREM AcceptedIsSnapshot == Spec => []LoadsASnapshot
<1>1. LoadInv => LoadsASnapshot
  <2> DEFINE file == data[dump]
             r == load_all(file)
  <2> SUFFICES ASSUME LoadInv, dump # None, r.status = "end"
               PROVE  \E snap \in taken : /\ r = load_all(Image(snap))
                                          /\ Dangling(snap) \/ Loaded(r) = Saved(snap)
    BY DEF LoadsASnapshot
  <2>1. FileOK(file, taken) /\ \A snap \in taken : SnapOK(snap)
    BY DEF LoadInv, SavesInv, FileInv
  <2>2. r = ReadAll(Start, file)
    BY LoadAllReads
  <2> HIDE DEF file
  <2>3. PICK snap \in taken : r = ReadAll(Start, Image(snap))
    BY <2>1, <2>2, FileEnds, SMTT(30)
  <2>4. r = load_all(Image(snap))
    BY <2>3, LoadAllReads
  <2> HIDE DEF r
  <2>5. ASSUME ~Dangling(snap) PROVE Loaded(r) = Saved(snap)
    <3>1. PICK d \in DBs, en \in Seq(Loadable) :
               /\ ReadAll(Start, Image(snap)) = Acc("end", d, None, FALSE, Image(snap), en)
               /\ Loads(en, snap, Names)
      BY <2>1, <2>5, ImageRead
    <3>2. r.entries = en
      BY <2>3, <3>1, SMTT(30) DEF Acc
    <3> QED
      BY <3>1, <3>2, LoadedIs, SMTT(30)
  <2> QED
    BY <2>4, <2>5
<1> QED
  BY <1>1, InitLoadInv, NextLoadInv, PTL DEF Spec

-----------------------------------------------------------------------------
(* Shard s of the store st has what the snapshot held that was not due at t. *)
PartIs(st, s, snap, t) == Part(st, s) = [n \in OnShard(s) |-> Due(snap, n, t)]

(* Shard s has what the file held when it loaded it. *)
RecoveredIn(s, st, snap, running, clock) ==
  IF snap = None THEN Part(st, s) = Part(Empty, s)
  ELSE running /\ ~Dangling(snap) => \E t \in 0 .. clock : PartIs(st, s, snap, t)
Recovered(s) == RecoveredIn(s, store, origin, s \in alive, now)

(* What makes RecoveredState inductive: main read the snapshot whole, and a *)
(* shard is empty until it loads or runs a command.                        *)
RecInv ==
  up /\ ~overlap =>
    /\ origin = None => loading = {}
    /\ origin # None => SnapOK(origin)
    /\ origin # None /\ ~Dangling(origin) => Loads(rdb, origin, Names)
    /\ \A s \in loading \ touched : Part(store, s) = Part(Empty, s)
    /\ \A s \in Shards \ (loading \cup touched) : Recovered(s)

(* The process starts without a file. *)
LEMMA InitRecInv == Init => RecInv
BY DEF Init, RecInv, Recovered, RecoveredIn

(* A step that changes neither the entries nor what was read. *)
LEMMA StoreUntouched ==
  ASSUME RecInv, UNCHANGED <<store, loading, rdb, origin, touched>>, up' => up, overlap => overlap',
         alive' \subseteq alive, 0 .. now \subseteq 0 .. now'
  PROVE  RecInv'
<1> SUFFICES ASSUME up', ~overlap' PROVE RecInv'
  BY DEF RecInv
<1>1. up /\ ~overlap
  OBVIOUS
<1>2. ASSUME NEW s, Recovered(s) PROVE Recovered(s)'
  <2>1. RecoveredIn(s, store, origin, s \in alive, now)
    BY <1>2 DEF Recovered
  <2>2. RecoveredIn(s, store', origin', s \in alive', now')
    BY <2>1 DEF RecoveredIn
  <2> QED
    BY <2>2 DEF Recovered
<1>3. \A s : Part(store, s)' = Part(store, s)
  BY DEF Part
<1> QED
  BY <1>1, <1>2, <1>3 DEF RecInv

(* The part of a shard, name by name. *)
LEMMA SamePart ==
  ASSUME NEW f, NEW g, NEW s, \A n \in Names : shard[n[2]] = s => f[n] = g[n]
  PROVE  Part(f, s) = Part(g, s)
BY DEF Part, OnShard

(* Only the part of the shard matters. *)
LEMMA SameRecovered ==
  ASSUME NEW f, NEW g, NEW s, Part(f, s) = Part(g, s), NEW snap, NEW running, NEW t, RecoveredIn(s, f, snap, running, t)
  PROVE  RecoveredIn(s, g, snap, running, t)
BY DEF RecoveredIn, PartIs

(* A command touches its own shard only. *)
LEMMA CommandRec ==
  ASSUME LoadInv, RecInv, NEW s \in Shards, Command(s)
  PROVE  RecInv'
<1>1. PICK c \in Commands : shard[c[1][2]] = s /\ store' = [store EXCEPT ![c[1]] = c[2]]
  BY DEF Command
<1>2. /\ up' = up /\ overlap' = overlap /\ loading' = loading /\ rdb' = rdb /\ origin' = origin
      /\ alive' = alive /\ now' = now /\ touched' = touched \cup {s}
  BY DEF Command
<1>3. ASSUME NEW u, u # s PROVE Part(store, u)' = Part(store, u)
  <2>1. \A n \in Names : shard[n[2]] = u => store'[n] = store[n]
    BY <1>1, <1>3 DEF LoadInv, StoreInv, Stores
  <2>2. Part(store', u) = Part(store, u)
    BY <2>1, SamePart, SMTT(30)
  <2> QED
    BY <2>2 DEF Part
<1>4. ASSUME NEW u, u # s, Recovered(u) PROVE Recovered(u)'
  <2>1. Part(store', u) = Part(store, u)
    BY <1>3, <1>4 DEF Part
  <2>2. RecoveredIn(u, store', origin, u \in alive, now)
    BY <1>4, <2>1, SameRecovered DEF Recovered
  <2> QED
    BY <1>2, <2>2 DEF Recovered
<1>5. \A u : u \notin touched' => u # s /\ u \notin touched
  BY <1>2
<1> QED
  BY <1>2, <1>3, <1>4, <1>5 DEF RecInv

(* What main loads after saves that did not overlap. *)
LEMMA BootLoads ==
  ASSUME LoadInv, ~overlap, dump # None, ~Dangling(saved), Boot
  PROVE  Loads(rdb', saved, Names)
<1> DEFINE image == Image(saved)
           m == Len(Covered(saved)) + 1
           file == data[dump]
<1>1. SnapOK(saved) /\ saved \in taken
  BY DEF LoadInv, SavesInv
<1>2. m \in Nat /\ DOMAIN image = 1 .. m /\ Len(image) = m
  BY <1>1, ImageType, SMTT(30)
<1>3. DOMAIN file = 1 .. m /\ \A i \in 1 .. m : file[i] = image[i]
  BY <1>2 DEF LoadInv, FileInv, Holds
<1> HIDE DEF m
<1>4. ReadAll(Start, file) = ReadAll(Start, image)
  <2> HIDE DEF file, image
  <2> QED
    BY <1>2, <1>3, SameTokens, SMTT(30)
<1>5. PICK d \in DBs, en \in Seq(Loadable) :
           ReadAll(Start, image) = Acc("end", d, None, FALSE, image, en) /\ Loads(en, saved, Names)
  BY <1>1, ImageRead
<1> DEFINE r == load_all(file)
<1>6. r.status = "end" /\ ~r.garbled /\ r.entries = en
  <2>1. r = Acc("end", d, None, FALSE, image, en)
    BY <1>4, <1>5, LoadAllReads
  <2> HIDE DEF r, image
  <2> QED
    BY <2>1 DEF Acc
<1>7. rdb' = r.entries \/ r.status # "end" \/ r.garbled
  BY DEF Boot
<1> HIDE DEF r
<1> QED
  BY <1>5, <1>6, <1>7

(* After the start all shards are empty, and those without entries are     *)
(* done.                                                                   *)
LEMMA BootRec ==
  ASSUME LoadInv, Boot
  PROVE  RecInv'
<1> SUFFICES ASSUME ~overlap' PROVE RecInv'
  BY DEF RecInv
<1>1. /\ store' = Empty /\ alive' = Shards /\ touched' = {} /\ ~overlap /\ now' = now
      /\ loading' = {shard[rdb'[i].name[2]] : i \in DOMAIN rdb'}
      /\ origin' = IF dump = None THEN None ELSE saved
  BY DEF Boot
<1>2. \A s : Part(store, s)' = Part(Empty, s) /\ Part(Empty, s)' = Part(Empty, s)
  BY <1>1, SMTT(30) DEF Part, Empty
<1>3. CASE dump = None
  <2>1. load_all(<<>>).status = "reading" /\ ~load_all(<<>>).garbled
    <3>1. ReadAll(Start, <<>>) = Start
      BY ReadEmpty
    <3>2. load_all(<<>>) = Start
      BY <3>1, LoadAllReads
    <3> QED
      BY <3>2, SMTT(30) DEF Start, Acc
  <2>2. rdb' = <<>>
    BY <1>3, <2>1 DEF Boot
  <2>3. loading' = {}
    BY <1>1, <2>2, SMTT(30)
  <2> QED
    BY <1>1, <1>2, <1>3, <2>3 DEF RecInv, Recovered, RecoveredIn
<1>4. CASE dump # None
  <2>1. SnapOK(saved) /\ saved # None
    BY <1>4, PersistenceAssumption DEF LoadInv, SavesInv, SnapOK
  <2>2. origin' = saved
    BY <1>1, <1>4
  <2>3. ~Dangling(saved) => Loads(rdb', saved, Names)
    BY <1>1, <1>4, BootLoads
  <2>4. ASSUME NEW s \in Shards \ loading', ~Dangling(saved), NEW n \in OnShard(s)
        PROVE  Saved(saved)[n] = Absent
    <3>1. n \in Names /\ shard[n[2]] = s
      BY DEF OnShard
    <3>2. \A i \in DOMAIN rdb' : rdb'[i].name # n
      BY <1>1, <3>1
    <3> QED
      BY <2>3, <2>4, <3>1, <3>2 DEF Loads
  <2>5. ASSUME NEW s \in Shards \ loading' PROVE Recovered(s)'
    <3> SUFFICES ASSUME ~Dangling(saved)
                 PROVE  PartIs(Empty, s, saved, 0) /\ 0 \in 0 .. now
      <4>1. RecoveredIn(s, Empty, saved, s \in Shards, now) => Recovered(s)'
        BY <1>1, <2>2 DEF Recovered
      <4> QED
        BY <2>1, <4>1 DEF RecoveredIn
    <3>1. \A n \in OnShard(s) : Due(saved, n, 0) = Absent
      BY <2>4 DEF Due
    <3>2. Part(Empty, s) = [n \in OnShard(s) |-> Absent]
      BY DEF Part, Empty, OnShard
    <3>3. 0 \in 0 .. now
      BY SMTT(30) DEF LoadInv, StoreInv
    <3> QED
      BY <3>1, <3>2, <3>3 DEF PartIs
  <2>6. Dangling(origin)' = Dangling(saved) /\ Loads(rdb, origin, Names)' = Loads(rdb', saved, Names) /\ SnapOK(origin)' = SnapOK(saved)
    BY <2>2 DEF Dangling, Loads, Saved, SnapOK
  <2> QED
    BY <1>1, <1>2, <2>1, <2>2, <2>3, <2>5, <2>6 DEF RecInv
<1> QED
  BY <1>3, <1>4

(* A shard that loads gets its part of the snapshot. *)
LEMMA LoadRec ==
  ASSUME LoadInv, RecInv, NEW s \in Shards, load_entries(s)
  PROVE  RecInv'
<1> SUFFICES ASSUME up, ~overlap PROVE RecInv'
  BY DEF RecInv, load_entries, history
<1>1. /\ s \in loading /\ loading' = loading \ {s}
      /\ UNCHANGED <<up, now, alive, rdb, origin, touched, overlap>>
      /\ store' = IF s \in alive THEN LoadOn(s, store, rdb) ELSE store
  BY LoadEntriesIs DEF load_entries, history
<1>2. origin # None /\ SnapOK(origin)
  BY <1>1 DEF RecInv
<1>3. store \in Stores /\ rdb \in Seq(Loadable) /\ now \in Nat
  BY DEF LoadInv, StoreInv
<1>4. ASSUME NEW u, u # s PROVE Part(store, u)' = Part(store, u)
  <2>1. \A n \in Names : shard[n[2]] = u => store'[n] = store[n]
    BY <1>1, <1>3, <1>4, LoadsOnly, SMTT(30)
  <2>2. Part(store', u) = Part(store, u)
    BY <2>1, SamePart, SMTT(30)
  <2> QED
    BY <2>2 DEF Part
<1>5. ASSUME NEW u, u # s, Recovered(u) PROVE Recovered(u)'
  <2>1. Part(store', u) = Part(store, u)
    BY <1>4, <1>5 DEF Part
  <2>2. RecoveredIn(u, store', origin, u \in alive, now)
    BY <1>5, <2>1, SameRecovered DEF Recovered
  <2> QED
    BY <1>1, <2>2 DEF Recovered
<1>6. ASSUME s \notin touched PROVE Recovered(s)'
  <2> SUFFICES ASSUME s \in alive, ~Dangling(origin)
               PROVE  PartIs(store', s, origin, now) /\ now \in 0 .. now
    <3>1. RecoveredIn(s, store', origin, s \in alive, now) => Recovered(s)'
      BY <1>1 DEF Recovered
    <3> QED
      BY <1>2, <3>1 DEF RecoveredIn
  <2>1. Loads(rdb, origin, Names) /\ Part(store, s) = Part(Empty, s)
    BY <1>1, <1>2, <1>6 DEF RecInv
  <2>2. \A n \in Names : shard[n[2]] = s => store[n] = Absent
    <3> SUFFICES ASSUME NEW n \in Names, shard[n[2]] = s PROVE store[n] = Absent
      OBVIOUS
    <3>1. n \in OnShard(s)
      BY DEF OnShard
    <3>2. Part(store, s)[n] = store[n] /\ Part(Empty, s)[n] = Empty[n]
      BY <3>1 DEF Part
    <3> QED
      BY <2>1, <3>2 DEF Empty
  <2>3. \A n \in Names : shard[n[2]] = s => store'[n] = Due(origin, n, now)
    <3>1. \A n \in Names : LoadOn(s, store, rdb)[n] = IF shard[n[2]] = s THEN Due(origin, n, now) ELSE store[n]
      BY <1>2, <1>3, <2>1, <2>2, LoadsPart, SMTT(30)
    <3>2. store' = LoadOn(s, store, rdb)
      BY <1>1
    <3> QED
      BY <3>1, <3>2
  <2> QED
    BY <1>3, <2>3, SMTT(30) DEF PartIs, Part, OnShard
<1> QED
  BY <1>1, <1>2, <1>4, <1>5, <1>6 DEF RecInv

(* RecInv is inductive, given LoadInv. *)
LEMMA NextRecInv ==
  ASSUME LoadInv, RecInv, [Next]_vars
  PROVE  RecInv'
<1> USE DEF history, disk
<1>1. CASE Tick
  <2>1. 0 .. now \subseteq 0 .. now'
    BY <1>1, SMTT(30) DEF Tick, LoadInv, StoreInv
  <2> QED
    BY <1>1, <2>1, StoreUntouched DEF Tick
<1>2. CASE Crash
  BY <1>2, StoreUntouched DEF Crash
<1>3. CASE Boot
  BY <1>3, BootRec
<1>4. ASSUME NEW s \in Shards, Command(s) \/ Panic(s) \/ load_entries(s)
      PROVE  RecInv'
  <2>1. CASE Panic(s)
    BY <2>1, StoreUntouched DEF Panic
  <2> QED
    BY <1>4, <2>1, CommandRec, LoadRec
<1>5. ASSUME NEW b \in Savers, handle_save(b) \/ SaveStep(b) \/ save_rdb_fails(b)
      PROVE  RecInv'
  <2>1. UNCHANGED <<store, loading, rdb, origin, touched, up, alive, now>>
    BY <1>5 DEF handle_save, SaveStep, collect_snapshot, collect_fails, save_rdb_create, save_rdb_write,
                save_rdb_rename, save_rdb_fails
  <2>2. overlap => overlap'
    <3>1. CASE save_rdb_create(b)
      BY <3>1 DEF save_rdb_create
    <3>2. CASE handle_save(b) \/ save_rdb_write(b) \/ save_rdb_rename(b) \/ save_rdb_fails(b)
      BY <3>2 DEF handle_save, save_rdb_write, save_rdb_rename, save_rdb_fails
    <3>3. ASSUME NEW s \in Shards, collect_snapshot(b, s) \/ collect_fails(b, s) PROVE overlap' = overlap
      BY <3>3 DEF collect_snapshot, collect_fails
    <3> QED
      BY <1>5, <3>1, <3>2, <3>3 DEF SaveStep
  <2> QED
    BY <2>1, <2>2, StoreUntouched
<1>6. CASE UNCHANGED vars
  BY <1>6, StoreUntouched DEF vars
<1> QED
  BY <1>1, <1>2, <1>3, <1>4, <1>5, <1>6 DEF Next

(* Saving, crash, restart and load lose and invent nothing: a shard that   *)
(* has loaded and run no command yet holds the strings of the last         *)
(* successful save with their deadlines, but for those that were due       *)
(* (load_entries, shard_thread.rs:706).                                     *)
THEOREM RestartRecovers == Spec => []RecoveredState
<1>1. RecInv => RecoveredState
  BY DEF RecInv, RecoveredState, Recovered, RecoveredIn, PartIs, Due
<1> QED
  BY <1>1, InitLoadInv, NextLoadInv, InitRecInv, NextRecInv, PTL DEF Spec
=============================================================================
