-------------------------- MODULE ShardSetRefinement -------------------------
(***************************************************************************)
(* Commands whose keys are on one shard are linearizable: ShardSet         *)
(* implements LinearStore, for every number of shards, clients, requests   *)
(* and databases, every hash and every capacity of the channels.           *)
(***************************************************************************)
EXTENDS ShardSetProofs

(* The prover of the leaves that name none. *)
USE ZenonT(40)

IsSeq(q) == \E S : q \in Seq(S)

(* A connection lives on, and reads only when all it had read was answered. *)
OpenConn(x) ==
  /\ x.gone = FALSE
  /\ x.state \in {"new", "queued", "reading", "parsing", "waiting"}
  /\ x.state \in {"new", "queued", "reading"} => x.read_buf = <<>>
  /\ IsSeq(x.got) /\ IsSeq(x.write_buf)

(* The command of x runs on shard s only, which is not that of x. *)
Waits(x, s) ==
  /\ s # x.home /\ x.req.op # "SELECT" /\ Targets(x.req, x.home) = {s}
  /\ \A t \in Shards \ {s} : x.part[t] = NoPart
  /\ x.part[s] \in {Unsent, Sent} \/ x.part[s].state = "done"

LiveConn(x) == OpenConn(x) /\ (x.state = "waiting" => \E s \in Shards : Waits(x, s))

Pending(m, s) ==
  m = Task(m.conn) /\ conn[m.conn].state = "waiting" /\ conn[m.conn].part[s] = Sent

(* What a shard has in its channel is the only copy of a command that its  *)
(* connection waits for; connections are queued once.                      *)
CrossOnce ==
  \A s \in Shards : \A i \in DOMAIN crossq[s] :
    /\ Pending(crossq[s][i], s)
    /\ \A j \in DOMAIN crossq[s] : crossq[s][j].conn = crossq[s][i].conn => j = i

QueuedOnce ==
  \A s \in Shards : \A i \in DOMAIN connq[s] :
    /\ conn[connq[s][i]].state = "queued"
    /\ \A j \in DOMAIN connq[s] : connq[s][j] = connq[s][i] => j = i

(* Nothing is loaded and no thread dies. *)
Undisturbed ==
  boot = {} /\ alive = Shards /\ panics = 0 /\ \A s \in Shards : control[s] = <<>>

LinearInv ==
  Undisturbed /\ (\A c \in Conns : LiveConn(conn[c])) /\ CrossOnce /\ QueuedOnce

-----------------------------------------------------------------------------
(* Sequences of anything. *)
LEMMA SeqBoth ==
  ASSUME NEW p, NEW q, IsSeq(p), IsSeq(q)
  PROVE  \E S : p \in Seq(S) /\ q \in Seq(S)
<1>1. PICK S : p \in Seq(S)
  BY DEF IsSeq
<1>2. PICK T : q \in Seq(T)
  BY DEF IsSeq
<1>3. p \in Seq(S \cup T) /\ q \in Seq(S \cup T)
  BY <1>1, <1>2, SMTT(30)
<1> QED
  BY <1>3

LEMMA SeqOne == \A e : IsSeq(<<e>>)
<1> SUFFICES ASSUME NEW e PROVE IsSeq(<<e>>)
  OBVIOUS
<1>1. <<e>> \in Seq({e})
  BY SMTT(30)
<1> QED
  BY <1>1 DEF IsSeq

LEMMA SeqAppend ==
  ASSUME NEW p, NEW e, IsSeq(p)
  PROVE  IsSeq(Append(p, e)) /\ Append(p, e) = p \o <<e>>
<1>1. PICK S : p \in Seq(S)
  BY DEF IsSeq
<1>2. p \in Seq(S \cup {e}) /\ e \in S \cup {e}
  BY <1>1, SMTT(30)
<1> QED
  BY <1>2, SMTT(30) DEF IsSeq

LEMMA SeqEmpty ==
  ASSUME NEW p, IsSeq(p)
  PROVE  p \o <<>> = p /\ <<>> \o p = p
<1>1. PICK S : p \in Seq(S)
  BY DEF IsSeq
<1> QED
  BY <1>1, SMTT(30)

LEMMA SeqCat ==
  ASSUME NEW p, NEW q, IsSeq(p), IsSeq(q)
  PROVE  /\ IsSeq(p \o q)
         /\ p # <<>> => p \o q # <<>> /\ Head(p \o q) = Head(p) /\ Tail(p \o q) = Tail(p) \o q /\ IsSeq(Tail(p))
<1>1. PICK S : p \in Seq(S) /\ q \in Seq(S)
  BY SeqBoth
<1>2. IsSeq(p \o q)
  BY <1>1, SMTT(30) DEF IsSeq
<1>3. ASSUME p # <<>> PROVE p \o q # <<>> /\ Head(p \o q) = Head(p) /\ Tail(p \o q) = Tail(p) \o q /\ IsSeq(Tail(p))
  <2>1. Tail(p) \in Seq(S)
    BY <1>1, <1>3, SMTT(30)
  <2>2. p \o q # <<>> /\ Head(p \o q) = Head(p)
    BY <1>1, <1>3, SMTT(30)
  <2>3. Tail(p \o q) = Tail(p) \o q
    BY <1>1, <1>3, SMTT(30)
  <2> QED
    BY <2>1, <2>2, <2>3 DEF IsSeq
<1> QED
  BY <1>2, <1>3

LEMMA SeqAssoc ==
  ASSUME NEW p, NEW q, NEW r, IsSeq(p), IsSeq(q), IsSeq(r)
  PROVE  (p \o q) \o r = p \o (q \o r)
<1>1. PICK S : p \in Seq(S) /\ q \in Seq(S)
  BY SeqBoth
<1>2. PICK T : r \in Seq(T)
  BY DEF IsSeq
<1>3. p \in Seq(S \cup T) /\ q \in Seq(S \cup T) /\ r \in Seq(S \cup T)
  BY <1>1, <1>2, SMTT(30)
<1> QED
  BY <1>3, SMTT(30)

First(e, p) == <<e>> \o p

LEMMA FirstCat ==
  ASSUME NEW e, NEW p, NEW q, IsSeq(p), IsSeq(q)
  PROVE  First(e, p) \o q = First(e, p \o q)
<1> DEFINE w == <<e>>
<1>1. IsSeq(w)
  BY SeqOne
<1> HIDE DEF w
<1>2. (w \o p) \o q = w \o (p \o q)
  BY <1>1, SeqAssoc, SMTT(30)
<1> QED
  BY <1>2 DEF w, First

LEMMA FirstIs ==
  ASSUME NEW e, NEW p, IsSeq(p)
  PROVE  First(e, p) # <<>> /\ Head(First(e, p)) = e /\ Tail(First(e, p)) = p
<1> DEFINE w == <<e>>
<1>1. IsSeq(w) /\ w # <<>> /\ Head(w) = e /\ Tail(w) = <<>>
  BY SeqOne, SMTT(30)
<1> HIDE DEF w
<1>2. w \o p # <<>> /\ Head(w \o p) = Head(w) /\ Tail(w \o p) = Tail(w) \o p
  BY <1>1, SeqCat
<1>3. <<>> \o p = p
  BY SeqEmpty
<1>4. First(e, p) = w \o p
  BY DEF w, First
<1> QED
  BY <1>1, <1>2, <1>3, <1>4

LEMMA FirstOf ==
  ASSUME NEW p, IsSeq(p), p # <<>>
  PROVE  First(Head(p), Tail(p)) = p
<1>1. PICK S : p \in Seq(S)
  BY DEF IsSeq
<1> DEFINE h == <<Head(p)>>
           t == Tail(p)
<1>2. /\ t \in Seq(S) /\ Len(t) = Len(p) - 1 /\ \A i \in 1 .. Len(t) : t[i] = p[i + 1]
      /\ Len(p) \in Nat \ {0} /\ p[1] \in S
  BY <1>1, SMTT(30)
<1>3. h \in Seq(S) /\ Len(h) = 1 /\ h[1] = p[1]
  BY <1>1, <1>2, SMTT(30)
<1> HIDE DEF h, t
<1> DEFINE u == h \o t
<1>0. h \in Seq(S) /\ t \in Seq(S)
  BY <1>2, <1>3
<1>4. u \in Seq(S) /\ Len(u) = Len(h) + Len(t)
  BY <1>0, SMTT(30)
<1>5. \A i \in 1 .. Len(h) + Len(t) : u[i] = IF i <= Len(h) THEN h[i] ELSE t[i - Len(h)]
  BY <1>0, SMTT(30)
<1> HIDE DEF u
<1>6. Len(u) = Len(p)
  BY <1>2, <1>3, <1>4, SMTT(30)
<1>7. ASSUME NEW i \in 1 .. Len(p) PROVE u[i] = p[i]
  <2>1. i \in 1 .. Len(h) + Len(t)
    BY <1>2, <1>3, SMTT(30)
  <2>2. CASE i = 1
    BY <1>3, <1>5, <2>1, <2>2, SMTT(30)
  <2>3. CASE i # 1
    <3>1. i - 1 \in 1 .. Len(t) /\ (i - 1) + 1 = i /\ ~(i <= 1)
      BY <1>2, <2>3, SMTT(30)
    <3> QED
      BY <1>2, <1>3, <1>5, <2>1, <3>1
  <2> QED
    BY <2>2, <2>3
<1>8. u = p
  BY <1>1, <1>4, <1>6, <1>7, SMTT(30)
<1> QED
  BY <1>8 DEF First, h, t, u

-----------------------------------------------------------------------------
(* Commands on one shard. *)

(* Keys of one shard: exactly the requests that CROSSSLOT does not refuse  *)
(* run on one shard, which has all their keys.                             *)
LEMMA OneTarget ==
  ASSUME OneShardCommands, NEW r \in Requests, NEW home \in Shards, r.op # "SELECT"
  PROVE  /\ CoLocated(r) <=> ~CrossSlot(r, home)
         /\ CoLocated(r) => /\ 1 \in DOMAIN r.keys
                            /\ \E s \in Shards : /\ Targets(r, home) = {s}
                                                 /\ \A i \in DOMAIN r.keys : shard(r.keys[i]) = s
<1> DEFINE T == {shard(r.keys[i]) : i \in DOMAIN r.keys}
<1>0. r.op \in {"GET", "SET", "MGET", "MSET", "MSETNX", "RENAME"}
  BY DEF OneShardCommands
<1>1. Targets(r, home) = T
  BY <1>0 DEF Targets, Global, NoKeys
<1>2. r.keys \in Seq(Keys) /\ (r.op = "RENAME" => Len(r.keys) = 2)
  BY ShardSetAssumption
<1>5. ASSUME CoLocated(r)
      PROVE  /\ 1 \in DOMAIN r.keys
             /\ \E s \in Shards : Targets(r, home) = {s} /\ \A i \in DOMAIN r.keys : shard(r.keys[i]) = s
  <2>1. PICK s \in Shards : T = {s}
    BY <1>5 DEF CoLocated
  <2>2. PICK i \in DOMAIN r.keys : TRUE
    BY <2>1
  <2>3. 1 \in DOMAIN r.keys
    BY <1>2, <2>2, SMTT(30)
  <2>4. \A j \in DOMAIN r.keys : shard(r.keys[j]) \in T
    OBVIOUS
  <2> QED
    BY <1>1, <2>1, <2>3, <2>4
<1>6. ASSUME r.op \in SameShard PROVE CoLocated(r) <=> ~CrossSlot(r, home)
  <2>1. 1 \in DOMAIN r.keys
    BY <1>2, <1>6, SMTT(30) DEF OneShardCommands, SameShard
  <2>2. shard(r.keys[1]) \in T /\ shard(r.keys[1]) \in Shards
    BY <1>2, <2>1, ShardType, SMTT(30)
  <2> QED
    BY <1>1, <1>6, <2>2 DEF CrossSlot, CoLocated
<1>7. CASE r.op \notin SameShard
  BY <1>0, <1>5, <1>7 DEF CrossSlot, OneShardCommands, SameShard
<1> QED
  BY <1>5, <1>6, <1>7

(* Replies, by command. *)
LEMMA AnswerGet ==
  ASSUME NEW st, NEW r, NEW d, NEW s, r.op = "GET"
  PROVE  Answer(st, r, d, s) = [type |-> "bulk", value |-> st[d][r.keys[1]]]
BY DEF Answer

LEMMA AnswerMget ==
  ASSUME NEW st, NEW r, NEW d, NEW s, r.op = "MGET"
  PROVE  Answer(st, r, d, s) = [type |-> "array", array |-> [i \in Part(r, s) |-> st[d][r.keys[i]]]]
BY DEF Answer

LEMMA AnswerSet ==
  ASSUME NEW st, NEW r, NEW d, NEW s, r.op \in {"SET", "MSET"}
  PROVE  Answer(st, r, d, s) = Ok
BY DEF Answer

LEMMA AnswerMsetnx ==
  ASSUME NEW st, NEW r, NEW d, NEW s, r.op = "MSETNX"
  PROVE  Answer(st, r, d, s) = IntReply(IF \E i \in Part(r, s) : st[d][r.keys[i]] # Nil THEN 0 ELSE 1)
BY DEF Answer

LEMMA AnswerRename ==
  ASSUME NEW st, NEW r, NEW d, NEW s, r.op = "RENAME"
  PROVE  Answer(st, r, d, s) = IF st[d][r.keys[1]] = Nil THEN Err("no such key") ELSE Ok
<1>1. ASSUME st[d][r.keys[1]] = Nil PROVE Answer(st, r, d, s) = Err("no such key")
  BY <1>1 DEF Answer
<1>2. ASSUME st[d][r.keys[1]] # Nil PROVE Answer(st, r, d, s) = Ok
  BY <1>2 DEF Answer
<1> QED
  BY <1>1, <1>2

LEMMA MergeByOp ==
  ASSUME NEW r, NEW home, NEW part
  PROVE  /\ r.op = "MGET" => Merge(r, home, part) = MgetReply(r, part)
         /\ r.op = "MSET" => Merge(r, home, part) = Ok
         /\ r.op \in {"GET", "SET", "MSETNX", "RENAME"} /\ Answered(part) # {} =>
              Merge(r, home, part) = part[CHOOSE t \in Answered(part) : TRUE].reply
<1>1. ASSUME r.op = "MGET" PROVE Merge(r, home, part) = MgetReply(r, part)
  <2>1. r.op \notin Sums /\ r.op \notin Global /\ r.op # "MSET"
    BY <1>1 DEF Sums, Global
  <2> QED
    BY <1>1, <2>1 DEF Merge
<1>2. ASSUME r.op = "MSET" PROVE Merge(r, home, part) = Ok
  <2>1. r.op \notin Sums /\ r.op \notin Global /\ r.op # "MGET"
    BY <1>2 DEF Sums, Global
  <2> QED
    BY <1>2, <2>1 DEF Merge
<1>3. ASSUME r.op \in {"GET", "SET", "MSETNX", "RENAME"}, Answered(part) # {}
      PROVE  Merge(r, home, part) = part[CHOOSE t \in Answered(part) : TRUE].reply
  <2>1. r.op \notin Sums /\ r.op \notin Global /\ r.op # "MGET" /\ r.op # "MSET"
    BY <1>3 DEF Sums, Global
  <2> QED
    BY <1>3, <2>1 DEF Merge
<1> QED
  BY <1>1, <1>2, <1>3

(* The reply to the client is the answer of the one shard. *)
LEMMA MergeOne ==
  ASSUME OneShardCommands, NEW r \in Requests, r.op # "SELECT", NEW home, NEW s \in Shards,
         \A i \in DOMAIN r.keys : shard(r.keys[i]) = s, NEW st, NEW d, NEW part,
         \A t \in Shards \ {s} : part[t] = NoPart, part[s] = Done(Answer(st, r, d, s))
  PROVE  Merge(r, home, part) = Answer(st, r, d, s)
<1>0. r.op \in {"GET", "SET", "MGET", "MSET", "MSETNX", "RENAME"}
  BY DEF OneShardCommands
<1>1. Answered(part) = {s}
  BY SMTT(30) DEF Answered, NoPart, Done
<1>2. part[s].reply = Answer(st, r, d, s)
  BY SMTT(30) DEF Done
<1>3. CASE r.op = "MGET"
  <2>1. Part(r, s) = DOMAIN r.keys
    BY DEF Part
  <2>2. Answer(st, r, d, s) = [type |-> "array", array |-> [i \in DOMAIN r.keys |-> st[d][r.keys[i]]]]
    BY <1>3, <2>1, AnswerMget, SMTT(30)
  <2>3. MgetReply(r, part) = [type |-> "array", array |-> [i \in DOMAIN r.keys |-> part[s].reply.array[i]]]
    BY <1>1 DEF MgetReply
  <2>4. Merge(r, home, part) = MgetReply(r, part)
    BY <1>3, MergeByOp
  <2> QED
    BY <1>2, <2>2, <2>3, <2>4, SMTT(30)
<1>4. CASE r.op = "MSET"
  BY <1>4, MergeByOp, AnswerSet, SMTT(30)
<1>5. CASE r.op \in {"GET", "SET", "MSETNX", "RENAME"}
  <2>1. Merge(r, home, part) = part[CHOOSE t \in Answered(part) : TRUE].reply
    BY <1>1, <1>5, MergeByOp
  <2> QED
    BY <1>1, <1>2, <2>1
<1> QED
  BY <1>0, <1>3, <1>4, <1>5

-----------------------------------------------------------------------------
(* Database d of shard s becomes t, and database d of the one store `one`. *)
Stored(s, d, t) == store' = [store EXCEPT ![s] = [store[s] EXCEPT ![d] = t]]
Becomes(d, one) == oneMap' = [oneMap EXCEPT ![d] = one]
Merged(s, d, t) == [k \in Keys |-> IF shard(k) = s THEN t[k] ELSE oneMap[d][k]]

(* The one store after a shard changed a table of its own. *)
LEMMA MapAfter ==
  ASSUME StoreInv, NEW s \in Shards, NEW d \in DBs, NEW t, Stored(s, d, t)
  PROVE  Becomes(d, Merged(s, d, t))
<1> DEFINE one == Merged(s, d, t)
<1>0. one = [k \in Keys |-> IF shard(k) = s THEN t[k] ELSE oneMap[d][k]]
  BY DEF Merged
<1>1. \A k \in Keys : shard(k) \in Shards
  BY ShardType
<1>2. /\ store'[s] = [store[s] EXCEPT ![d] = t] /\ \A u \in Shards \ {s} : store'[u] = store[u]
  BY DEF StoreInv, Stored
<1>3. store'[s][d] = t /\ \A e \in DBs \ {d} : store'[s][e] = store[s][e]
  BY <1>2 DEF StoreInv, Owned
<1>4. \A e \in DBs \ {d}, k \in Keys : store'[shard(k)][e][k] = store[shard(k)][e][k]
  BY <1>1, <1>2, <1>3
<1>5. \A k \in Keys : store'[shard(k)][d][k] = one[k]
  <2>1. \A k \in Keys : oneMap[d][k] = store[shard(k)][d][k]
    BY DEF oneMap
  <2>2. ASSUME NEW k \in Keys, shard(k) = s PROVE store'[shard(k)][d][k] = one[k]
    BY <1>0, <1>3, <2>2
  <2>3. ASSUME NEW k \in Keys, shard(k) # s PROVE store'[shard(k)][d][k] = one[k]
    <3>1. one[k] = oneMap[d][k] /\ shard(k) \in Shards \ {s}
      BY <1>0, <1>1, <2>3
    <3> QED
      BY <1>2, <2>1, <3>1
  <2> QED
    BY <2>2, <2>3
<1> HIDE DEF one
<1>6. oneMap'[d] = one /\ \A e \in DBs \ {d} : oneMap'[e] = oneMap[e]
  <2>1. oneMap'[d] = [k \in Keys |-> store'[shard(k)][d][k]]
    BY DEF oneMap
  <2>2. one = [k \in Keys |-> one[k]]
    BY <1>0
  <2>3. oneMap'[d] = one
    BY <1>5, <2>1, <2>2
  <2>4. \A e \in DBs \ {d} : oneMap'[e] = oneMap[e]
    BY <1>4 DEF oneMap
  <2> QED
    BY <2>3, <2>4
<1>7. DOMAIN oneMap = DBs /\ DOMAIN oneMap' = DBs
  BY DEF oneMap
<1>8. oneMap' = [e \in DBs |-> oneMap'[e]] /\ oneMap = [e \in DBs |-> oneMap[e]]
  BY DEF oneMap
<1> HIDE DEF oneMap
<1> QED
  BY <1>6, <1>8 DEF Becomes, one

(* The one store replies rep to the first request of c. *)
Replied(c, rep) ==
  /\ oneReplies' = [oneReplies EXCEPT ![c] = Append(oneReplies[c], rep)]
  /\ oneTodo' = [oneTodo EXCEPT ![c] = Tail(oneTodo[c])]

(* MSET and SET set the keys as the one store does. *)
LEMMA SameSet ==
  ASSUME NEW t, NEW r
  PROVE  Linear!AllSet(t, r) = SetAll(t, r, DOMAIN r.keys)
BY DEF Linear!AllSet, SetAll, Max, Linear!Max

(* What a command on one shard does to the shard, by command. *)
LEMMA EffectByOp ==
  ASSUME NEW st, NEW r, NEW d, NEW s, \A i \in DOMAIN r.keys : shard(r.keys[i]) = s
  PROVE  /\ Part(r, s) = DOMAIN r.keys
         /\ r.op \in {"GET", "MGET"} => Effect(st, r, d, s) = st
         /\ r.op \in {"SET", "MSET"} => Effect(st, r, d, s) = [st EXCEPT ![d] = SetAll(st[d], r, DOMAIN r.keys)]
         /\ r.op = "MSETNX" /\ (\A i \in DOMAIN r.keys : r.keys[i] \notin Present(st[d])) =>
              Effect(st, r, d, s) = [st EXCEPT ![d] = SetAll(st[d], r, DOMAIN r.keys)]
         /\ r.op = "MSETNX" /\ (\E i \in DOMAIN r.keys : r.keys[i] \in Present(st[d])) =>
              Effect(st, r, d, s) = st
         /\ r.op = "RENAME" =>
              Effect(st, r, d, s) = IF st[d][r.keys[1]] # Nil
                                    THEN [st EXCEPT ![d] = [st[d] EXCEPT ![r.keys[1]] = Nil, ![r.keys[2]] = st[d][r.keys[1]]]]
                                    ELSE st
<1>1. Part(r, s) = DOMAIN r.keys
  BY DEF Part
<1>2. ASSUME r.op \in {"GET", "MGET"} PROVE Effect(st, r, d, s) = st
  BY <1>2 DEF Effect
<1>3. ASSUME r.op \in {"SET", "MSET"} PROVE Effect(st, r, d, s) = [st EXCEPT ![d] = SetAll(st[d], r, DOMAIN r.keys)]
  BY <1>1, <1>3 DEF Effect
<1>4. ASSUME r.op = "MSETNX"
      PROVE  Effect(st, r, d, s) = IF {r.keys[i] : i \in DOMAIN r.keys} \cap Present(st[d]) = {}
                                    THEN [st EXCEPT ![d] = SetAll(st[d], r, DOMAIN r.keys)] ELSE st
  BY <1>1, <1>4 DEF Effect
<1>5. ASSUME r.op = "RENAME"
      PROVE  Effect(st, r, d, s) = IF st[d][r.keys[1]] # Nil
                                    THEN [st EXCEPT ![d] = [st[d] EXCEPT ![r.keys[1]] = Nil, ![r.keys[2]] = st[d][r.keys[1]]]]
                                    ELSE st
  BY <1>5 DEF Effect
<1>6. {r.keys[i] : i \in DOMAIN r.keys} \cap Present(st[d]) = {}
        <=> \A i \in DOMAIN r.keys : r.keys[i] \notin Present(st[d])
  OBVIOUS
<1>7. ASSUME r.op = "MSETNX", \A i \in DOMAIN r.keys : r.keys[i] \notin Present(st[d])
      PROVE  Effect(st, r, d, s) = [st EXCEPT ![d] = SetAll(st[d], r, DOMAIN r.keys)]
  BY <1>4, <1>6, <1>7
<1>8. ASSUME r.op = "MSETNX", \E i \in DOMAIN r.keys : r.keys[i] \in Present(st[d])
      PROVE  Effect(st, r, d, s) = st
  BY <1>4, <1>6, <1>8
<1> QED
  BY <1>1, <1>2, <1>3, <1>5, <1>7, <1>8

(* Setting keys of shard s on the shard sets them in the one store. *)
LEMMA SetAfter ==
  ASSUME StoreInv, NEW s \in Shards, NEW d \in DBs, NEW r, r.keys \in Seq(Keys),
         \A i \in DOMAIN r.keys : shard(r.keys[i]) = s,
         Stored(s, d, SetAll(store[s][d], r, DOMAIN r.keys))
  PROVE  Becomes(d, Linear!AllSet(oneMap[d], r))
<1> DEFINE t == SetAll(store[s][d], r, DOMAIN r.keys)
           one == SetAll(oneMap[d], r, DOMAIN r.keys)
<1>1. ASSUME NEW k \in Keys PROVE one[k] = IF shard(k) = s THEN t[k] ELSE oneMap[d][k]
  <2>1. shard(k) = s => oneMap[d][k] = store[s][d][k]
    BY DEF oneMap
  <2>2. CASE {i \in DOMAIN r.keys : r.keys[i] = k} = {}
    <3>1. one[k] = oneMap[d][k] /\ t[k] = store[s][d][k]
      BY <2>2 DEF SetAll
    <3> QED
      BY <2>1, <3>1
  <2>3. CASE {i \in DOMAIN r.keys : r.keys[i] = k} # {}
    <3>1. one[k] = r.vals[Max({i \in DOMAIN r.keys : r.keys[i] = k})] /\ t[k] = one[k]
      BY <2>3 DEF SetAll
    <3>2. shard(k) = s
      BY <2>3
    <3> QED
      BY <3>1, <3>2
  <2> QED
    BY <2>2, <2>3
<1>2. one = [k \in Keys |-> one[k]]
  BY DEF SetAll
<1>3. one = Linear!AllSet(oneMap[d], r)
  BY SameSet
<1> HIDE DEF t, one
<1>4. one = Merged(s, d, t)
  BY <1>1, <1>2 DEF Merged
<1>5. Becomes(d, Merged(s, d, t))
  BY MapAfter DEF t
<1> QED
  BY <1>3, <1>4, <1>5

(* A command that runs on the shard of its keys runs on the one store. *)
LEMMA DoCommand ==
  ASSUME OneShardCommands, StoreInv, NEW c \in Conns, NEW r \in Requests, r.op # "SELECT",
         CoLocated(r), 1 \in DOMAIN r.keys,
         NEW s \in Shards, \A i \in DOMAIN r.keys : shard(r.keys[i]) = s,
         oneDb[c] \in DBs, oneDb' = oneDb, oneTodo[c] # <<>>, Head(oneTodo[c]) = r,
         store' = [store EXCEPT ![s] = Effect(store[s], r, oneDb[c], s)],
         Replied(c, Answer(store[s], r, oneDb[c], s))
  PROVE  Linear!Do(c)
<1> DEFINE d == oneDb[c]
           t == oneMap[d]
           rep == Answer(store[s], r, d, s)
<1>0. /\ r.op \in {"GET", "SET", "MGET", "MSET", "MSETNX", "RENAME"}
      /\ r.keys \in Seq(Keys) /\ (r.op = "RENAME" => Len(r.keys) = 2)
  BY ShardSetAssumption DEF OneShardCommands
<1>1. \A i \in DOMAIN r.keys : r.keys[i] \in Keys /\ t[r.keys[i]] = store[s][d][r.keys[i]]
  BY <1>0, SMTT(30) DEF oneMap
<1>2. Part(r, s) = DOMAIN r.keys
  BY EffectByOp
<1>3. ASSUME Effect(store[s], r, d, s) = store[s] PROVE oneMap' = oneMap
  <2>1. store' = store
    BY <1>3 DEF StoreInv
  <2> QED
    BY <2>1 DEF oneMap
<1>4. Linear!Reply(c, rep)
  BY DEF Linear!Reply, Replied
<1>5. Linear!Ok = Ok /\ (\A e : Linear!Err(e) = Err(e)) /\ (\A n : Linear!Int64(n) = IntReply(n))
  BY DEF Linear!Ok, Linear!Err, Linear!Int64, Ok, Err, IntReply
<1> HIDE DEF d, t, rep
<1>6. d = oneDb[c] /\ t = oneMap[oneDb[c]] /\ d \in DBs
  BY DEF d, t
<1>14. ASSUME NEW u, Effect(store[s], r, d, s) = [store[s] EXCEPT ![d] = u] PROVE Stored(s, d, u)
  BY <1>6, <1>14 DEF Stored
<1>7. CASE r.op = "GET"
  <2>1. rep = [type |-> "bulk", value |-> t[r.keys[1]]]
    BY <1>1, <1>7, AnswerGet, SMTT(30) DEF rep
  <2>2. oneMap' = oneMap
    BY <1>3, <1>7, EffectByOp, SMTT(30)
  <2> QED
    BY <1>4, <1>6, <1>7, <2>1, <2>2 DEF Linear!Do
<1>8. CASE r.op = "MGET"
  <2>1. rep = [type |-> "array", array |-> [i \in DOMAIN r.keys |-> t[r.keys[i]]]]
    BY <1>1, <1>2, <1>8, AnswerMget, SMTT(30) DEF rep
  <2>2. oneMap' = oneMap
    BY <1>3, <1>8, EffectByOp, SMTT(30)
  <2> QED
    BY <1>4, <1>6, <1>8, <2>1, <2>2 DEF Linear!Do
<1>9. CASE r.op \in {"SET", "MSET"}
  <2>1. rep = Linear!Ok
    BY <1>5, <1>9, AnswerSet, SMTT(30) DEF rep
  <2>2. Effect(store[s], r, d, s) = [store[s] EXCEPT ![d] = SetAll(store[s][d], r, DOMAIN r.keys)]
    BY <1>9, EffectByOp, SMTT(30)
  <2>3. Becomes(d, Linear!AllSet(oneMap[d], r))
    BY <1>0, <1>6, <1>14, <2>2, SetAfter
  <2> QED
    BY <1>4, <1>6, <1>9, <2>1, <2>3 DEF Linear!Do, Becomes
<1>10. CASE r.op = "MSETNX" /\ \A i \in DOMAIN r.keys : t[r.keys[i]] = Nil
  <2>1. rep = Linear!Int64(1)
    BY <1>1, <1>2, <1>5, <1>10, AnswerMsetnx, SMTT(30) DEF rep
  <2>2. \A i \in DOMAIN r.keys : r.keys[i] \notin Present(store[s][d])
    BY <1>1, <1>10 DEF Present
  <2>3. Effect(store[s], r, d, s) = [store[s] EXCEPT ![d] = SetAll(store[s][d], r, DOMAIN r.keys)]
    BY <1>10, <2>2, EffectByOp, SMTT(30)
  <2>4. Becomes(d, Linear!AllSet(oneMap[d], r))
    BY <1>0, <1>6, <1>14, <2>3, SetAfter
  <2> QED
    BY <1>4, <1>6, <1>10, <2>1, <2>4 DEF Linear!Do, Becomes
<1>11. CASE r.op = "MSETNX" /\ \E i \in DOMAIN r.keys : t[r.keys[i]] # Nil
  <2>1. rep = Linear!Int64(0)
    BY <1>1, <1>2, <1>5, <1>11, AnswerMsetnx, SMTT(30) DEF rep
  <2>2. \E i \in DOMAIN r.keys : r.keys[i] \in Present(store[s][d])
    BY <1>1, <1>11 DEF Present
  <2>3. Effect(store[s], r, d, s) = store[s]
    BY <1>11, <2>2, EffectByOp, SMTT(30)
  <2> QED
    BY <1>3, <1>4, <1>6, <1>11, <2>1, <2>3 DEF Linear!Do
<1>12. CASE r.op = "RENAME" /\ t[r.keys[1]] = Nil
  <2>1. rep = Linear!Err("no such key")
    <3>2. store[s][d][r.keys[1]] = Nil
      BY <1>1, <1>12
    <3>1. rep = Err("no such key")
      BY <1>12, <3>2, AnswerRename DEF rep
    <3> QED
      BY <1>5, <3>1
  <2>2. Effect(store[s], r, d, s) = store[s]
    BY <1>1, <1>12, EffectByOp, SMTT(30)
  <2> QED
    BY <1>3, <1>4, <1>6, <1>12, <2>1, <2>2 DEF Linear!Do
<1>13. CASE r.op = "RENAME" /\ t[r.keys[1]] # Nil
  <2>1. rep = Linear!Ok
    <3>2. store[s][d][r.keys[1]] # Nil
      BY <1>1, <1>13
    <3>1. rep = Ok
      BY <1>13, <3>2, AnswerRename DEF rep
    <3> QED
      BY <1>5, <3>1
  <2> DEFINE u == [store[s][d] EXCEPT ![r.keys[1]] = Nil, ![r.keys[2]] = store[s][d][r.keys[1]]]
             one == [[t EXCEPT ![r.keys[1]] = Nil] EXCEPT ![r.keys[2]] = t[r.keys[1]]]
  <2>2. Effect(store[s], r, d, s) = [store[s] EXCEPT ![d] = u]
    BY <1>1, <1>13, EffectByOp, SMTT(30)
  <2>3. /\ 2 \in DOMAIN r.keys /\ shard(r.keys[1]) = s /\ shard(r.keys[2]) = s
        /\ r.keys[1] \in Keys /\ r.keys[2] \in Keys
        /\ t[r.keys[1]] = store[s][d][r.keys[1]]
    BY <1>0, <1>1, <1>13, SMTT(30)
  <2>4. t = [k \in Keys |-> oneMap[d][k]] /\ store[s][d] = [k \in Keys |-> store[s][d][k]]
    BY <1>6 DEF oneMap, StoreInv, Owned
  <2>5. \A k \in Keys : shard(k) = s => t[k] = store[s][d][k]
    BY <1>6 DEF oneMap
  <2>6. one = Merged(s, d, u)
    BY <1>6, <2>3, <2>4, <2>5 DEF Merged
  <2> HIDE DEF u, one
  <2>9. Stored(s, d, u)
    BY <1>14, <2>2
  <2>7. Becomes(d, one)
    BY <1>6, <2>6, <2>9, MapAfter
  <2>8. oneMap' = [oneMap EXCEPT ![d] = [[t EXCEPT ![r.keys[1]] = Nil] EXCEPT ![r.keys[2]] = t[r.keys[1]]]]
    BY <2>7 DEF one, Becomes
  <2> QED
    BY <1>4, <1>6, <1>13, <2>1, <2>8 DEF Linear!Do
<1> QED
  BY <1>0, <1>7, <1>8, <1>9, <1>10, <1>11, <1>12, <1>13

-----------------------------------------------------------------------------
(* What one store has of a connection. *)
Ran(x) == \E s \in Shards : x.part[s].state = "done"

Buffers(x) ==
  x.read_buf \in Seq(Requests) /\ x.sock \in Seq(Requests) /\ IsSeq(x.got) /\ IsSeq(x.write_buf)

LEMMA BuffersOf ==
  ASSUME NEW x, Buffers(x)
  PROVE  IsSeq(x.read_buf) /\ IsSeq(x.sock) /\ IsSeq(x.read_buf \o x.sock) /\ IsSeq(Replies(x))
<1>1. IsSeq(x.read_buf) /\ IsSeq(x.sock) /\ IsSeq(x.got) /\ IsSeq(x.write_buf)
  BY DEF Buffers, IsSeq
<1> QED
  BY <1>1, SeqCat DEF Replies

(* A command that is not waited for is among the requests read, or its     *)
(* reply among those written.                                              *)
LEMMA IdleView ==
  ASSUME NEW x, Buffers(x), x.state # "waiting"
  PROVE  TodoOf(x) = x.read_buf \o x.sock /\ RepliesOf(x) = x.got \o x.write_buf
<1>1. Early(x) = <<>> /\ Late(x) = <<>>
  BY DEF Early, Late
<1>2. IsSeq(x.read_buf) /\ IsSeq(x.got \o x.write_buf)
  BY BuffersOf DEF Replies
<1>3. <<>> \o x.read_buf = x.read_buf /\ (x.got \o x.write_buf) \o <<>> = x.got \o x.write_buf
  BY <1>2, SeqEmpty
<1> QED
  BY <1>1, <1>3 DEF TodoOf, RepliesOf, Replies

(* A command that is on its way is still to do; one that has run has its   *)
(* reply.                                                                  *)
LEMMA WaitView ==
  ASSUME NEW x, Buffers(x), x.state = "waiting"
  PROVE  /\ ~Ran(x) => TodoOf(x) = First(x.req, x.read_buf \o x.sock) /\ RepliesOf(x) = x.got \o x.write_buf
         /\ Ran(x) => /\ TodoOf(x) = x.read_buf \o x.sock
                      /\ RepliesOf(x) = Append(x.got \o x.write_buf, Merge(x.req, x.home, x.part))
<1>0. IsSeq(x.read_buf) /\ IsSeq(x.sock) /\ IsSeq(x.got \o x.write_buf)
  BY BuffersOf DEF Replies
<1>1. ASSUME ~Ran(x)
      PROVE  TodoOf(x) = First(x.req, x.read_buf \o x.sock) /\ RepliesOf(x) = x.got \o x.write_buf
  <2>1. Early(x) = <<>> /\ Late(x) = <<x.req>>
    BY <1>1 DEF Early, Late, Ran
  <2>2. (x.got \o x.write_buf) \o <<>> = x.got \o x.write_buf
    BY <1>0, SeqEmpty
  <2>3. First(x.req, x.read_buf) \o x.sock = First(x.req, x.read_buf \o x.sock)
    <3> DEFINE p == x.read_buf
               q == x.sock
    <3>1. IsSeq(p) /\ IsSeq(q)
      BY <1>0
    <3> HIDE DEF p, q
    <3>2. First(x.req, p) \o q = First(x.req, p \o q)
      BY <3>1, FirstCat, SMTT(30)
    <3> QED
      BY <3>2 DEF p, q
  <2> QED
    BY <2>1, <2>2, <2>3 DEF TodoOf, RepliesOf, Replies, First
<1>2. ASSUME Ran(x)
      PROVE  /\ TodoOf(x) = x.read_buf \o x.sock
             /\ RepliesOf(x) = Append(x.got \o x.write_buf, Merge(x.req, x.home, x.part))
  <2> DEFINE m == Merge(x.req, x.home, x.part)
  <2>1. Early(x) = <<m>>
    BY <1>2 DEF Early, Ran
  <2> HIDE DEF m
  <2>2. <<m>> # <<>>
    OBVIOUS
  <2>3. Late(x) = <<>>
    BY <2>1, <2>2 DEF Late
  <2>4. <<>> \o x.read_buf = x.read_buf
    BY <1>0, SeqEmpty
  <2>6. Append(x.got \o x.write_buf, m) = (x.got \o x.write_buf) \o <<m>>
    <3> DEFINE p == x.got \o x.write_buf
    <3>1. IsSeq(p)
      BY <1>0
    <3> HIDE DEF p
    <3>2. Append(p, m) = p \o <<m>>
      BY <3>1, SeqAppend
    <3> QED
      BY <3>2 DEF p
  <2>5. TodoOf(x) = x.read_buf \o x.sock /\ RepliesOf(x) = Append(x.got \o x.write_buf, m)
    BY <2>1, <2>3, <2>4, <2>6 DEF TodoOf, RepliesOf, Replies
  <2> QED
    BY <2>5 DEF m
<1> QED
  BY <1>1, <1>2

-----------------------------------------------------------------------------
(* Steps of one connection. *)
Changes(c, y) == conn' = [conn EXCEPT ![c] = y]

Same(x, y) == y.db = x.db /\ TodoOf(y) = TodoOf(x) /\ RepliesOf(y) = RepliesOf(x)

Answers(x, y, rep) == TodoOf(y) = Tail(TodoOf(x)) /\ RepliesOf(y) = Append(RepliesOf(x), rep)

LEMMA OneChange ==
  ASSUME ConnInv, NEW c \in Conns, NEW y, Changes(c, y)
  PROVE  /\ conn'[c] = y /\ \A b \in Conns \ {c} : conn'[b] = conn[b]
         /\ oneDb' = [oneDb EXCEPT ![c] = y.db]
         /\ oneTodo' = [oneTodo EXCEPT ![c] = TodoOf(y)]
         /\ oneReplies' = [oneReplies EXCEPT ![c] = RepliesOf(y)]
<1>1. conn'[c] = y /\ \A b \in Conns \ {c} : conn'[b] = conn[b]
  BY DEF Changes, ConnInv
<1> QED
  BY <1>1 DEF oneDb, oneTodo, oneReplies

LEMMA SameView ==
  ASSUME ConnInv, NEW c \in Conns, NEW y, Changes(c, y), Same(conn[c], y)
  PROVE  oneDb' = oneDb /\ oneTodo' = oneTodo /\ oneReplies' = oneReplies
<1>1. /\ oneDb = [b \in Conns |-> oneDb[b]] /\ oneTodo = [b \in Conns |-> oneTodo[b]]
      /\ oneReplies = [b \in Conns |-> oneReplies[b]]
  BY DEF oneDb, oneTodo, oneReplies
<1>2. oneDb[c] = y.db /\ oneTodo[c] = TodoOf(y) /\ oneReplies[c] = RepliesOf(y)
  BY DEF Same, oneDb, oneTodo, oneReplies
<1> QED
  BY <1>1, <1>2, OneChange, SMTT(30)

LEMMA AnswersView ==
  ASSUME ConnInv, NEW c \in Conns, NEW y, Changes(c, y), NEW rep, Answers(conn[c], y, rep)
  PROVE  Replied(c, rep)
<1>1. TodoOf(y) = Tail(oneTodo[c]) /\ RepliesOf(y) = Append(oneReplies[c], rep)
  BY DEF Answers, oneTodo, oneReplies
<1> QED
  BY <1>1, OneChange, SMTT(30) DEF Replied

(* y is x after a step, if x was in a queue still as its queue has it. *)
StillQueued(x, y) == x.state = "queued" => y.state = "queued"
StillWaiting(x, y) ==
  \A s \in Shards : x.state = "waiting" /\ x.part[s] = Sent =>
    y.state = "waiting" /\ y.part[s] = Sent /\ y.req = x.req /\ y.db = x.db

(* What the queues hold. *)
LEMMA SeqElem ==
  ASSUME NEW S, NEW q \in Seq(S), NEW i \in DOMAIN q
  PROVE  q[i] \in S
BY SMTT(30)

LEMMA QueueElems ==
  ASSUME IInv, NEW s \in Shards
  PROVE  /\ \A i \in DOMAIN crossq[s] : crossq[s][i] \in [conn : Conns, req : Requests, db : DBs]
         /\ \A i \in DOMAIN connq[s] : connq[s][i] \in Conns /\ conn[connq[s][i]].home = s
<1>1. crossq[s] \in Seq(Tasks(s))
  BY DEF IInv, QueueInv
<1>2. Tasks(s) \subseteq [conn : Conns, req : Requests, db : DBs]
  BY DEF Tasks
<1> DEFINE B == {b \in Conns : conn[b].home = s /\ conn[b].state # "new"}
<1>3. connq[s] \in Seq(B)
  BY DEF IInv, QueueInv
<1>4. \A i \in DOMAIN crossq[s] : crossq[s][i] \in Tasks(s)
  BY <1>1, SeqElem
<1> HIDE DEF B
<1>5. \A i \in DOMAIN connq[s] : connq[s][i] \in B
  BY <1>3, SeqElem
<1>6. \A b \in B : b \in Conns /\ conn[b].home = s
  BY DEF B
<1> QED
  BY <1>2, <1>4, <1>5, <1>6

LEMMA LiveStep ==
  ASSUME IInv, LinearInv, NEW c \in Conns, NEW y, Changes(c, y), LiveConn(y),
         UNCHANGED <<boot, alive, control, panics>>
  PROVE  Undisturbed' /\ \A b \in Conns : LiveConn(conn[b])'
<1>1. conn'[c] = y /\ \A b \in Conns \ {c} : conn'[b] = conn[b]
  BY OneChange DEF IInv
<1>2. Undisturbed'
  BY DEF LinearInv, Undisturbed
<1>3. \A b \in Conns : LiveConn(conn'[b])
  BY <1>1 DEF LinearInv
<1> QED
  BY <1>2, <1>3 DEF LiveConn, OpenConn, Waits

(* A task that was in a channel is still what its connection waits for. *)
StillPending(m, s) ==
  /\ m = [conn |-> m.conn, req |-> conn'[m.conn].req, db |-> conn'[m.conn].db]
  /\ conn'[m.conn].state = "waiting" /\ conn'[m.conn].part[s] = Sent

LEMMA PendingStep ==
  ASSUME IInv, LinearInv, NEW c \in Conns, NEW y, Changes(c, y),
         NEW s \in Shards, NEW m, m.conn \in Conns, Pending(m, s),
         m.conn = c => y.state = "waiting" /\ y.part[s] = Sent /\ y.req = conn[c].req /\ y.db = conn[c].db
  PROVE  StillPending(m, s)
<1>1. conn'[c] = y /\ \A b \in Conns \ {c} : conn'[b] = conn[b]
  BY OneChange DEF IInv
<1>2. m = Task(m.conn) /\ conn[m.conn].state = "waiting" /\ conn[m.conn].part[s] = Sent
  BY DEF Pending
<1>3. conn'[m.conn].state = "waiting" /\ conn'[m.conn].part[s] = Sent
      /\ conn'[m.conn].req = conn[m.conn].req /\ conn'[m.conn].db = conn[m.conn].db
  BY <1>1, <1>2
<1>4. m = [conn |-> m.conn, req |-> conn'[m.conn].req, db |-> conn'[m.conn].db]
  BY <1>2, <1>3 DEF Task
<1> QED
  BY <1>3, <1>4 DEF StillPending

LEMMA CrossSame ==
  ASSUME IInv, LinearInv, NEW c \in Conns, NEW y, Changes(c, y), StillWaiting(conn[c], y), crossq' = crossq
  PROVE  CrossOnce'
<1> SUFFICES ASSUME NEW s \in Shards, NEW i \in DOMAIN crossq[s]
             PROVE  StillPending(crossq[s][i], s)
  BY DEF LinearInv, CrossOnce, StillPending, Pending, Task
<1> DEFINE m == crossq[s][i]
<1>1. m.conn \in Conns
  BY QueueElems
<1>2. Pending(m, s)
  BY DEF LinearInv, CrossOnce
<1> HIDE DEF m
<1>3. m.conn = c => y.state = "waiting" /\ y.part[s] = Sent /\ y.req = conn[c].req /\ y.db = conn[c].db
  BY <1>2 DEF Pending, StillWaiting
<1>4. StillPending(m, s)
  BY <1>1, <1>2, <1>3, PendingStep
<1> QED
  BY <1>4 DEF m

LEMMA QueueSame ==
  ASSUME IInv, LinearInv, NEW c \in Conns, NEW y, Changes(c, y), StillQueued(conn[c], y), connq' = connq
  PROVE  QueuedOnce'
<1>1. conn'[c] = y /\ \A b \in Conns \ {c} : conn'[b] = conn[b]
  BY OneChange DEF IInv
<1> SUFFICES ASSUME NEW s \in Shards, NEW i \in DOMAIN connq[s]
             PROVE  conn'[connq[s][i]].state = "queued"
  BY DEF LinearInv, QueuedOnce
<1>2. connq[s][i] \in Conns /\ conn[connq[s][i]].state = "queued"
  BY QueueElems DEF LinearInv, QueuedOnce
<1> QED
  BY <1>1, <1>2 DEF StillQueued

LEMMA LinearConn ==
  ASSUME IInv, LinearInv, NEW c \in Conns, NEW y, Changes(c, y), LiveConn(y),
         StillQueued(conn[c], y), StillWaiting(conn[c], y),
         UNCHANGED <<boot, alive, connq, crossq, control, panics>>
  PROVE  LinearInv'
BY LiveStep, CrossSame, QueueSame DEF LinearInv

(* A step that keeps the invariant and is one of the one store, or none. *)
Sim == LinearInv' /\ (Linear!Next \/ UNCHANGED Linear!vars)

LEMMA Stutters ==
  ASSUME IInv, LinearInv, NEW c \in Conns, NEW y, Changes(c, y), LiveConn(y),
         StillQueued(conn[c], y), StillWaiting(conn[c], y),
         UNCHANGED <<boot, alive, connq, crossq, control, panics, store>>, Same(conn[c], y)
  PROVE  Sim
<1>1. LinearInv'
  BY LinearConn
<1>2. oneMap' = oneMap
  BY DEF oneMap
<1>3. oneDb' = oneDb /\ oneTodo' = oneTodo /\ oneReplies' = oneReplies
  BY SameView DEF IInv
<1> QED
  BY <1>1, <1>2, <1>3 DEF Sim, Linear!vars

LEMMA DoesOne ==
  ASSUME NEW c \in Conns, LinearInv', Linear!Do(c)
  PROVE  Sim
BY DEF Sim, Linear!Next

(* A connection of the one store, and its buffers. *)
LEMMA ConnFacts ==
  ASSUME IInv, LinearInv, NEW c \in Conns
  PROVE  /\ conn = [b \in Conns |-> conn[b]] /\ GoodConn(conn[c]) /\ Record(conn[c])
         /\ LiveConn(conn[c]) /\ Buffers(conn[c]) /\ conn[c].gone = FALSE
         /\ oneTodo[c] = TodoOf(conn[c]) /\ oneDb[c] = conn[c].db /\ conn[c].db \in DBs
         /\ alive = Shards /\ boot = {} /\ panics = 0 /\ \A s \in Shards : control[s] = <<>>
<1>1. conn = [b \in Conns |-> conn[b]] /\ GoodConn(conn[c]) /\ LiveConn(conn[c])
  BY DEF IInv, ConnInv, LinearInv
<1>2. Record(conn[c]) /\ conn[c].db \in DBs /\ conn[c].gone = FALSE /\ Buffers(conn[c])
  BY <1>1 DEF GoodConn, LiveConn, OpenConn, Buffers
<1>3. oneTodo[c] = TodoOf(conn[c]) /\ oneDb[c] = conn[c].db
  BY DEF oneTodo, oneDb
<1> QED
  BY <1>1, <1>2, <1>3 DEF LinearInv, Undisturbed

-----------------------------------------------------------------------------
(* The steps, one by one. *)
LEMMA CatAppend ==
  ASSUME NEW p, NEW q, NEW e, IsSeq(p), IsSeq(q)
  PROVE  p \o Append(q, e) = Append(p \o q, e)
<1> DEFINE w == <<e>>
<1>1. IsSeq(w) /\ IsSeq(p \o q)
  BY SeqOne, SeqCat
<1>2. Append(q, e) = q \o w /\ Append(p \o q, e) = (p \o q) \o w
  <2> DEFINE a == p \o q
  <2>1. Append(q, e) = q \o w
    BY SeqAppend
  <2>2. IsSeq(a)
    BY <1>1
  <2> HIDE DEF a
  <2>3. Append(a, e) = a \o w
    BY <2>2, SeqAppend
  <2> QED
    BY <2>1, <2>3 DEF a
<1> HIDE DEF w
<1>3. (p \o q) \o w = p \o (q \o w)
  BY <1>1, SeqAssoc, SMTT(30)
<1> QED
  BY <1>2, <1>3

LEMMA ClientSendSim ==
  ASSUME OneShardCommands, IInv, LinearInv, NEW c \in Conns, NEW r \in Requests, ClientSend(c, r)
  PROVE  Sim
<1> DEFINE x == conn[c]
           y == [x EXCEPT !.sent = @ + 1, !.sock = Append(@, r)]
<1>0. /\ conn = [b \in Conns |-> conn[b]] /\ Record(x) /\ LiveConn(x) /\ Buffers(x)
      /\ oneTodo[c] = TodoOf(x)
  BY ConnFacts
<1>1. Changes(c, y) /\ UNCHANGED <<boot, alive, connq, crossq, control, panics, store>>
  BY <1>0 DEF ClientSend, Changes
<1>2. y.sock = Append(x.sock, r) /\ \A f \in ConnFields \ {"sent", "sock"} : y[f] = x[f]
  BY <1>0 DEF Record, ConnFields
<1> HIDE DEF x, y
<1>3. /\ y.state = x.state /\ y.home = x.home /\ y.db = x.db /\ y.gone = x.gone /\ y.read_buf = x.read_buf
      /\ y.req = x.req /\ y.part = x.part /\ y.write_buf = x.write_buf /\ y.got = x.got
  BY <1>2 DEF ConnFields
<1>4. LiveConn(y) /\ StillQueued(x, y) /\ StillWaiting(x, y)
  BY <1>0, <1>3 DEF LiveConn, OpenConn, Waits, StillQueued, StillWaiting
<1>5. LinearInv'
  BY <1>1, <1>4, LinearConn DEF x
<1>6. Early(y) = Early(x) /\ Late(y) = Late(x)
  BY <1>3 DEF Early, Late
<1>7. RepliesOf(y) = RepliesOf(x)
  BY <1>3, <1>6 DEF RepliesOf, Replies
<1>8. TodoOf(y) = Append(TodoOf(x), r)
  <2> DEFINE p == Late(x)
             q == x.read_buf
             u == x.sock
  <2>1. IsSeq(p) /\ IsSeq(q) /\ IsSeq(u)
    <3>1. p = <<>> \/ p = <<x.req>>
      BY DEF Late
    <3>2. IsSeq(<<>>)
      BY SMTT(30) DEF IsSeq
    <3>3. IsSeq(<<x.req>>)
      BY SeqOne
    <3> QED
      BY <1>0, <3>1, <3>2, <3>3, BuffersOf
  <2>2. TodoOf(y) = (p \o q) \o Append(u, r) /\ TodoOf(x) = (p \o q) \o u
    BY <1>2, <1>3, <1>6 DEF TodoOf
  <2> HIDE DEF p, q, u
  <2> DEFINE w == p \o q
  <2>3. IsSeq(w)
    BY <2>1, SeqCat
  <2> HIDE DEF w
  <2>4. w \o Append(u, r) = Append(w \o u, r)
    BY <2>1, <2>3, CatAppend, SMTT(30)
  <2> QED
    BY <2>2, <2>4 DEF w
<1>9. Linear!Send(c)
  <2>1. oneMap' = oneMap
    BY <1>1 DEF oneMap
  <2>2. /\ oneDb' = [oneDb EXCEPT ![c] = y.db] /\ oneTodo' = [oneTodo EXCEPT ![c] = TodoOf(y)]
        /\ oneReplies' = [oneReplies EXCEPT ![c] = RepliesOf(y)]
    BY <1>1, OneChange DEF IInv
  <2>3. oneDb' = oneDb /\ oneReplies' = oneReplies
    <3>1. oneDb = [b \in Conns |-> oneDb[b]] /\ oneReplies = [b \in Conns |-> oneReplies[b]]
      BY DEF oneDb, oneReplies
    <3>2. oneDb[c] = y.db /\ oneReplies[c] = RepliesOf(y)
      BY <1>3, <1>7 DEF oneDb, oneReplies, x
    <3> QED
      BY <2>2, <3>1, <3>2
  <2>4. oneTodo' = [oneTodo EXCEPT ![c] = Append(oneTodo[c], r)]
    BY <1>0, <1>8, <2>2
  <2> QED
    BY <2>1, <2>3, <2>4 DEF Linear!Send
<1> QED
  BY <1>5, <1>9 DEF Sim, Linear!Next

(* A read moves requests from the socket to the buffer, in their order. *)
LEMMA ReadSim ==
  ASSUME OneShardCommands, IInv, LinearInv, NEW c \in Conns, Read(c)
  PROVE  Sim
<1> DEFINE x == conn[c]
<1>0. conn = [b \in Conns |-> conn[b]] /\ Record(x) /\ LiveConn(x) /\ Buffers(x)
  BY ConnFacts
<1>1. PICK n \in 1 .. Len(x.sock) :
        conn' = [conn EXCEPT ![c].state = "parsing", ![c].read_buf = SubSeq(x.sock, 1, n),
                             ![c].sock = SubSeq(@, n + 1, Len(@))]
  BY DEF Read
<1> DEFINE p == SubSeq(x.sock, 1, n)
           q == SubSeq(x.sock, n + 1, Len(x.sock))
           y == [x EXCEPT !.state = "parsing", !.read_buf = p, !.sock = q]
<1>2. Changes(c, y)
  BY <1>0, <1>1 DEF Record, ConnFields, Changes
<1>3. x.state = "reading" /\ UNCHANGED <<boot, alive, connq, crossq, control, panics, store>>
  BY DEF Read
<1>4. x.read_buf = <<>> /\ x.sock \in Seq(Requests)
  BY <1>0, <1>3 DEF LiveConn, OpenConn, Buffers
<1>5. p \o q = x.sock /\ p \in Seq(Requests) /\ q \in Seq(Requests)
  <2> DEFINE u == x.sock
  <2>1. u \in Seq(Requests) /\ Len(u) \in Nat /\ n \in 1 .. Len(u)
    BY <1>4, SMTT(30)
  <2> HIDE DEF u
  <2>2. 1 \in 1 .. Len(u) + 1 /\ n \in 1 - 1 .. Len(u) /\ Len(u) \in n .. Len(u)
    BY <2>1, SMTT(30)
  <2>3. SubSeq(u, 1, n) \o SubSeq(u, n + 1, Len(u)) = SubSeq(u, 1, Len(u))
    BY <2>1, <2>2, SMTT(30)
  <2>4. SubSeq(u, 1, Len(u)) = u
    BY <2>1, SMTT(30)
  <2>5. SubSeq(u, 1, n) \in Seq(Requests) /\ SubSeq(u, n + 1, Len(u)) \in Seq(Requests)
    BY <2>1, SMTT(30)
  <2> QED
    BY <2>3, <2>4, <2>5 DEF u
<1> HIDE DEF p, q
<1>6. /\ y.state = "parsing" /\ y.read_buf = p /\ y.sock = q /\ y.db = x.db /\ y.gone = x.gone
      /\ y.got = x.got /\ y.write_buf = x.write_buf
  BY <1>0 DEF Record, ConnFields
<1> HIDE DEF x, y
<1>7. Buffers(y) /\ LiveConn(y) /\ StillQueued(x, y) /\ StillWaiting(x, y)
  BY <1>0, <1>3, <1>5, <1>6 DEF Buffers, LiveConn, OpenConn, StillQueued, StillWaiting
<1>8. TodoOf(y) = p \o q /\ RepliesOf(y) = y.got \o y.write_buf
  BY <1>6, <1>7, IdleView
<1>9. TodoOf(x) = <<>> \o x.sock /\ RepliesOf(x) = x.got \o x.write_buf
  BY <1>0, <1>3, <1>4, IdleView
<1>10. <<>> \o x.sock = x.sock
  BY <1>4, SMTT(30)
<1>11. Same(x, y)
  BY <1>5, <1>6, <1>8, <1>9, <1>10 DEF Same
<1> QED
  BY <1>2, <1>3, <1>7, <1>11, Stutters DEF x

(* Writing the replies changes nothing: the client gets them in order. *)
LEMMA FlushSim ==
  ASSUME OneShardCommands, IInv, LinearInv, NEW c \in Conns, Flush(c)
  PROVE  Sim
<1> DEFINE x == conn[c]
           g == x.got \o x.write_buf
           y == [x EXCEPT !.state = "reading", !.write_buf = <<>>, !.got = g]
<1>0. conn = [b \in Conns |-> conn[b]] /\ Record(x) /\ LiveConn(x) /\ Buffers(x) /\ x.gone = FALSE
  BY ConnFacts
<1>1. /\ x.state = "parsing" /\ x.read_buf = <<>>
      /\ UNCHANGED <<boot, alive, connq, crossq, control, panics, store>>
  BY DEF Flush
<1>2. conn' = [conn EXCEPT ![c].state = "reading", ![c].write_buf = <<>>, ![c].got = @ \o x.write_buf]
  BY <1>0 DEF Flush
<1>3. Changes(c, y)
  BY <1>0, <1>2 DEF Record, ConnFields, Changes
<1>4. IsSeq(g) /\ IsSeq(<<>>)
  <2>1. IsSeq(g)
    BY <1>0, SeqCat DEF Buffers
  <2>2. IsSeq(<<>>)
    BY SMTT(30) DEF IsSeq
  <2> QED
    BY <2>1, <2>2
<1> HIDE DEF g
<1>5. /\ y.state = "reading" /\ y.read_buf = x.read_buf /\ y.sock = x.sock /\ y.db = x.db /\ y.gone = x.gone
      /\ y.got = g /\ y.write_buf = <<>>
  BY <1>0 DEF Record, ConnFields
<1> HIDE DEF x, y
<1>6. Buffers(y) /\ LiveConn(y) /\ StillQueued(x, y) /\ StillWaiting(x, y)
  BY <1>0, <1>1, <1>4, <1>5 DEF Buffers, LiveConn, OpenConn, StillQueued, StillWaiting
<1>7. TodoOf(y) = y.read_buf \o y.sock /\ RepliesOf(y) = g \o <<>>
  BY <1>5, <1>6, IdleView
<1>8. TodoOf(x) = x.read_buf \o x.sock /\ RepliesOf(x) = g
  BY <1>0, <1>1, IdleView DEF g
<1>9. g \o <<>> = g
  BY <1>4, SeqEmpty
<1>10. Same(x, y)
  BY <1>5, <1>7, <1>8, <1>9 DEF Same
<1> QED
  BY <1>1, <1>3, <1>6, <1>10, Stutters DEF x

(* The answer of the other shard is the reply that exists since it ran. *)
LEMMA GatherSim ==
  ASSUME OneShardCommands, IInv, LinearInv, NEW c \in Conns, Gather(c)
  PROVE  Sim
<1> DEFINE x == conn[c]
           m == Merge(x.req, x.home, x.part)
           y == [x EXCEPT !.state = "parsing", !.req = NoRequest, !.part = NoParts,
                          !.write_buf = Append(@, m)]
<1>0. conn = [b \in Conns |-> conn[b]] /\ Record(x) /\ LiveConn(x) /\ Buffers(x)
  BY ConnFacts
<1>1. /\ x.state = "waiting" /\ \A s \in Shards : x.part[s] \notin {Unsent, Sent}
      /\ UNCHANGED <<boot, alive, connq, crossq, control, panics, store>>
  BY DEF Gather
<1>2. Changes(c, y)
  <2>1. conn' = [conn EXCEPT ![c].state = "parsing", ![c].req = NoRequest, ![c].part = NoParts,
                             ![c].write_buf = Append(@, m)]
    BY DEF Gather
  <2> HIDE DEF m
  <2> QED
    BY <1>0, <2>1 DEF Changes, Record, ConnFields
<1> HIDE DEF m
<1>3. /\ y.state = "parsing" /\ y.read_buf = x.read_buf /\ y.sock = x.sock /\ y.db = x.db /\ y.gone = x.gone
      /\ y.got = x.got /\ y.write_buf = Append(x.write_buf, m)
  BY <1>0 DEF Record, ConnFields
<1> HIDE DEF x, y
<1>4. Ran(x)
  <2>1. PICK s \in Shards : Waits(x, s)
    BY <1>0, <1>1 DEF LiveConn
  <2> QED
    BY <1>1, <2>1 DEF Waits, Ran
<1>5. IsSeq(x.got) /\ IsSeq(x.write_buf)
  BY <1>0 DEF Buffers
<1>6. IsSeq(Append(x.write_buf, m)) /\ x.got \o Append(x.write_buf, m) = Append(x.got \o x.write_buf, m)
  <2> DEFINE p == x.got
             q == x.write_buf
  <2>1. IsSeq(p) /\ IsSeq(q)
    BY <1>5
  <2> HIDE DEF p, q
  <2>2. IsSeq(Append(q, m))
    BY <2>1, SeqAppend
  <2>3. p \o Append(q, m) = Append(p \o q, m)
    BY <2>1, CatAppend, SMTT(30)
  <2> QED
    BY <2>2, <2>3 DEF p, q
<1>7. Buffers(y) /\ LiveConn(y) /\ StillQueued(x, y) /\ StillWaiting(x, y)
  BY <1>0, <1>1, <1>3, <1>6 DEF Buffers, LiveConn, OpenConn, StillQueued, StillWaiting
<1>8. TodoOf(y) = y.read_buf \o y.sock /\ RepliesOf(y) = y.got \o y.write_buf
  BY <1>3, <1>7, IdleView
<1>9. TodoOf(x) = x.read_buf \o x.sock /\ RepliesOf(x) = Append(x.got \o x.write_buf, m)
  BY <1>0, <1>1, <1>4, WaitView DEF m
<1>10. Same(x, y)
  BY <1>3, <1>6, <1>8, <1>9 DEF Same
<1> QED
  BY <1>1, <1>2, <1>7, <1>10, Stutters DEF x

(* y is x with its first request answered by rep. *)
AnsweredBy(x, y, rep) ==
  /\ x.state = "parsing" /\ x.read_buf # <<>> /\ y.state = "parsing" /\ y.gone = x.gone
  /\ y.read_buf = Tail(x.read_buf) /\ y.sock = x.sock
  /\ y.got = x.got /\ y.write_buf = Append(x.write_buf, rep)

LEMMA AnswerNow ==
  ASSUME NEW x, NEW y, NEW rep, Buffers(x), LiveConn(x), AnsweredBy(x, y, rep)
  PROVE  /\ TodoOf(x) # <<>> /\ Head(TodoOf(x)) = Head(x.read_buf) /\ Head(x.read_buf) \in Requests
         /\ Answers(x, y, rep) /\ LiveConn(y) /\ StillQueued(x, y) /\ StillWaiting(x, y)
<1> DEFINE p == x.read_buf
           q == x.sock
           g == x.got
           w == x.write_buf
<1>1. /\ p \in Seq(Requests) /\ q \in Seq(Requests) /\ IsSeq(g) /\ IsSeq(w) /\ p # <<>>
      /\ y.read_buf = Tail(p) /\ y.sock = q /\ y.got = g /\ y.write_buf = Append(w, rep)
  BY DEF Buffers, AnsweredBy
<1>2. TodoOf(x) = p \o q /\ RepliesOf(x) = g \o w
  BY IdleView DEF AnsweredBy
<1> HIDE DEF p, q, g, w
<1>3. Tail(p) \in Seq(Requests) /\ Head(p) \in Requests /\ IsSeq(p) /\ IsSeq(q)
  BY <1>1, SMTT(30) DEF IsSeq
<1>4. p \o q # <<>> /\ Head(p \o q) = Head(p) /\ Tail(p \o q) = Tail(p) \o q
  BY <1>1, <1>3, SeqCat
<1>5. IsSeq(Append(w, rep))
  BY <1>1, SeqAppend
<1>6. g \o Append(w, rep) = Append(g \o w, rep)
  BY <1>1, CatAppend, SMTT(30)
<1>7. Buffers(y)
  BY <1>1, <1>3, <1>5 DEF Buffers
<1>8. LiveConn(y) /\ StillQueued(x, y) /\ StillWaiting(x, y)
  BY <1>7 DEF LiveConn, OpenConn, StillQueued, StillWaiting, AnsweredBy, Buffers
<1>9. TodoOf(y) = y.read_buf \o y.sock /\ RepliesOf(y) = y.got \o y.write_buf
  BY <1>7, IdleView DEF AnsweredBy
<1>10. TodoOf(y) = Tail(TodoOf(x))
  BY <1>1, <1>2, <1>4, <1>9
<1>11. RepliesOf(y) = Append(RepliesOf(x), rep)
  BY <1>1, <1>2, <1>6, <1>9
<1>12. TodoOf(x) # <<>> /\ Head(TodoOf(x)) = Head(x.read_buf)
  BY <1>2, <1>4 DEF p
<1> QED
  BY <1>3, <1>8, <1>10, <1>11, <1>12 DEF Answers, p

LEMMA RespondIs ==
  ASSUME NEW x, NEW rep, Record(x), x.state = "parsing", x.read_buf # <<>>
  PROVE  AnsweredBy(x, Respond(x, rep), rep) /\ Respond(x, rep).db = x.db
BY DEF Respond, AnsweredBy, Record, ConnFields

(* SELECT selects a database, or answers that there is none. *)
LEMMA SelectSim ==
  ASSUME OneShardCommands, IInv, LinearInv, NEW c \in Conns, handle_select(c)
  PROVE  Sim
<1> DEFINE x == conn[c]
           r == Head(x.read_buf)
<1>0. /\ conn = [b \in Conns |-> conn[b]] /\ Record(x) /\ LiveConn(x) /\ Buffers(x)
      /\ oneTodo[c] = TodoOf(x) /\ oneDb[c] = x.db
  BY ConnFacts
<1>1. /\ x.state = "parsing" /\ x.read_buf # <<>> /\ r.op = "SELECT"
      /\ UNCHANGED <<boot, alive, connq, crossq, control, panics, store>>
  BY DEF handle_select, Parsing
<1>2. oneMap' = oneMap
  BY <1>1 DEF oneMap
<1>3. ASSUME NEW y, NEW rep, Changes(c, y), AnsweredBy(x, y, rep)
      PROVE  /\ LinearInv' /\ oneTodo[c] # <<>> /\ Head(oneTodo[c]) = r /\ Linear!Reply(c, rep)
             /\ oneDb' = [oneDb EXCEPT ![c] = y.db]
  <2>1. /\ TodoOf(x) # <<>> /\ Head(TodoOf(x)) = Head(x.read_buf)
        /\ Answers(x, y, rep) /\ LiveConn(y) /\ StillQueued(x, y) /\ StillWaiting(x, y)
    BY <1>0, <1>3, AnswerNow
  <2> HIDE DEF x
  <2>2. LinearInv'
    BY <1>1, <1>3, <2>1, LinearConn DEF x
  <2>3. Replied(c, rep)
    BY <1>3, <2>1, AnswersView DEF x, IInv
  <2>4. oneDb' = [oneDb EXCEPT ![c] = y.db]
    BY <1>3, OneChange DEF IInv
  <2> QED
    BY <1>0, <2>1, <2>2, <2>3, <2>4 DEF Replied, Linear!Reply
<1>4. Linear!Ok = Ok /\ \A e : Linear!Err(e) = Err(e)
  BY DEF Linear!Ok, Linear!Err, Ok, Err
<1>5. CASE r.db \in DBs
  <2> DEFINE z == [x EXCEPT !.db = r.db]
             y == Respond(z, Ok)
  <2>1. Changes(c, y)
    BY <1>5 DEF handle_select, Changes
  <2>2. /\ Record(z) /\ z.db = r.db /\ z.state = x.state /\ z.read_buf = x.read_buf /\ z.gone = x.gone
        /\ z.sock = x.sock /\ z.got = x.got /\ z.write_buf = x.write_buf
    BY <1>0 DEF Record, ConnFields
  <2> HIDE DEF z, x
  <2>3. AnsweredBy(z, y, Ok) /\ y.db = r.db
    BY <1>1, <2>2, RespondIs
  <2>4. AnsweredBy(x, y, Ok)
    BY <2>2, <2>3 DEF AnsweredBy
  <2> HIDE DEF y
  <2>5. /\ LinearInv' /\ oneTodo[c] # <<>> /\ Head(oneTodo[c]) = r /\ Linear!Reply(c, Ok)
        /\ oneDb' = [oneDb EXCEPT ![c] = r.db]
    BY <1>3, <2>1, <2>3, <2>4
  <2> HIDE DEF r
  <2>6. Linear!Do(c)
    BY <1>1, <1>2, <1>4, <1>5, <2>5 DEF Linear!Do
  <2> QED
    BY <2>5, <2>6, DoesOne
<1>6. CASE r.db \notin DBs
  <2> DEFINE e == Err("DB index is out of range")
             y == Respond(x, e)
  <2>1. Changes(c, y)
    BY <1>6 DEF handle_select, Changes
  <2> HIDE DEF e, x
  <2>2. AnsweredBy(x, y, e) /\ y.db = x.db
    BY <1>0, <1>1, RespondIs
  <2> HIDE DEF y
  <2>3. /\ LinearInv' /\ oneTodo[c] # <<>> /\ Head(oneTodo[c]) = r /\ Linear!Reply(c, e)
        /\ oneDb' = [oneDb EXCEPT ![c] = x.db]
    BY <1>3, <2>1, <2>2
  <2>4. oneDb' = oneDb
    <3>1. oneDb = [b \in Conns |-> oneDb[b]]
      BY DEF oneDb
    <3> QED
      BY <1>0, <2>3, <3>1
  <2>5. e = Linear!Err("DB index is out of range")
    BY <1>4 DEF e
  <2> HIDE DEF r
  <2>6. Linear!Do(c)
    BY <1>1, <1>2, <1>6, <2>3, <2>4, <2>5 DEF Linear!Do
  <2> QED
    BY <2>3, <2>6, DoesOne
<1> QED
  BY <1>5, <1>6

(* A command runs on the shard of the connection, is refused, or waits to  *)
(* be sent to the shard of its keys.                                       *)
LEMMA DispatchSim ==
  ASSUME OneShardCommands, IInv, LinearInv, NEW c \in Conns, dispatch_command(c)
  PROVE  Sim
<1> DEFINE x == conn[c]
           r == Head(x.read_buf)
           T == Targets(r, x.home)
           part == Parts(x, r)
<1>0. /\ conn = [b \in Conns |-> conn[b]] /\ GoodConn(x) /\ Record(x) /\ LiveConn(x) /\ Buffers(x)
      /\ oneTodo[c] = TodoOf(x) /\ oneDb[c] = x.db /\ x.db \in DBs /\ x.home \in Shards
  BY ConnFacts DEF GoodConn
<1>1. /\ x.state = "parsing" /\ x.read_buf # <<>> /\ r.op # "SELECT"
      /\ UNCHANGED <<boot, alive, connq, crossq, control, panics>>
  BY DEF dispatch_command, Dispatched, Parsing
<1>2. r \in Requests /\ x.read_buf \in Seq(Requests)
  BY <1>0, <1>1, SMTT(30) DEF Buffers
<1>3. ASSUME NEW rep, Changes(c, Respond(x, rep))
      PROVE  /\ LinearInv' /\ oneTodo[c] # <<>> /\ Head(oneTodo[c]) = r /\ Replied(c, rep)
             /\ oneDb' = oneDb
  <2> DEFINE y == Respond(x, rep)
  <2>1. AnsweredBy(x, y, rep) /\ y.db = x.db
    BY <1>0, <1>1, RespondIs
  <2> HIDE DEF y
  <2>2. /\ TodoOf(x) # <<>> /\ Head(TodoOf(x)) = Head(x.read_buf)
        /\ Answers(x, y, rep) /\ LiveConn(y) /\ StillQueued(x, y) /\ StillWaiting(x, y)
    BY <1>0, <2>1, AnswerNow
  <2>3. Changes(c, y)
    BY <1>3 DEF y
  <2> HIDE DEF x
  <2>4. LinearInv'
    BY <1>1, <2>2, <2>3, LinearConn DEF x
  <2>5. Replied(c, rep)
    BY <2>2, <2>3, AnswersView DEF x, IInv
  <2>6. oneDb' = [oneDb EXCEPT ![c] = x.db] /\ oneDb = [b \in Conns |-> oneDb[b]]
    BY <2>1, <2>3, OneChange, SMTT(30) DEF IInv, oneDb
  <2>7. oneDb' = oneDb
    BY <1>0, <2>6
  <2> QED
    BY <1>0, <2>2, <2>4, <2>5, <2>7
<1>4. CASE CrossSlot(r, x.home)
  <2> DEFINE e == Err("CROSSSLOT")
  <2>1. Changes(c, Respond(x, e)) /\ store' = store
    BY <1>4 DEF dispatch_command, Changes
  <2>2. ~CoLocated(r) /\ r.op \in {"MSETNX", "RENAME"}
    BY <1>0, <1>1, <1>2, <1>4, OneTarget, SMTT(30) DEF CrossSlot, SameShard
  <2>3. e = Linear!Err("CROSSSLOT") /\ oneMap' = oneMap
    BY <2>1 DEF Err, Linear!Err, oneMap
  <2> HIDE DEF e, x, r
  <2>4. LinearInv' /\ oneTodo[c] # <<>> /\ Head(oneTodo[c]) = r /\ Replied(c, e) /\ oneDb' = oneDb
    BY <1>3, <2>1
  <2>5. Linear!Reply(c, e)
    BY <2>4 DEF Linear!Reply, Replied
  <2>6. Linear!Do(c)
    BY <2>2, <2>3, <2>4, <2>5 DEF Linear!Do
  <2> QED
    BY <2>4, <2>6, DoesOne
<1>5. CASE ~CrossSlot(r, x.home)
  <2>1. CoLocated(r) /\ 1 \in DOMAIN r.keys
    BY <1>0, <1>1, <1>2, <1>5, OneTarget
  <2>2. PICK s \in Shards : T = {s} /\ \A i \in DOMAIN r.keys : shard(r.keys[i]) = s
    BY <1>0, <1>1, <1>2, <2>1, OneTarget
  <2>3. CASE s = x.home
    <3> DEFINE rep == Answer(store[s], r, x.db, s)
    <3>1. store' = [store EXCEPT ![s] = Effect(store[s], r, x.db, s)]
      BY <1>5, <2>2, <2>3 DEF dispatch_command
    <3>2. /\ \A t \in Shards \ {s} : part[t] = NoPart
          /\ part[s] = Done(rep)
      BY <2>2, <2>3 DEF Parts
    <3>3. Changes(c, Respond(x, Merge(r, x.home, part)))
      BY <1>5, <2>2, <2>3 DEF dispatch_command, Changes
    <3> HIDE DEF part, x, r, T
    <3>4. Merge(r, x.home, part) = rep
      BY <1>1, <1>2, <2>2, <3>2, MergeOne, SMTT(30)
    <3>5. Changes(c, Respond(x, rep))
      BY <3>3, <3>4
    <3> HIDE DEF rep
    <3>6. LinearInv' /\ oneTodo[c] # <<>> /\ Head(oneTodo[c]) = r /\ Replied(c, rep) /\ oneDb' = oneDb
      BY <1>3, <3>5
    <3>7. Replied(c, Answer(store[s], r, oneDb[c], s)) /\ store' = [store EXCEPT ![s] = Effect(store[s], r, oneDb[c], s)]
      BY <1>0, <3>1, <3>6 DEF rep
    <3>8. StoreInv /\ oneDb[c] \in DBs
      BY <1>0 DEF IInv
    <3>9. Linear!Do(c)
      BY <1>1, <1>2, <2>1, <2>2, <3>6, <3>7, <3>8, DoCommand
    <3> QED
      BY <3>6, <3>9, DoesOne
  <2>4. CASE s # x.home
    <3> DEFINE y == [x EXCEPT !.state = "waiting", !.read_buf = Tail(@), !.req = r, !.part = part]
    <3>1. store' = store /\ Changes(c, y)
      BY <1>5, <2>2, <2>4 DEF dispatch_command, Changes
    <3>2. (\A t \in Shards \ {s} : part[t] = NoPart) /\ part[s] = Unsent
      BY <2>2, <2>4 DEF Parts
    <3> HIDE DEF part, r
    <3>3. /\ y.state = "waiting" /\ y.read_buf = Tail(x.read_buf) /\ y.req = r /\ y.part = part
          /\ y.home = x.home /\ y.db = x.db /\ y.gone = x.gone /\ y.sock = x.sock
          /\ y.got = x.got /\ y.write_buf = x.write_buf
      BY <1>0 DEF Record, ConnFields
    <3> HIDE DEF x, y
    <3>4. Waits(y, s)
      BY <1>1, <2>2, <2>4, <3>2, <3>3 DEF Waits, T
    <3>5. ~Ran(y)
      BY <3>2, <3>3, SMTT(30) DEF Ran, NoPart, Unsent
    <3>6. Tail(x.read_buf) \in Seq(Requests)
      BY <1>1, <1>2, SMTT(30)
    <3>7. Buffers(y)
      BY <1>0, <3>3, <3>6 DEF Buffers
    <3>8. LiveConn(y) /\ StillQueued(x, y) /\ StillWaiting(x, y)
      BY <1>0, <1>1, <3>3, <3>4 DEF LiveConn, OpenConn, StillQueued, StillWaiting
    <3>9. TodoOf(y) = First(r, Tail(x.read_buf) \o x.sock) /\ RepliesOf(y) = x.got \o x.write_buf
      BY <3>3, <3>5, <3>7, WaitView
    <3>10. TodoOf(x) = x.read_buf \o x.sock /\ RepliesOf(x) = x.got \o x.write_buf
      BY <1>0, <1>1, IdleView
    <3>11. First(r, Tail(x.read_buf) \o x.sock) = x.read_buf \o x.sock
      <4> DEFINE p == x.read_buf
                 q == x.sock
                 u == Tail(p)
      <4>1. IsSeq(p) /\ IsSeq(q) /\ IsSeq(u) /\ p # <<>> /\ r = Head(p)
        BY <1>0, <1>1, <1>2, <3>6, BuffersOf DEF IsSeq, r
      <4>2. First(r, u) = p
        BY <4>1, FirstOf
      <4> HIDE DEF p, q, u
      <4>3. First(r, u) \o q = First(r, u \o q)
        BY <4>1, FirstCat, SMTT(30)
      <4> QED
        BY <4>2, <4>3 DEF p, q, u
    <3>12. Same(x, y)
      BY <3>3, <3>9, <3>10, <3>11 DEF Same
    <3> QED
      BY <1>1, <3>1, <3>8, <3>12, Stutters DEF x
  <2> QED
    BY <2>3, <2>4
<1> QED
  BY <1>4, <1>5

-----------------------------------------------------------------------------
(* Channels. *)
LEMMA AppendElems ==
  ASSUME NEW S, NEW q \in Seq(S), NEW e \in S
  PROVE  /\ DOMAIN Append(q, e) = DOMAIN q \cup {Len(q) + 1} /\ Len(q) + 1 \notin DOMAIN q
         /\ Append(q, e)[Len(q) + 1] = e /\ \A i \in DOMAIN q : Append(q, e)[i] = q[i]
<1>1. Len(q) \in Nat /\ DOMAIN q = 1 .. Len(q)
  BY SMTT(30)
<1>2. Len(Append(q, e)) = Len(q) + 1 /\ DOMAIN Append(q, e) = 1 .. Len(q) + 1
  BY SMTT(30)
<1>3. Append(q, e)[Len(q) + 1] = e /\ \A i \in DOMAIN q : Append(q, e)[i] = q[i]
  BY <1>1, SMTT(30)
<1> QED
  BY <1>1, <1>2, <1>3, SMTT(30)

LEMMA TailElems ==
  ASSUME NEW S, NEW q \in Seq(S), q # <<>>
  PROVE  /\ 1 \in DOMAIN q /\ Head(q) = q[1]
         /\ \A i \in DOMAIN Tail(q) : i + 1 \in DOMAIN q /\ i + 1 # 1 /\ Tail(q)[i] = q[i + 1] /\ i \in Nat
<1>1. Len(q) \in Nat \ {0} /\ DOMAIN q = 1 .. Len(q)
  BY SMTT(30)
<1>2. Len(Tail(q)) = Len(q) - 1 /\ DOMAIN Tail(q) = 1 .. Len(Tail(q))
  BY SMTT(30)
<1>3. \A i \in 1 .. Len(Tail(q)) : Tail(q)[i] = q[i + 1]
  BY SMTT(30)
<1> QED
  BY <1>1, <1>2, <1>3, SMTT(30)

(* A connection goes to a shard's channel once. *)
LEMMA AcceptSim ==
  ASSUME OneShardCommands, IInv, LinearInv, NEW c \in Conns, Accept(c)
  PROVE  Sim
<1> DEFINE x == conn[c]
           y == [x EXCEPT !.state = "queued", !.home = next]
           q == connq[next]
<1>0. /\ conn = [b \in Conns |-> conn[b]] /\ Record(x) /\ LiveConn(x) /\ Buffers(x) /\ alive = Shards
  BY ConnFacts
<1>1. /\ next \in Shards /\ connq = [s \in Shards |-> connq[s]] /\ q \in Seq(Conns)
  <2>1. next \in Shards /\ connq = [s \in Shards |-> connq[s]]
    BY DEF IInv, QueueInv
  <2>2. q \in Seq({b \in Conns : conn[b].home = next /\ conn[b].state # "new"})
    BY <2>1 DEF IInv, QueueInv
  <2>3. {b \in Conns : conn[b].home = next /\ conn[b].state # "new"} \subseteq Conns
    OBVIOUS
  <2> HIDE DEF q
  <2> QED
    BY <2>1, <2>2, <2>3, SMTT(30)
<1>2. /\ x.state = "new" /\ connq' = [connq EXCEPT ![next] = Append(@, c)]
      /\ conn' = [conn EXCEPT ![c].state = "queued", ![c].home = next]
      /\ UNCHANGED <<boot, alive, crossq, control, store, panics>>
  BY <1>0, <1>1 DEF Accept
<1>3. Changes(c, y)
  BY <1>0, <1>2 DEF Changes
<1>4. /\ y.state = "queued" /\ y.read_buf = x.read_buf /\ y.sock = x.sock /\ y.db = x.db /\ y.gone = x.gone
      /\ y.got = x.got /\ y.write_buf = x.write_buf
  BY <1>0 DEF Record, ConnFields
<1> HIDE DEF x, y
<1>5. Buffers(y) /\ LiveConn(y) /\ StillWaiting(x, y)
  BY <1>0, <1>2, <1>4 DEF Buffers, LiveConn, OpenConn, StillWaiting
<1>6. Same(x, y)
  <2>1. TodoOf(y) = y.read_buf \o y.sock /\ RepliesOf(y) = y.got \o y.write_buf
    BY <1>4, <1>5, IdleView
  <2>2. TodoOf(x) = x.read_buf \o x.sock /\ RepliesOf(x) = x.got \o x.write_buf
    BY <1>0, <1>2, IdleView
  <2> QED
    BY <1>4, <2>1, <2>2 DEF Same
<1>7. CrossOnce'
  BY <1>2, <1>3, <1>5, CrossSame DEF x
<1>8. Undisturbed' /\ \A b \in Conns : LiveConn(conn[b])'
  BY <1>2, <1>3, <1>5, LiveStep
<1>9. QueuedOnce'
  <2>1. conn'[c] = y /\ \A b \in Conns \ {c} : conn'[b] = conn[b]
    BY <1>3, OneChange DEF IInv
  <2>2. connq'[next] = Append(q, c) /\ \A s \in Shards \ {next} : connq'[s] = connq[s]
    BY <1>1, <1>2
  <2>3. \A s \in Shards : \A i \in DOMAIN connq[s] :
          /\ connq[s][i] \in Conns \ {c} /\ conn'[connq[s][i]].state = "queued"
          /\ \A j \in DOMAIN connq[s] : connq[s][j] = connq[s][i] => j = i
    <3>1. \A s \in Shards : \A i \in DOMAIN connq[s] :
            /\ connq[s][i] \in Conns /\ conn[connq[s][i]].state = "queued"
            /\ \A j \in DOMAIN connq[s] : connq[s][j] = connq[s][i] => j = i
      BY QueueElems DEF LinearInv, QueuedOnce
    <3>2. conn[c].state = "new"
      BY <1>2 DEF x
    <3> QED
      BY <2>1, <3>1, <3>2
  <2>4. /\ DOMAIN Append(q, c) = DOMAIN q \cup {Len(q) + 1} /\ Len(q) + 1 \notin DOMAIN q
        /\ Append(q, c)[Len(q) + 1] = c /\ \A i \in DOMAIN q : Append(q, c)[i] = q[i]
    <3> HIDE DEF q
    <3> QED BY <1>1, AppendElems, SMTT(30)
  <2> DEFINE a == Append(q, c)
             n == Len(q) + 1
  <2>5. \A i \in DOMAIN q : /\ q[i] # c /\ conn'[q[i]].state = "queued"
                            /\ \A j \in DOMAIN q : q[j] = q[i] => j = i
    BY <1>1, <2>3
  <2>6. conn'[c].state = "queued"
    BY <1>4, <2>1
  <2>7. ASSUME NEW i \in DOMAIN a
        PROVE  conn'[a[i]].state = "queued" /\ \A j \in DOMAIN a : a[j] = a[i] => j = i
    <3> HIDE DEF q, a, n
    <3>1. /\ DOMAIN a = DOMAIN q \cup {n} /\ n \notin DOMAIN q /\ a[n] = c
          /\ \A k \in DOMAIN q : a[k] = q[k]
      BY <2>4 DEF a, n
    <3>2. CASE i \in DOMAIN q
      BY <2>5, <3>1, <3>2
    <3>3. CASE i = n
      BY <2>5, <2>6, <3>1, <3>3
    <3> QED
      BY <2>7, <3>1, <3>2, <3>3
  <2> HIDE DEF q, a
  <2>8. ASSUME NEW s \in Shards, NEW i \in DOMAIN connq'[s]
        PROVE  /\ conn'[connq'[s][i]].state = "queued"
               /\ \A j \in DOMAIN connq'[s] : connq'[s][j] = connq'[s][i] => j = i
    <3>1. CASE s = next
      BY <2>2, <2>7, <2>8, <3>1 DEF a
    <3>2. CASE s # next
      BY <2>2, <2>3, <2>8, <3>2, SMTT(30)
    <3> QED
      BY <3>1, <3>2
  <2> QED
    BY <2>8 DEF QueuedOnce
<1>10. oneMap' = oneMap /\ oneDb' = oneDb /\ oneTodo' = oneTodo /\ oneReplies' = oneReplies
  <2>1. oneMap' = oneMap
    BY <1>2 DEF oneMap
  <2> QED
    BY <1>3, <1>6, <2>1, SameView DEF IInv, x
<1> QED
  BY <1>7, <1>8, <1>9, <1>10 DEF Sim, LinearInv, Linear!vars

(* The connection at the head of a channel leaves it for good. *)
LEMMA ServeConnSim ==
  ASSUME OneShardCommands, IInv, LinearInv, NEW s \in Shards, ServeConn(s)
  PROVE  Sim
<1> DEFINE q == connq[s]
           c == Head(q)
           x == conn[c]
           y == [x EXCEPT !.state = "reading"]
<1>1. \A t \in Shards : \A i \in DOMAIN connq[t] :
        /\ connq[t][i] \in Conns /\ conn[connq[t][i]].home = t /\ conn[connq[t][i]].state = "queued"
        /\ \A j \in DOMAIN connq[t] : connq[t][j] = connq[t][i] => j = i
  BY QueueElems DEF LinearInv, QueuedOnce
<1>2. /\ q # <<>> /\ conn' = [conn EXCEPT ![c].state = "reading"] /\ connq' = [connq EXCEPT ![s] = Tail(q)]
      /\ UNCHANGED <<boot, alive, crossq, control, store, panics>>
  BY DEF ServeConn
<1>3. /\ 1 \in DOMAIN q /\ c = q[1]
      /\ \A i \in DOMAIN Tail(q) : i + 1 \in DOMAIN q /\ i + 1 # 1 /\ Tail(q)[i] = q[i + 1] /\ i \in Nat
  <2>1. PICK S : q \in Seq(S)
    BY DEF IInv, QueueInv
  <2> HIDE DEF q
  <2> QED
    BY <1>2, <2>1, TailElems
<1>4. c \in Conns /\ x.home = s /\ x.state = "queued"
  BY <1>1, <1>3, SMTT(30)
<1>0. /\ conn = [b \in Conns |-> conn[b]] /\ Record(x) /\ LiveConn(x) /\ Buffers(x)
  BY <1>4, ConnFacts
<1> HIDE DEF c
<1>5. Changes(c, y)
  BY <1>0, <1>2 DEF Changes
<1>6. /\ y.state = "reading" /\ y.read_buf = x.read_buf /\ y.sock = x.sock /\ y.db = x.db /\ y.gone = x.gone
      /\ y.got = x.got /\ y.write_buf = x.write_buf
  BY <1>0 DEF Record, ConnFields
<1> HIDE DEF x, y
<1>7. Buffers(y) /\ LiveConn(y) /\ StillWaiting(x, y)
  BY <1>0, <1>4, <1>6 DEF Buffers, LiveConn, OpenConn, StillWaiting
<1>8. Same(x, y)
  <2>1. TodoOf(y) = y.read_buf \o y.sock /\ RepliesOf(y) = y.got \o y.write_buf
    BY <1>6, <1>7, IdleView
  <2>2. TodoOf(x) = x.read_buf \o x.sock /\ RepliesOf(x) = x.got \o x.write_buf
    BY <1>0, <1>4, IdleView
  <2> QED
    BY <1>6, <2>1, <2>2 DEF Same
<1>9. CrossOnce'
  BY <1>2, <1>4, <1>5, <1>7, CrossSame DEF x
<1>10. Undisturbed' /\ \A b \in Conns : LiveConn(conn[b])'
  BY <1>2, <1>4, <1>5, <1>7, LiveStep
<1>11. QueuedOnce'
  <2>1. \A b \in Conns \ {c} : conn'[b] = conn[b]
    BY <1>4, <1>5, OneChange DEF IInv
  <2>2. connq'[s] = Tail(q) /\ \A t \in Shards \ {s} : connq'[t] = connq[t]
    BY <1>2 DEF IInv, QueueInv
  <2>3. ASSUME NEW i \in DOMAIN Tail(q)
        PROVE  conn'[Tail(q)[i]].state = "queued" /\ \A j \in DOMAIN Tail(q) : Tail(q)[j] = Tail(q)[i] => j = i
    <3>1. Tail(q)[i] \in Conns \ {c} /\ conn[Tail(q)[i]].state = "queued"
      BY <1>1, <1>3, <2>3, SMTT(30)
    <3>2. ASSUME NEW j \in DOMAIN Tail(q), Tail(q)[j] = Tail(q)[i] PROVE j = i
      <4>1. i + 1 = j + 1 /\ i \in Nat /\ j \in Nat
        BY <1>1, <1>3, <2>3, <3>2, SMTT(30)
      <4> QED
        BY <4>1, SMTT(30)
    <3> QED
      BY <2>1, <3>1, <3>2
  <2>4. ASSUME NEW t \in Shards \ {s}, NEW i \in DOMAIN connq[t]
        PROVE  conn'[connq[t][i]].state = "queued" /\ \A j \in DOMAIN connq[t] : connq[t][j] = connq[t][i] => j = i
    <3>1. connq[t][i] # c
      BY <1>1, <1>4, <2>4, SMTT(30) DEF x
    <3> QED
      BY <1>1, <2>1, <2>4, <3>1, SMTT(30)
  <2>5. ASSUME NEW t \in Shards, NEW i \in DOMAIN connq'[t]
        PROVE  /\ conn'[connq'[t][i]].state = "queued"
               /\ \A j \in DOMAIN connq'[t] : connq'[t][j] = connq'[t][i] => j = i
    <3> HIDE DEF q
    <3>1. CASE t = s
      BY <2>2, <2>3, <2>5, <3>1
    <3>2. CASE t # s
      BY <2>2, <2>4, <2>5, <3>2, SMTT(30)
    <3> QED
      BY <3>1, <3>2
  <2> QED
    BY <2>5 DEF QueuedOnce
<1>12. oneMap' = oneMap /\ oneDb' = oneDb /\ oneTodo' = oneTodo /\ oneReplies' = oneReplies
  <2>1. oneMap' = oneMap
    BY <1>2 DEF oneMap
  <2> QED
    BY <1>4, <1>5, <1>8, <2>1, SameView DEF IInv, x
<1> QED
  BY <1>9, <1>10, <1>11, <1>12 DEF Sim, LinearInv, Linear!vars

(* What the channels hold, of which connections. *)
LEMMA CrossElems ==
  ASSUME IInv, LinearInv, NEW s \in Shards, NEW i \in DOMAIN crossq[s]
  PROVE  /\ crossq[s][i].conn \in Conns /\ Pending(crossq[s][i], s)
         /\ \A j \in DOMAIN crossq[s] : crossq[s][j].conn = crossq[s][i].conn => j = i
<1>1. crossq[s][i] \in [conn : Conns, req : Requests, db : DBs]
  BY QueueElems
<1> QED
  BY <1>1 DEF LinearInv, CrossOnce

(* x waits for shard s, whose part of x.part is p. *)
WithPart(x, s, p) == [x EXCEPT !.part[s] = p]

LEMMA PartOf ==
  ASSUME NEW x, GoodConn(x), NEW s \in Shards, NEW p
  PROVE  /\ WithPart(x, s, p).part[s] = p /\ \A t \in Shards \ {s} : WithPart(x, s, p).part[t] = x.part[t]
         /\ \A f \in ConnFields \ {"part"} : WithPart(x, s, p)[f] = x[f]
<1>1. Record(x) /\ x.part = [t \in Shards |-> x.part[t]]
  BY DEF GoodConn
<1> DEFINE new == [x.part EXCEPT ![s] = p]
<1>2. new[s] = p /\ \A t \in Shards \ {s} : new[t] = x.part[t]
  BY <1>1
<1>3. WithPart(x, s, p).part = new /\ \A f \in ConnFields \ {"part"} : WithPart(x, s, p)[f] = x[f]
  BY <1>1 DEF WithPart, Record, ConnFields
<1> QED
  BY <1>2, <1>3

(* x waits for shard s, which has not run its command; y is x after a step *)
(* of that command.                                                        *)
LEMMA WaitStep ==
  ASSUME NEW x, GoodConn(x), LiveConn(x), x.state = "waiting", NEW s \in Shards, x.part[s] \in {Unsent, Sent},
         NEW p, p = Sent \/ p.state = "done"
  PROVE  /\ Waits(x, s) /\ ~Ran(x) /\ LiveConn(WithPart(x, s, p)) /\ Buffers(x) /\ Buffers(WithPart(x, s, p))
         /\ StillQueued(x, WithPart(x, s, p))
<1> DEFINE y == WithPart(x, s, p)
<1>1. /\ y.part[s] = p /\ \A t \in Shards \ {s} : y.part[t] = x.part[t]
      /\ \A f \in ConnFields \ {"part"} : y[f] = x[f]
  BY PartOf, SMTT(30)
<1> HIDE DEF y
<1>2. /\ y.state = x.state /\ y.home = x.home /\ y.req = x.req /\ y.gone = x.gone /\ y.read_buf = x.read_buf
      /\ y.sock = x.sock /\ y.got = x.got /\ y.write_buf = x.write_buf
  BY <1>1 DEF ConnFields
<1>3. Waits(x, s)
  <2>1. PICK t \in Shards : Waits(x, t)
    BY DEF LiveConn
  <2>2. x.part[s] # NoPart
    BY SMTT(30) DEF Unsent, Sent, NoPart
  <2> QED
    BY <2>1, <2>2 DEF Waits
<1>4. ~Ran(x)
  BY <1>3, SMTT(30) DEF Ran, Waits, Unsent, Sent, NoPart
<1>5. Waits(y, s)
  BY <1>1, <1>2, <1>3 DEF Waits
<1>6. LiveConn(y) /\ StillQueued(x, y)
  BY <1>2, <1>5 DEF LiveConn, OpenConn, StillQueued
<1>7. Buffers(x) /\ Buffers(y)
  BY <1>2 DEF GoodConn, LiveConn, OpenConn, Buffers
<1> QED
  BY <1>3, <1>4, <1>6, <1>7 DEF y

(* A command that is sent to its shard is still to run, and is sent once. *)
LEMMA SendPartSim ==
  ASSUME OneShardCommands, IInv, LinearInv, NEW c \in Conns, NEW s \in Shards, SendPart(c, s)
  PROVE  Sim
<1> DEFINE x == conn[c]
           y == WithPart(x, s, Sent)
           q == crossq[s]
<1>0. /\ conn = [b \in Conns |-> conn[b]] /\ GoodConn(x) /\ LiveConn(x) /\ alive = Shards
  BY ConnFacts
<1>1. /\ x.state = "waiting" /\ x.part[s] = Unsent
      /\ crossq' = [crossq EXCEPT ![s] = Append(q, Task(c))]
      /\ conn' = [conn EXCEPT ![c].part[s] = Sent]
      /\ UNCHANGED <<boot, alive, connq, control, store, panics>>
  BY <1>0 DEF SendPart
<1>2. Changes(c, y)
  BY <1>0, <1>1 DEF Changes, WithPart
<1>3. /\ y.part[s] = Sent /\ \A t \in Shards \ {s} : y.part[t] = x.part[t]
      /\ \A f \in ConnFields \ {"part"} : y[f] = x[f]
  BY <1>0, PartOf, SMTT(30)
<1>4. Waits(x, s) /\ ~Ran(x) /\ LiveConn(y) /\ Buffers(x) /\ Buffers(y) /\ StillQueued(x, y)
  BY <1>0, <1>1, WaitStep
<1> HIDE DEF x, y
<1>5. /\ y.state = x.state /\ y.home = x.home /\ y.req = x.req /\ y.gone = x.gone /\ y.read_buf = x.read_buf
      /\ y.sock = x.sock /\ y.got = x.got /\ y.write_buf = x.write_buf /\ y.db = x.db
  BY <1>3 DEF ConnFields
<1>6. Same(x, y)
  <2>1. ~Ran(y)
    BY <1>3, <1>4, SMTT(30) DEF Ran, Sent
  <2>2. TodoOf(y) = First(y.req, y.read_buf \o y.sock) /\ RepliesOf(y) = y.got \o y.write_buf
    BY <1>1, <1>4, <1>5, <2>1, WaitView
  <2>3. TodoOf(x) = First(x.req, x.read_buf \o x.sock) /\ RepliesOf(x) = x.got \o x.write_buf
    BY <1>1, <1>4, WaitView
  <2> QED
    BY <1>5, <2>2, <2>3 DEF Same
<1>7. QueuedOnce' /\ Undisturbed' /\ \A b \in Conns : LiveConn(conn[b])'
  BY <1>1, <1>2, <1>4, QueueSame, LiveStep DEF x
<1>8. CrossOnce'
  <2>1. conn'[c] = y
    BY <1>2, OneChange DEF IInv
  <2> DEFINE m == Task(c)
             a == Append(q, m)
             n == Len(q) + 1
  <2>2. crossq'[s] = a /\ \A t \in Shards \ {s} : crossq'[t] = crossq[t]
    BY <1>1 DEF IInv, QueueInv
  <2>3. /\ DOMAIN a = DOMAIN q \cup {n} /\ n \notin DOMAIN q /\ a[n] = m /\ \A i \in DOMAIN q : a[i] = q[i]
    <3>1. PICK S : q \in Seq(S)
      BY DEF IInv, QueueInv
    <3> HIDE DEF q, m
    <3>2. q \in Seq(S \cup {m}) /\ m \in S \cup {m}
      BY <3>1, SMTT(30)
    <3> QED
      BY <3>2, AppendElems, SMTT(30)
  <2>4. ASSUME NEW t \in Shards, NEW i \in DOMAIN crossq[t]
        PROVE  StillPending(crossq[t][i], t) /\ (t = s => crossq[t][i].conn # c)
    <3> DEFINE k == crossq[t][i]
    <3>1. k.conn \in Conns /\ Pending(k, t)
      BY <2>4, CrossElems
    <3> HIDE DEF k
    <3>2. k.conn = c => x.part[t] = Sent
      BY <3>1 DEF Pending, x
    <3>3. k.conn = c => t # s
      BY <1>1, <3>2, SMTT(30) DEF Unsent, Sent
    <3>4. k.conn = c => y.state = "waiting" /\ y.part[t] = Sent /\ y.req = conn[c].req /\ y.db = conn[c].db
      BY <1>1, <1>3, <1>5, <3>2, <3>3 DEF x
    <3>5. StillPending(k, t)
      BY <1>2, <3>1, <3>4, PendingStep
    <3> QED
      BY <3>3, <3>5 DEF k
  <2>5. StillPending(m, s) /\ m.conn = c
    BY <1>1, <1>3, <1>5, <2>1 DEF StillPending, Task, x
  <2>6. ASSUME NEW i \in DOMAIN a
        PROVE  StillPending(a[i], s) /\ \A j \in DOMAIN a : a[j].conn = a[i].conn => j = i
    <3>1. \A k \in DOMAIN q : /\ StillPending(q[k], s) /\ q[k].conn # c
                               /\ \A j \in DOMAIN q : q[j].conn = q[k].conn => j = k
      BY <2>4, CrossElems
    <3> HIDE DEF q, a, n, m
    <3>2. CASE i \in DOMAIN q
      BY <2>3, <2>5, <3>1, <3>2
    <3>3. CASE i = n
      BY <2>3, <2>5, <3>1, <3>3
    <3> QED
      BY <2>3, <2>6, <3>2, <3>3
  <2> HIDE DEF q, a
  <2>7. ASSUME NEW t \in Shards, NEW i \in DOMAIN crossq'[t]
        PROVE  /\ StillPending(crossq'[t][i], t)
               /\ \A j \in DOMAIN crossq'[t] : crossq'[t][j].conn = crossq'[t][i].conn => j = i
    <3>1. CASE t = s
      BY <2>2, <2>6, <2>7, <3>1
    <3>2. CASE t # s
      BY <2>2, <2>4, <2>7, <3>2, CrossElems
    <3> QED
      BY <3>1, <3>2
  <2> QED
    BY <2>7 DEF CrossOnce, StillPending, Pending, Task
<1>9. oneMap' = oneMap /\ oneDb' = oneDb /\ oneTodo' = oneTodo /\ oneReplies' = oneReplies
  <2>1. oneMap' = oneMap
    BY <1>1 DEF oneMap
  <2> QED
    BY <1>2, <1>6, <2>1, SameView DEF IInv, x
<1> QED
  BY <1>7, <1>8, <1>9 DEF Sim, LinearInv, Linear!vars

(* A command takes effect when its shard takes it from the channel. *)
LEMMA ServeSim ==
  ASSUME OneShardCommands, IInv, LinearInv, NEW s \in Shards, Serve(s)
  PROVE  Sim
<1> DEFINE q == crossq[s]
           m == Head(q)
           c == m.conn
           x == conn[c]
           rep == Answer(store[s], x.req, x.db, s)
           y == WithPart(x, s, Done(rep))
<1>1. /\ q # <<>> /\ crossq' = [crossq EXCEPT ![s] = Tail(q)]
      /\ store' = [store EXCEPT ![s] = Effect(store[s], m.req, m.db, s)]
      /\ conn' = IF x.state = "waiting"
                 THEN [conn EXCEPT ![c].part[s] = Done(Answer(store[s], m.req, m.db, s))] ELSE conn
      /\ UNCHANGED <<boot, alive, connq, control, panics>>
  BY DEF Serve
<1>2. /\ 1 \in DOMAIN q /\ m = q[1]
      /\ \A i \in DOMAIN Tail(q) : i + 1 \in DOMAIN q /\ i + 1 # 1 /\ Tail(q)[i] = q[i + 1] /\ i \in Nat
  <2>1. PICK S : q \in Seq(S)
    BY DEF IInv, QueueInv
  <2> HIDE DEF q
  <2> QED
    BY <1>1, <2>1, TailElems
<1>3. c \in Conns /\ Pending(m, s) /\ \A j \in DOMAIN q : q[j].conn = c => j = 1
  BY <1>2, CrossElems, SMTT(30)
<1>4. x.state = "waiting" /\ x.part[s] = Sent /\ m.req = x.req /\ m.db = x.db
  <2> HIDE DEF m
  <2> QED BY <1>3, SMTT(30) DEF Pending, Task
<1>0. /\ conn = [b \in Conns |-> conn[b]] /\ GoodConn(x) /\ LiveConn(x)
      /\ oneTodo[c] = TodoOf(x) /\ oneDb[c] = x.db /\ x.db \in DBs
  BY <1>3, ConnFacts
<1>5. x.req \in Requests /\ x.home \in Shards
  BY <1>0, <1>4 DEF GoodConn
<1> HIDE DEF m, c
<1>6. Changes(c, y) /\ store' = [store EXCEPT ![s] = Effect(store[s], x.req, x.db, s)]
  <2>1. conn' = [conn EXCEPT ![c].part[s] = Done(rep)]
    BY <1>1, <1>4
  <2> HIDE DEF rep
  <2>2. Changes(c, y)
    BY <1>0, <2>1 DEF Changes, WithPart
  <2> QED
    BY <1>1, <1>4, <2>2
<1>7. /\ y.part[s] = Done(rep) /\ \A t \in Shards \ {s} : y.part[t] = x.part[t]
      /\ \A f \in ConnFields \ {"part"} : y[f] = x[f]
  BY <1>0, PartOf, SMTT(30)
<1>8. Waits(x, s) /\ ~Ran(x) /\ LiveConn(y) /\ Buffers(x) /\ Buffers(y) /\ StillQueued(x, y)
  <2>1. Done(rep).state = "done"
    BY DEF Done
  <2> HIDE DEF rep
  <2> QED
    BY <1>0, <1>4, <2>1, WaitStep
<1> HIDE DEF x, y, rep
<1>9. /\ y.state = x.state /\ y.home = x.home /\ y.req = x.req /\ y.gone = x.gone /\ y.read_buf = x.read_buf
      /\ y.sock = x.sock /\ y.got = x.got /\ y.write_buf = x.write_buf /\ y.db = x.db
  BY <1>7 DEF ConnFields
<1>10. /\ x.req.op # "SELECT" /\ CoLocated(x.req) /\ 1 \in DOMAIN x.req.keys
       /\ \A i \in DOMAIN x.req.keys : shard(x.req.keys[i]) = s
  <2>1. x.req.op # "SELECT" /\ Targets(x.req, x.home) = {s}
    BY <1>8 DEF Waits
  <2>2. ~CrossSlot(x.req, x.home)
    BY <2>1 DEF CrossSlot
  <2>3. CoLocated(x.req)
    BY <1>5, <2>1, <2>2, OneTarget
  <2> QED
    BY <1>5, <2>1, <2>3, OneTarget, SMTT(30)
<1>11. Merge(y.req, y.home, y.part) = rep
  <2>1. (\A t \in Shards \ {s} : y.part[t] = NoPart) /\ y.part[s] = Done(Answer(store[s], x.req, x.db, s))
    BY <1>7, <1>8 DEF Waits, rep
  <2>2. Merge(x.req, x.home, y.part) = Answer(store[s], x.req, x.db, s)
    BY <1>5, <1>10, <2>1, MergeOne, SMTT(30)
  <2> QED
    BY <1>9, <2>2 DEF rep
<1>12. oneTodo[c] # <<>> /\ Head(oneTodo[c]) = x.req /\ Answers(x, y, rep)
  <2>1. Ran(y)
    BY <1>7, SMTT(30) DEF Ran, Done
  <2> DEFINE u == x.read_buf \o x.sock
             g == x.got \o x.write_buf
  <2>2. TodoOf(y) = u /\ RepliesOf(y) = Append(g, rep)
    BY <1>4, <1>8, <1>9, <1>11, <2>1, WaitView
  <2>3. TodoOf(x) = First(x.req, u) /\ RepliesOf(x) = g
    BY <1>4, <1>8, WaitView
  <2>4. IsSeq(u)
    BY <1>8, BuffersOf
  <2> HIDE DEF u, g
  <2>5. First(x.req, u) # <<>> /\ Head(First(x.req, u)) = x.req /\ Tail(First(x.req, u)) = u
    BY <2>4, FirstIs
  <2> QED
    BY <1>0, <2>2, <2>3, <2>5 DEF Answers
<1>13. Linear!Do(c)
  <2>1. Replied(c, rep)
    BY <1>3, <1>6, <1>12, AnswersView DEF IInv, x
  <2>2. oneDb' = oneDb
    <3>1. oneDb' = [oneDb EXCEPT ![c] = y.db] /\ oneDb = [b \in Conns |-> oneDb[b]]
      BY <1>3, <1>6, OneChange DEF IInv, oneDb
    <3> QED
      BY <1>0, <1>9, <3>1
  <2>3. /\ Replied(c, Answer(store[s], x.req, oneDb[c], s))
        /\ store' = [store EXCEPT ![s] = Effect(store[s], x.req, oneDb[c], s)]
    BY <1>0, <1>6, <2>1 DEF rep
  <2>4. StoreInv /\ oneDb[c] \in DBs
    BY <1>0 DEF IInv
  <2> QED
    BY <1>3, <1>5, <1>10, <1>12, <2>2, <2>3, <2>4, DoCommand
<1>14. QueuedOnce' /\ Undisturbed' /\ \A b \in Conns : LiveConn(conn[b])'
  BY <1>1, <1>3, <1>6, <1>8, QueueSame, LiveStep DEF x
<1>15. CrossOnce'
  <2>1. crossq'[s] = Tail(q) /\ \A t \in Shards \ {s} : crossq'[t] = crossq[t]
    BY <1>1 DEF IInv, QueueInv
  <2>2. ASSUME NEW t \in Shards, NEW i \in DOMAIN crossq[t], crossq[t][i].conn # c
        PROVE  StillPending(crossq[t][i], t)
    <3> DEFINE k == crossq[t][i]
    <3>1. k.conn \in Conns /\ Pending(k, t)
      BY <2>2, CrossElems
    <3>2. k.conn # c
      BY <2>2
    <3> HIDE DEF k
    <3>3. StillPending(k, t)
      BY <1>3, <1>6, <3>1, <3>2, PendingStep
    <3> QED
      BY <3>3 DEF k
  <2>3. ASSUME NEW i \in DOMAIN Tail(q)
        PROVE  StillPending(Tail(q)[i], s) /\ \A j \in DOMAIN Tail(q) : Tail(q)[j].conn = Tail(q)[i].conn => j = i
    <3>1. q[i + 1].conn # c
      BY <1>2, <1>3, <2>3
    <3>2. StillPending(Tail(q)[i], s)
      BY <1>2, <2>2, <2>3, <3>1
    <3>3. ASSUME NEW j \in DOMAIN Tail(q), Tail(q)[j].conn = Tail(q)[i].conn PROVE j = i
      <4>1. i + 1 = j + 1 /\ i \in Nat /\ j \in Nat
        BY <1>2, <2>3, <3>3, CrossElems, SMTT(30)
      <4> QED
        BY <4>1, SMTT(30)
    <3> QED
      BY <3>2, <3>3
  <2>4. ASSUME NEW t \in Shards \ {s}, NEW i \in DOMAIN crossq[t]
        PROVE  crossq[t][i].conn # c
    <3>1. SUFFICES ASSUME crossq[t][i].conn = c PROVE FALSE
      OBVIOUS
    <3>2. x.part[t] = Sent
      BY <2>4, <3>1, CrossElems DEF Pending, x
    <3> QED
      BY <1>8, <2>4, <3>2, SMTT(30) DEF Waits, Sent, NoPart
  <2>5. ASSUME NEW t \in Shards, NEW i \in DOMAIN crossq'[t]
        PROVE  /\ StillPending(crossq'[t][i], t)
               /\ \A j \in DOMAIN crossq'[t] : crossq'[t][j].conn = crossq'[t][i].conn => j = i
    <3> HIDE DEF q
    <3>1. CASE t = s
      BY <2>1, <2>3, <2>5, <3>1
    <3>2. CASE t # s
      BY <2>1, <2>2, <2>4, <2>5, <3>2, CrossElems
    <3> QED
      BY <3>1, <3>2
  <2> QED
    BY <2>5 DEF CrossOnce, StillPending, Pending, Task
<1>16. LinearInv'
  BY <1>14, <1>15 DEF LinearInv
<1> QED
  BY <1>3, <1>13, <1>16, DoesOne

-----------------------------------------------------------------------------
LEMMA InitLinear ==
  ASSUME OneShardCommands, Init
  PROVE  LinearInv /\ Linear!Init
<1>1. /\ conn = [c \in Conns |-> NewConn] /\ store = [s \in Shards |-> EmptyStore] /\ alive = Shards /\ panics = 0
      /\ connq = [s \in Shards |-> <<>>] /\ crossq = [s \in Shards |-> <<>>] /\ control = [s \in Shards |-> <<>>]
  BY DEF Init
<1>2. boot = {}
  <2>1. \A s \in Shards : LoadEntries(s) = EmptyStore
    BY DEF LoadEntries, OneShardCommands, EmptyStore, EmptyTable
  <2> QED
    BY <2>1 DEF Init
<1>3. IsSeq(<<>>)
  BY SMTT(30) DEF IsSeq
<1>4. /\ NewConn.state = "new" /\ NewConn.gone = FALSE /\ NewConn.read_buf = <<>> /\ NewConn.sock = <<>>
      /\ NewConn.got = <<>> /\ NewConn.write_buf = <<>> /\ NewConn.db = 0
  BY DEF NewConn
<1>5. LinearInv
  <2>1. LiveConn(NewConn)
    BY <1>3, <1>4 DEF LiveConn, OpenConn
  <2>2. \A c \in Conns : LiveConn(conn[c])
    BY <1>1, <2>1
  <2>3. CrossOnce /\ QueuedOnce
    BY <1>1, SMTT(30) DEF CrossOnce, QueuedOnce
  <2> QED
    BY <1>1, <1>2, <2>2, <2>3 DEF LinearInv, Undisturbed
<1>6. Linear!Init
  <2>1. oneMap = [d \in DBs |-> [k \in Keys |-> Nil]]
    BY <1>1, ShardType DEF oneMap, EmptyStore, EmptyTable
  <2>2. Buffers(NewConn)
    BY <1>3, <1>4, SMTT(30) DEF Buffers
  <2>3. TodoOf(NewConn) = <<>> \o <<>> /\ RepliesOf(NewConn) = <<>> \o <<>>
    BY <1>4, <2>2, IdleView
  <2>4. <<>> \o <<>> = <<>>
    BY <1>3, SeqEmpty
  <2>5. /\ oneTodo = [c \in Conns |-> <<>>] /\ oneReplies = [c \in Conns |-> <<>>] /\ oneDb = [c \in Conns |-> 0]
    BY <1>1, <1>4, <2>3, <2>4 DEF oneTodo, oneReplies, oneDb
  <2> QED
    BY <2>1, <2>5 DEF Linear!Init, Linear!EmptyTable
<1> QED
  BY <1>5, <1>6

(* Every step keeps the invariant and is a step of the one store, or none. *)
LEMMA StepLinear ==
  ASSUME OneShardCommands, IInv, LinearInv, [Next]_vars
  PROVE  Sim
<1>1. MaxPanics = 0 /\ Leavers = {}
  BY DEF OneShardCommands
<1>2. boot = {} /\ panics = 0 /\ \A s \in Shards : control[s] = <<>>
  BY DEF LinearInv, Undisturbed
<1>3. \A c \in Conns : conn[c].gone = FALSE
  BY ConnFacts
<1>4. ASSUME NEW c \in Conns, Parsing(c) PROVE Head(conn[c].read_buf).op \notin {"QUIT", "GARBAGE", "INVALID"}
  <2>1. conn[c].read_buf # <<>> /\ conn[c].read_buf \in Seq(Requests)
    BY <1>4, ConnFacts DEF Parsing, GoodConn
  <2>2. Head(conn[c].read_buf) \in Requests
    BY <2>1, SMTT(30)
  <2> QED
    BY <2>2 DEF OneShardCommands
<1>5. CASE UNCHANGED vars
  <2>1. LinearInv'
    <3>1. /\ boot' = boot /\ alive' = alive /\ panics' = panics /\ control' = control
          /\ conn' = conn /\ crossq' = crossq /\ connq' = connq
      BY <1>5 DEF vars
    <3>2. Undisturbed'
      BY <3>1 DEF LinearInv, Undisturbed
    <3>3. (\A c \in Conns : LiveConn(conn[c]))'
      BY <3>1 DEF LinearInv
    <3>4. CrossOnce'
      BY <3>1 DEF LinearInv, CrossOnce, Pending, Task
    <3>5. QueuedOnce'
      BY <3>1 DEF LinearInv, QueuedOnce
    <3> QED
      BY <3>2, <3>3, <3>4, <3>5 DEF LinearInv
  <2>2. UNCHANGED Linear!vars
    BY <1>5 DEF vars, Linear!vars, oneMap, oneDb, oneTodo, oneReplies
  <2> QED
    BY <2>1, <2>2 DEF Sim
<1>6. ASSUME NEW s \in Shards, SendLoad(s) \/ EventLoop(s) \/ ServePanic(s) PROVE Sim
  <2>1. ~SendLoad(s)
    BY <1>2 DEF SendLoad
  <2>2. ~ServeControl(s)
    BY <1>2 DEF ServeControl
  <2>3. ~ServePanic(s)
    BY <1>1, <1>2, SMTT(30) DEF ServePanic
  <2> QED
    BY <1>6, <2>1, <2>2, <2>3, ServeSim, ServeConnSim DEF EventLoop
<1>7. ASSUME NEW c \in Conns, Accept(c) \/ Client(c) \/ ConnTask(c) \/ DispatchPanic(c) PROVE Sim
  <2>1. ~ClientLeave(c)
    BY <1>1 DEF ClientLeave
  <2>2. ~ReadEof(c)
    BY <1>3 DEF ReadEof
  <2>3. ~CloseConn(c) /\ ~Reject(c)
    BY <1>4 DEF CloseConn, Reject
  <2>4. ~DispatchPanic(c)
    BY <1>1, <1>2, SMTT(30) DEF DispatchPanic
  <2>5. CASE Client(c)
    BY <2>1, <2>5, ClientSendSim DEF Client
  <2>6. CASE ConnTask(c)
    BY <2>2, <2>3, <2>6, ReadSim, FlushSim, SelectSim, DispatchSim, GatherSim DEF ConnTask
  <2> QED
    BY <1>7, <2>4, <2>5, <2>6, AcceptSim
<1>8. ASSUME NEW c \in Conns, NEW s \in Shards, SendPart(c, s) PROVE Sim
  BY <1>8, SendPartSim
<1> QED
  BY <1>5, <1>6, <1>7, <1>8 DEF Next

(* dispatch_command, the channels and the event loops of the shards run    *)
(* commands with keys on one shard as if one store took them one at a      *)
(* time, those of a connection in the order they were sent: nothing is     *)
(* lost, run twice, run in another database or answered out of order.      *)
THEOREM OneShardLinearizable == OneShardCommands => (Spec => ImplementsLinearStore)
<1> SUFFICES ASSUME OneShardCommands PROVE Spec => Linear!Spec
  BY DEF ImplementsLinearStore
<1>1. Init => LinearInv /\ Linear!Init
  BY InitLinear
<1>2. IInv /\ LinearInv /\ [Next]_vars => LinearInv' /\ [Linear!Next]_(Linear!vars)
  BY StepLinear DEF Sim
<1> QED
  BY <1>1, <1>2, InitIInv, StepIInv, PTL DEF Spec, Linear!Spec
=============================================================================
