--------------------------- MODULE ShardSetProofs ----------------------------
(***************************************************************************)
(* Keys stay on their shard, commands are given up only to dead threads,   *)
(* and no connection is served before its shard has loaded: for every      *)
(* number of shards, clients and requests, every hash and every capacity.  *)
(***************************************************************************)
EXTENDS ShardSet, TLAPS

(* The prover of the leaves that name none. *)
USE ZenonT(40)

(* Shard s may run request r: a command that writes keys without selecting *)
(* those of the shard has no others.                                       *)
Safe(r, s) ==
  r.op \in {"SET"} \cup SameShard => \A i \in DOMAIN r.keys : shard(r.keys[i]) = s

(* The databases st of shard s hold its keys only. *)
Owned(st, s) ==
  /\ st = [d \in DBs |-> st[d]]
  /\ \A d \in DBs : st[d] = [k \in Keys |-> st[d][k]]
  /\ \A d \in DBs, k \in Keys : st[d][k] # Nil => shard(k) = s

ConnFields ==
  {"state", "home", "db", "gone", "sent", "sock", "read_buf", "req", "part", "write_buf", "got"}
Record(x) == x = [f \in ConnFields |-> x[f]]

(* A connection: what is waiting to be sent to a shard may run there. *)
GoodConn(x) ==
  /\ Record(x)
  /\ x.part = [s \in Shards |-> x.part[s]]
  /\ x.home \in Shards /\ x.db \in DBs
  /\ x.sock \in Seq(Requests) /\ x.read_buf \in Seq(Requests)
  /\ x.state = "waiting" =>
       x.req \in Requests /\ \A s \in Shards : x.part[s] = Unsent => Safe(x.req, s)

Tasks(s) == {m \in [conn : Conns, req : Requests, db : DBs] : Safe(m.req, s)}

ConnInv ==
  /\ conn = [c \in Conns |-> conn[c]]
  /\ \A c \in Conns : GoodConn(conn[c])

StoreInv ==
  /\ store = [s \in Shards |-> store[s]]
  /\ \A s \in Shards : Owned(store[s], s)

(* Channels: commands that may run where they are queued, one's own part   *)
(* of the RDB file, connections of the shard.  When main still sends Load  *)
(* messages, there is no connection yet.                                   *)
QueueInv ==
  /\ crossq = [s \in Shards |-> crossq[s]] /\ \A s \in Shards : crossq[s] \in Seq(Tasks(s))
  /\ control = [s \in Shards |-> control[s]] /\ \A s \in Shards : control[s] \in Seq({LoadEntries(s)})
  /\ connq = [s \in Shards |-> connq[s]]
  /\ \A s \in Shards : connq[s] \in Seq({c \in Conns : conn[c].home = s /\ conn[c].state # "new"})
  /\ next \in Shards
  /\ \A c \in Conns : conn[c].state # "new" => boot = {}

IInv == ConnInv /\ StoreInv /\ QueueInv /\ FailedMeansDead /\ ServedAfterLoad

-----------------------------------------------------------------------------
(* A hash modulo the number of shards is a shard. *)
LEMMA ShardType == \A k \in Keys : shard(k) \in Shards
<1> SUFFICES ASSUME NEW k \in Keys PROVE shard(k) \in Shards
  OBVIOUS
<1>1. crc32[hash_tag[k]] \in Nat /\ NumShards \in Nat \ {0}
  BY ShardSetAssumption
<1> DEFINE h == crc32[hash_tag[k]]
<1>2. h % NumShards \in 0 .. NumShards - 1
  <2> HIDE DEF h
  <2> QED BY <1>1, SMTT(30) DEF h
<1> QED
  BY <1>2 DEF shard, Shards

(* CROSSSLOT is answered unless all keys of the command are on one shard:  *)
(* what is dispatched may run on each of its target shards.                *)
LEMMA DispatchSafe ==
  ASSUME NEW r \in Requests, NEW home \in Shards, ~CrossSlot(r, home), NEW s \in Targets(r, home)
  PROVE  Safe(r, s)
<1> SUFFICES ASSUME r.op \in {"SET"} \cup SameShard, NEW i \in DOMAIN r.keys
             PROVE  shard(r.keys[i]) = s
  BY DEF Safe
<1> DEFINE T == {shard(r.keys[j]) : j \in DOMAIN r.keys}
<1>1. Targets(r, home) = T
  BY DEF Targets, Global, NoKeys, SameShard
<1>2. r.keys \in Seq(Keys) /\ (r.op = "SET" => Len(r.keys) = 1)
  BY ShardSetAssumption
<1>3. CASE r.op = "SET"
  BY <1>1, <1>2, <1>3, SMTT(30)
<1>4. CASE r.op \in SameShard
  <2>1. shard(r.keys[i]) \in T
    OBVIOUS
  <2> QED
    BY <1>1, <1>4, <2>1 DEF CrossSlot
<1> QED
  BY <1>3, <1>4

(* Whatever a command does to the databases of a shard that may run it,    *)
(* the shard's keys are still its own.                                     *)
LEMMA EffectOwned ==
  ASSUME NEW st, NEW r \in Requests, NEW d \in DBs, NEW s \in Shards, Owned(st, s), Safe(r, s)
  PROVE  Owned(Effect(st, r, d, s), s)
<1> DEFINE P == Part(r, s)
           K == {r.keys[i] : i \in P}
           set == SetAll(st[d], r, P)
<1>1. r.keys \in Seq(Keys) /\ (r.op = "RENAME" => Len(r.keys) = 2)
  BY ShardSetAssumption
<1>2. ASSUME NEW t, t = [k \in Keys |-> t[k]], \A k \in Keys : t[k] # Nil => shard(k) = s
      PROVE  Owned([st EXCEPT ![d] = t], s)
  BY <1>2 DEF Owned
<1>3. \A k \in Keys : st[d][k] # Nil => shard(k) = s
  BY DEF Owned
<1>4. ASSUME r.op \in {"SET", "MSET", "MSETNX"}, NEW k \in Keys, NEW i \in P, r.keys[i] = k
      PROVE  shard(k) = s
  BY <1>4 DEF Part, Safe, Split, Sums, SameShard
<1>5. ASSUME r.op \in {"SET", "MSET", "MSETNX"} PROVE Owned([st EXCEPT ![d] = set], s)
  <2>1. set = [k \in Keys |-> set[k]]
    BY DEF SetAll
  <2>2. ASSUME NEW k \in Keys, set[k] # Nil PROVE shard(k) = s
    <3>1. CASE {i \in P : r.keys[i] = k} = {}
      <4>1. set[k] = st[d][k]
        BY <3>1 DEF SetAll
      <4> QED BY <4>1, <2>2, <1>3
    <3>2. CASE {i \in P : r.keys[i] = k} # {}
      BY <3>2, <1>4, <1>5
    <3> QED BY <3>1, <3>2
  <2> QED BY <2>1, <2>2, <1>2
<1>6. Owned([st EXCEPT ![d] = [k \in Keys |-> IF k \in K THEN Nil ELSE st[d][k]]], s)
  BY <1>2, <1>3
<1>7. ASSUME r.op = "RENAME"
      PROVE  Owned([st EXCEPT ![d] = [st[d] EXCEPT ![r.keys[1]] = Nil, ![r.keys[2]] = st[d][r.keys[1]]]], s)
  <2> DEFINE t == [st[d] EXCEPT ![r.keys[1]] = Nil, ![r.keys[2]] = st[d][r.keys[1]]]
  <2>1. shard(r.keys[2]) = s
    BY <1>1, <1>7, SMTT(30) DEF Safe, SameShard
  <2>2. st[d] = [k \in Keys |-> st[d][k]]
    BY DEF Owned
  <2>3. t = [k \in Keys |-> t[k]]
    BY <2>2
  <2>4. \A k \in Keys : t[k] # Nil => shard(k) = s
    BY <1>3, <2>1, <2>2
  <2> QED BY <1>2, <2>3, <2>4
<1>8. Owned([st EXCEPT ![d] = EmptyTable], s) /\ Owned(EmptyStore, s)
  <2>1. Owned([st EXCEPT ![d] = EmptyTable], s)
    BY <1>2 DEF EmptyTable
  <2>2. Owned(EmptyStore, s)
    BY DEF Owned, EmptyStore, EmptyTable
  <2> QED BY <2>1, <2>2
<1> HIDE DEF P, K, set
<1>9. CASE r.op \in {"SET", "MSET"}
  <2>1. Effect(st, r, d, s) = [st EXCEPT ![d] = set]
    BY <1>9 DEF Effect, P, set
  <2> QED BY <1>5, <1>9, <2>1
<1>10. CASE r.op = "MSETNX"
  <2>1. Effect(st, r, d, s) = [st EXCEPT ![d] = set] \/ Effect(st, r, d, s) = st
    BY <1>10 DEF Effect, P, set
  <2> QED BY <1>5, <1>10, <2>1
<1>11. CASE r.op = "DEL"
  <2>1. Effect(st, r, d, s) = [st EXCEPT ![d] = [k \in Keys |-> IF k \in K THEN Nil ELSE st[d][k]]]
    BY <1>11 DEF Effect, P, K
  <2> QED BY <1>6, <2>1
<1>12. CASE r.op = "RENAME"
  <2>1. \/ Effect(st, r, d, s) = st
        \/ Effect(st, r, d, s) =
             [st EXCEPT ![d] = [st[d] EXCEPT ![r.keys[1]] = Nil, ![r.keys[2]] = st[d][r.keys[1]]]]
    BY <1>12 DEF Effect
  <2> QED BY <1>7, <1>12, <2>1
<1>13. CASE r.op \in {"FLUSHDB", "FLUSHALL"}
  <2>1. Effect(st, r, d, s) = [st EXCEPT ![d] = EmptyTable] \/ Effect(st, r, d, s) = EmptyStore
    BY <1>13 DEF Effect
  <2> QED BY <1>8, <2>1
<1>14. CASE r.op \notin {"SET", "MSET", "MSETNX", "DEL", "RENAME", "FLUSHDB", "FLUSHALL"}
  <2>1. Effect(st, r, d, s) = st
    BY <1>14 DEF Effect
  <2> QED BY <2>1
<1> QED
  BY <1>9, <1>10, <1>11, <1>12, <1>13, <1>14

-----------------------------------------------------------------------------
(* At first there is nothing but Load messages to send. *)
LEMMA InitIInv == Init => IInv
<1> SUFFICES ASSUME Init PROVE IInv
  OBVIOUS
<1>1. 0 \in Shards /\ 0 \in DBs
  BY ShardSetAssumption, SMTT(30) DEF Shards
<1>2. GoodConn(NewConn)
  <2>1. Record(NewConn)
    BY DEF Record, ConnFields, NewConn
  <2>2. NoParts = [s \in Shards |-> NoParts[s]]
    BY DEF NoParts
  <2> QED BY <1>1, <2>1, <2>2, SMTT(30) DEF GoodConn, NewConn
<1>3. ConnInv
  BY <1>2 DEF ConnInv, Init
<1>4. StoreInv
  BY DEF StoreInv, Init, Owned, EmptyStore, EmptyTable
<1>5. \A c \in Conns : conn[c].state = "new" /\ \A s \in Shards : conn[c].part[s] # Failed
  BY DEF Init, NewConn, NoParts, NoPart, Failed
<1>6. QueueInv
  BY <1>1, <1>5, SMTT(30) DEF QueueInv, Init
<1>7. FailedMeansDead /\ ServedAfterLoad
  BY <1>5 DEF FailedMeansDead, ServedAfterLoad
<1> QED
  BY <1>3, <1>4, <1>6, <1>7 DEF IInv

Serving(x) == x.state \in {"reading", "parsing", "waiting"}

(* A step that changes one connection, which is not new, and perhaps the   *)
(* cross-shard channels and the databases.                                 *)
LEMMA OneConn ==
  ASSUME IInv, NEW c \in Conns, NEW y, GoodConn(y),
         conn' = [conn EXCEPT ![c] = y],
         conn[c].state # "new", y.state # "new", y.home = conn[c].home,
         Serving(y) => Serving(conn[c]),
         \A s \in Shards : y.part[s] = Failed => s \notin alive,
         UNCHANGED <<boot, next, alive, connq, control>>,
         crossq' = [s \in Shards |-> crossq'[s]], \A s \in Shards : crossq'[s] \in Seq(Tasks(s)),
         StoreInv'
  PROVE  IInv'
<1>1. conn'[c] = y /\ \A b \in Conns \ {c} : conn'[b] = conn[b]
  BY DEF IInv, ConnInv
<1>2. ConnInv'
  BY <1>1 DEF IInv, ConnInv
<1>3. ASSUME NEW s \in Shards
      PROVE  connq'[s] \in Seq({b \in Conns : conn'[b].home = s /\ conn'[b].state # "new"})
  <2>1. {b \in Conns : conn[b].home = s /\ conn[b].state # "new"}
        = {b \in Conns : conn'[b].home = s /\ conn'[b].state # "new"}
    BY <1>1
  <2> QED BY <2>1 DEF IInv, QueueInv
<1>4. \A b \in Conns : conn'[b].state # "new" => boot' = {}
  BY <1>1 DEF IInv, QueueInv
<1>5. QueueInv'
  BY <1>3, <1>4 DEF IInv, QueueInv
<1>6. FailedMeansDead'
  BY <1>1 DEF IInv, FailedMeansDead
<1>7. ServedAfterLoad'
  BY <1>1, SMTT(30) DEF IInv, ServedAfterLoad, Serving
<1> QED
  BY <1>2, <1>5, <1>6, <1>7 DEF IInv

(* ... which leaves channels and databases alone. *)
LEMMA ConnOnly ==
  ASSUME IInv, NEW c \in Conns, NEW y, GoodConn(y),
         conn' = [conn EXCEPT ![c] = y],
         conn[c].state # "new", y.state # "new", y.home = conn[c].home,
         Serving(y) => Serving(conn[c]),
         \A s \in Shards : y.part[s] = Failed => s \notin alive,
         UNCHANGED <<boot, next, alive, connq, crossq, control, store>>
  PROVE  IInv'
<1>1. StoreInv'
  BY DEF IInv, StoreInv
<1>2. crossq' = [s \in Shards |-> crossq'[s]] /\ \A s \in Shards : crossq'[s] \in Seq(Tasks(s))
  BY DEF IInv, QueueInv
<1> QED
  BY <1>1, <1>2, OneConn

(* A connection that ends waits for nothing. *)
LEMMA ClosedGood ==
  ASSUME NEW x, GoodConn(x)
  PROVE  /\ GoodConn(Closed(x)) /\ Closed(x).state = "closed" /\ Closed(x).home = x.home
         /\ ~Serving(Closed(x)) /\ \A s \in Shards : Closed(x).part[s] # Failed
<1>0. Record(Closed(x))
  BY DEF GoodConn, Record, ConnFields, Closed
<1>1. /\ Closed(x).state = "closed" /\ Closed(x).home = x.home /\ Closed(x).db = x.db
      /\ Closed(x).sock = <<>> /\ Closed(x).read_buf = <<>> /\ Closed(x).part = NoParts
  BY DEF GoodConn, Record, ConnFields, Closed
<1>2. NoParts = [s \in Shards |-> NoParts[s]] /\ \A s \in Shards : NoParts[s] # Failed
  BY DEF NoParts, NoPart, Failed
<1>3. x.home \in Shards /\ x.db \in DBs /\ <<>> \in Seq(Requests)
  BY SMTT(30) DEF GoodConn
<1> QED
  BY <1>0, <1>1, <1>2, <1>3 DEF GoodConn, Serving

(* A request that is answered at once. *)
LEMMA RespondGood ==
  ASSUME NEW x, GoodConn(x), x.read_buf # <<>>, NEW reply
  PROVE  /\ GoodConn(Respond(x, reply)) /\ Respond(x, reply).state = x.state
         /\ Respond(x, reply).home = x.home /\ Respond(x, reply).part = x.part
<1>1. Tail(x.read_buf) \in Seq(Requests)
  BY SMTT(30) DEF GoodConn
<1>2. Record(Respond(x, reply))
  BY DEF GoodConn, Record, ConnFields, Respond
<1>3. /\ Respond(x, reply).read_buf = Tail(x.read_buf)
      /\ \A f \in ConnFields \ {"read_buf", "write_buf"} : Respond(x, reply)[f] = x[f]
  BY DEF GoodConn, Record, ConnFields, Respond
<1> QED
  BY <1>1, <1>2, <1>3 DEF GoodConn, ConnFields

-----------------------------------------------------------------------------
(* The steps of a connection task and of its client. *)

(* ClientSend, ClientLeave, Read, ReadEof and Flush change the buffers. *)
LEMMA BufferSteps ==
  ASSUME IInv, NEW c \in Conns,
         \/ ClientLeave(c) \/ \E r \in Requests : ClientSend(c, r)
         \/ Read(c) \/ ReadEof(c) \/ Flush(c)
  PROVE  IInv'
<1> DEFINE x == conn[c]
<1>1. conn = [b \in Conns |-> conn[b]] /\ GoodConn(x) /\ \A s \in Shards : x.part[s] = Failed => s \notin alive
  BY DEF IInv, ConnInv, FailedMeansDead
<1>2. Record(x) /\ x.sock \in Seq(Requests) /\ x.read_buf \in Seq(Requests)
  BY <1>1 DEF GoodConn
<1>3. CASE ClientLeave(c)
  <2> DEFINE y == [x EXCEPT !.gone = TRUE]
  <2>1. conn' = [conn EXCEPT ![c] = y] /\ x.state # "new"
    BY <1>1, <1>3 DEF ClientLeave, Connected
  <2>2. Record(y) /\ \A f \in ConnFields \ {"gone"} : y[f] = x[f]
    BY <1>2 DEF Record, ConnFields
  <2>3. GoodConn(y) /\ y.state = x.state /\ y.home = x.home /\ y.part = x.part
    BY <1>1, <2>2 DEF GoodConn, ConnFields
  <2>4. UNCHANGED <<boot, next, alive, connq, crossq, control, store>>
    BY <1>3 DEF ClientLeave
  <2> HIDE DEF y, x
  <2> QED BY <1>1, <2>1, <2>3, <2>4, ConnOnly DEF x, Serving
<1>4. ASSUME NEW r \in Requests, ClientSend(c, r) PROVE IInv'
  <2> DEFINE y == [x EXCEPT !.sent = @ + 1, !.sock = Append(@, r)]
  <2>1. conn' = [conn EXCEPT ![c] = y] /\ x.state # "new"
    BY <1>1, <1>4 DEF ClientSend, Connected
  <2>2. Record(y) /\ y.sock = Append(x.sock, r) /\ \A f \in ConnFields \ {"sent", "sock"} : y[f] = x[f]
    BY <1>2 DEF Record, ConnFields
  <2>3. Append(x.sock, r) \in Seq(Requests)
    BY <1>2, SMTT(30)
  <2>4. GoodConn(y) /\ y.state = x.state /\ y.home = x.home /\ y.part = x.part
    BY <1>1, <2>2, <2>3 DEF GoodConn, ConnFields
  <2>5. UNCHANGED <<boot, next, alive, connq, crossq, control, store>>
    BY <1>4 DEF ClientSend
  <2> HIDE DEF y, x
  <2> QED BY <1>1, <2>1, <2>4, <2>5, ConnOnly DEF x, Serving
<1>5. CASE Read(c)
  <2>1. PICK n \in 1 .. Len(x.sock) :
          conn' = [conn EXCEPT ![c].state = "parsing", ![c].read_buf = SubSeq(x.sock, 1, n),
                               ![c].sock = SubSeq(@, n + 1, Len(@))]
    BY <1>5 DEF Read
  <2> DEFINE y == [x EXCEPT !.state = "parsing", !.read_buf = SubSeq(x.sock, 1, n),
                            !.sock = SubSeq(@, n + 1, Len(@))]
  <2>2. conn' = [conn EXCEPT ![c] = y] /\ x.state = "reading"
    BY <1>1, <1>2, <1>5, <2>1 DEF Read, Record, ConnFields
  <2>3. /\ Record(y) /\ y.state = "parsing" /\ y.read_buf = SubSeq(x.sock, 1, n)
        /\ y.sock = SubSeq(x.sock, n + 1, Len(x.sock))
        /\ \A f \in ConnFields \ {"state", "read_buf", "sock"} : y[f] = x[f]
    BY <1>2 DEF Record, ConnFields
  <2>4. SubSeq(x.sock, 1, n) \in Seq(Requests) /\ SubSeq(x.sock, n + 1, Len(x.sock)) \in Seq(Requests)
    BY <1>2, SMTT(30)
  <2>5. GoodConn(y) /\ y.home = x.home /\ y.part = x.part
    BY <1>1, <2>3, <2>4 DEF GoodConn, ConnFields
  <2>6. UNCHANGED <<boot, next, alive, connq, crossq, control, store>>
    BY <1>5 DEF Read
  <2> HIDE DEF y, x
  <2> QED BY <1>1, <2>2, <2>3, <2>5, <2>6, ConnOnly DEF x, Serving
<1>6. ASSUME conn' = [conn EXCEPT ![c] = Closed(@)], x.state # "new",
             UNCHANGED <<boot, next, alive, connq, crossq, control, store>>
      PROVE  IInv'
  <2>1. conn' = [conn EXCEPT ![c] = Closed(x)]
    BY <1>6
  <2> HIDE DEF x
  <2> QED BY <1>1, <1>6, <2>1, ClosedGood, ConnOnly DEF x
<1>7. CASE ReadEof(c)
  BY <1>6, <1>7 DEF ReadEof
<1>8. CASE Flush(c)
  <2> DEFINE y == [x EXCEPT !.state = "reading", !.write_buf = <<>>,
                            !.got = IF x.gone THEN @ ELSE @ \o x.write_buf]
  <2>1. /\ x.state = "parsing" /\ UNCHANGED <<boot, next, alive, connq, crossq, control, store>>
        /\ conn' = [conn EXCEPT ![c] = y] \/ conn' = [conn EXCEPT ![c] = Closed(@)]
    BY <1>1, <1>2, <1>8 DEF Flush, Record, ConnFields
  <2>2. /\ Record(y) /\ y.state = "reading"
        /\ \A f \in ConnFields \ {"state", "write_buf", "got"} : y[f] = x[f]
    BY <1>2 DEF Record, ConnFields
  <2>3. GoodConn(y) /\ y.home = x.home /\ y.part = x.part
    BY <1>1, <2>2 DEF GoodConn, ConnFields
  <2>4. CASE conn' = [conn EXCEPT ![c] = y]
    <3> HIDE DEF y, x
    <3> QED BY <1>1, <2>1, <2>2, <2>3, <2>4, ConnOnly DEF x, Serving
  <2> QED BY <2>1, <2>4, <1>6
<1> QED
  BY <1>3, <1>4, <1>5, <1>7, <1>8

(* CloseConn, Reject and handle_select answer without a handler. *)
LEMMA AnswerSteps ==
  ASSUME IInv, NEW c \in Conns, CloseConn(c) \/ Reject(c) \/ handle_select(c)
  PROVE  IInv'
<1> DEFINE x == conn[c]
           r == Head(x.read_buf)
<1>1. conn = [b \in Conns |-> conn[b]] /\ GoodConn(x) /\ \A s \in Shards : x.part[s] = Failed => s \notin alive
  BY DEF IInv, ConnInv, FailedMeansDead
<1>2. /\ x.state = "parsing" /\ x.read_buf # <<>>
      /\ UNCHANGED <<boot, next, alive, connq, crossq, control, store>>
  BY DEF CloseConn, Reject, handle_select, Parsing
<1>3. ASSUME NEW y, GoodConn(y), conn' = [conn EXCEPT ![c] = y], y.state \in {"parsing", "closed"},
             y.home = x.home, \A s \in Shards : y.part[s] = Failed => x.part[s] = Failed
      PROVE  IInv'
  <2> HIDE DEF x
  <2> QED BY <1>1, <1>2, <1>3, ConnOnly DEF x, Serving
<1>4. ASSUME NEW z, GoodConn(z), z.state = "parsing", z.home = x.home, z.part = x.part, z.read_buf # <<>>,
             NEW reply, conn' = [conn EXCEPT ![c] = Respond(z, reply)]
      PROVE  IInv'
  <2> HIDE DEF x
  <2>1. GoodConn(Respond(z, reply)) /\ Respond(z, reply).state = "parsing"
        /\ Respond(z, reply).home = x.home /\ Respond(z, reply).part = x.part
    BY <1>4, RespondGood
  <2> QED BY <1>3, <1>4, <2>1
<1>5. CASE CloseConn(c)
  <2> DEFINE w == Respond(x, IF r.op = "QUIT" THEN Ok ELSE Err("Protocol error"))
             v == [w EXCEPT !.got = IF w.gone THEN @ ELSE @ \o w.write_buf]
  <2>1. conn' = [conn EXCEPT ![c] = Closed(v)]
    BY <1>5 DEF CloseConn
  <2>2. GoodConn(w) /\ w.home = x.home
    BY <1>1, <1>2, RespondGood
  <2>3. Record(w)
    BY <2>2 DEF GoodConn
  <2> HIDE DEF w, x
  <2>4. Record(v) /\ \A f \in ConnFields \ {"got"} : v[f] = w[f]
    BY <2>3 DEF Record, ConnFields
  <2>5. GoodConn(v) /\ v.home = x.home
    BY <2>2, <2>4 DEF GoodConn, ConnFields
  <2> HIDE DEF v
  <2> QED BY <1>3, <2>1, <2>5, ClosedGood
<1>6. CASE Reject(c)
  <2>1. conn' = [conn EXCEPT ![c] = Respond(x, Err("invalid"))]
    BY <1>6 DEF Reject
  <2> QED BY <1>1, <1>2, <1>4, <2>1
<1>7. CASE handle_select(c)
  <2> DEFINE z == [x EXCEPT !.db = r.db]
  <2>1. CASE r.db \in DBs
    <3>1. conn' = [conn EXCEPT ![c] = Respond(z, Ok)]
      BY <1>7, <2>1 DEF handle_select
    <3>2. Record(x)
      BY <1>1 DEF GoodConn
    <3>3. Record(z) /\ z.db = r.db /\ \A f \in ConnFields \ {"db"} : z[f] = x[f]
      BY <3>2 DEF Record, ConnFields
    <3>4. GoodConn(z) /\ z.state = x.state /\ z.home = x.home /\ z.part = x.part /\ z.read_buf = x.read_buf
      BY <1>1, <2>1, <3>3 DEF GoodConn, ConnFields
    <3> HIDE DEF z, x
    <3> QED BY <1>2, <1>4, <3>1, <3>4
  <2>2. CASE r.db \notin DBs
    <3>1. conn' = [conn EXCEPT ![c] = Respond(x, Err("DB index is out of range"))]
      BY <1>7, <2>2 DEF handle_select
    <3> QED BY <1>1, <1>2, <1>4, <3>1
  <2> QED BY <2>1, <2>2
<1> QED
  BY <1>5, <1>6, <1>7

(* A command is run on the connection's own shard, where it may run, and   *)
(* its other parts wait to be sent to shards where they may run.           *)
LEMMA DispatchStep ==
  ASSUME IInv, NEW c \in Conns, dispatch_command(c)
  PROVE  IInv'
<1> DEFINE x == conn[c]
           r == Head(x.read_buf)
           T == Targets(r, x.home)
           part == Parts(x, r)
           y == [x EXCEPT !.state = "waiting", !.read_buf = Tail(@), !.req = r, !.part = part]
<1>1. conn = [b \in Conns |-> conn[b]] /\ GoodConn(x) /\ \A s \in Shards : x.part[s] = Failed => s \notin alive
  BY DEF IInv, ConnInv, FailedMeansDead
<1>2. /\ x.state = "parsing" /\ x.read_buf # <<>>
      /\ UNCHANGED <<boot, next, alive, connq, crossq, control>>
  BY DEF dispatch_command, Dispatched, Parsing
<1>3. Record(x) /\ x.home \in Shards /\ x.db \in DBs /\ x.read_buf \in Seq(Requests)
  BY <1>1 DEF GoodConn
<1>4. r \in Requests /\ Tail(x.read_buf) \in Seq(Requests)
  BY <1>2, <1>3, SMTT(30)
<1>5. crossq' = [s \in Shards |-> crossq'[s]] /\ \A s \in Shards : crossq'[s] \in Seq(Tasks(s))
  BY <1>2 DEF IInv, QueueInv
<1>6. ASSUME NEW reply, StoreInv', conn' = [conn EXCEPT ![c] = Respond(x, reply)]
      PROVE  IInv'
  <2> HIDE DEF x
  <2>1. GoodConn(Respond(x, reply)) /\ Respond(x, reply).state = "parsing"
        /\ Respond(x, reply).home = x.home /\ Respond(x, reply).part = x.part
    BY <1>1, <1>2, RespondGood
  <2> HIDE DEF Respond
  <2> QED BY <1>1, <1>2, <1>5, <1>6, <2>1, OneConn DEF x, Serving
<1>7. CASE CrossSlot(r, x.home)
  <2>1. conn' = [conn EXCEPT ![c] = Respond(x, Err("CROSSSLOT"))] /\ store' = store
    BY <1>7 DEF dispatch_command
  <2>2. StoreInv'
    BY <2>1 DEF IInv, StoreInv
  <2> QED BY <1>6, <2>1, <2>2
<1>8. CASE ~CrossSlot(r, x.home)
  <2>1. store' = IF x.home \in T THEN [store EXCEPT ![x.home] = Effect(@, r, x.db, x.home)] ELSE store
    BY <1>7, <1>8 DEF dispatch_command
  <2>2. \A s \in T : Safe(r, s)
    BY <1>3, <1>4, <1>8, DispatchSafe
  <2>3. StoreInv'
    <3>1. CASE x.home \in T
      <4>1. Owned(Effect(store[x.home], r, x.db, x.home), x.home)
        BY <1>3, <1>4, <2>2, <3>1, EffectOwned DEF IInv, StoreInv
      <4> HIDE DEF T, r
      <4> QED BY <1>3, <2>1, <3>1, <4>1 DEF IInv, StoreInv
    <3>2. CASE x.home \notin T
      BY <2>1, <3>2 DEF IInv, StoreInv
    <3> QED BY <3>1, <3>2
  <2>4. conn' = [conn EXCEPT ![c] = IF T = {x.home} THEN Respond(x, Merge(r, x.home, part)) ELSE y]
    BY <1>8 DEF dispatch_command
  <2>5. CASE T = {x.home}
    <3>1. conn' = [conn EXCEPT ![c] = Respond(x, Merge(r, x.home, part))]
      BY <2>4, <2>5
    <3> HIDE DEF x, r, part
    <3> QED BY <1>6, <2>3, <3>1
  <2>6. CASE T # {x.home}
    <3>1. conn' = [conn EXCEPT ![c] = y]
      BY <2>4, <2>6
    <3>2. /\ part = [s \in Shards |-> part[s]]
          /\ \A s \in Shards : part[s] = Unsent => s \in T
          /\ \A s \in Shards : part[s] # Failed
      BY DEF Parts, NoPart, Unsent, Done, Failed
    <3> HIDE DEF part, r, T
    <3>3. /\ Record(y) /\ y.state = "waiting" /\ y.read_buf = Tail(x.read_buf) /\ y.req = r /\ y.part = part
          /\ \A f \in ConnFields \ {"state", "read_buf", "req", "part"} : y[f] = x[f]
      BY <1>3 DEF Record, ConnFields
    <3>4. GoodConn(y) /\ y.home = x.home
      BY <1>1, <1>4, <2>2, <3>2, <3>3 DEF GoodConn, ConnFields
    <3> HIDE DEF y, x
    <3> QED BY <1>1, <1>2, <1>5, <2>3, <3>1, <3>2, <3>3, <3>4, OneConn DEF x, Serving
  <2> QED BY <2>5, <2>6
<1> QED
  BY <1>7, <1>8

(* A handler that panics leaves values that were there or were to be. *)
LEMMA DispatchPanicStep ==
  ASSUME IInv, NEW c \in Conns, DispatchPanic(c)
  PROVE  IInv'
<1> DEFINE x == conn[c]
           r == Head(x.read_buf)
           new == Effect(store[x.home], r, x.db, x.home)
<1>1. conn = [b \in Conns |-> conn[b]] /\ GoodConn(x)
  BY DEF IInv, ConnInv
<1>2. /\ x.state = "parsing" /\ x.read_buf # <<>>
      /\ UNCHANGED <<boot, next, alive, connq, crossq, control>>
      /\ conn' = [conn EXCEPT ![c] = Closed(x)]
      /\ x.home \in Targets(r, x.home) /\ ~CrossSlot(r, x.home)
  BY DEF DispatchPanic, Dispatched, Parsing
<1>3. x.home \in Shards /\ x.db \in DBs /\ r \in Requests
  BY <1>1, <1>2, SMTT(30) DEF GoodConn
<1>4. Owned(new, x.home) /\ Owned(store[x.home], x.home)
  BY <1>2, <1>3, DispatchSafe, EffectOwned DEF IInv, StoreInv
<1>5. PICK torn \in Stores :
        /\ \A d \in DBs, k \in Keys : torn[d][k] \in {store[x.home][d][k], new[d][k], Nil}
        /\ store' = [store EXCEPT ![x.home] = torn]
  BY DEF DispatchPanic
<1> HIDE DEF new, r
<1>6. Owned(torn, x.home)
  <2>1. torn = [d \in DBs |-> torn[d]] /\ \A d \in DBs : torn[d] = [k \in Keys |-> torn[d][k]]
    BY DEF Stores, Tables
  <2>2. ASSUME NEW d \in DBs, NEW k \in Keys, torn[d][k] # Nil PROVE shard(k) = x.home
    <3>1. torn[d][k] = store[x.home][d][k] \/ torn[d][k] = new[d][k]
      BY <1>5, <2>2
    <3> QED BY <1>4, <2>2, <3>1, SMTT(30) DEF Owned
  <2> QED BY <2>1, <2>2 DEF Owned
<1>7. StoreInv'
  BY <1>3, <1>5, <1>6 DEF IInv, StoreInv
<1>8. crossq' = [s \in Shards |-> crossq'[s]] /\ \A s \in Shards : crossq'[s] \in Seq(Tasks(s))
  BY <1>2 DEF IInv, QueueInv
<1> HIDE DEF x
<1> QED
  BY <1>1, <1>2, <1>7, <1>8, ClosedGood, OneConn DEF x

(* A part is queued where it may run, or is given up to a dead thread. *)
LEMMA SendPartStep ==
  ASSUME IInv, NEW c \in Conns, NEW s \in Shards, SendPart(c, s)
  PROVE  IInv'
<1> DEFINE x == conn[c]
           y(p) == [x EXCEPT !.part = [x.part EXCEPT ![s] = p]]
<1>1. conn = [b \in Conns |-> conn[b]] /\ GoodConn(x) /\ \A t \in Shards : x.part[t] = Failed => t \notin alive
  BY DEF IInv, ConnInv, FailedMeansDead
<1>2. /\ x.state = "waiting" /\ x.part[s] = Unsent
      /\ UNCHANGED <<boot, next, alive, connq, control, store>>
  BY DEF SendPart
<1>3. Record(x) /\ x.part = [t \in Shards |-> x.part[t]] /\ x.req \in Requests /\ x.db \in DBs /\ Safe(x.req, s)
  BY <1>1, <1>2 DEF GoodConn
<1>4. StoreInv'
  BY <1>2 DEF IInv, StoreInv
<1>5. ASSUME NEW p, p # Unsent
      PROVE  /\ GoodConn(y(p)) /\ y(p).state = x.state /\ y(p).home = x.home /\ y(p).part[s] = p
             /\ \A t \in Shards \ {s} : y(p).part[t] = x.part[t]
  <2> DEFINE q == [x.part EXCEPT ![s] = p]
  <2>1. q = [t \in Shards |-> q[t]] /\ q[s] = p /\ \A t \in Shards \ {s} : q[t] = x.part[t]
    BY <1>3
  <2> HIDE DEF q
  <2>2. Record(y(p)) /\ y(p).part = q /\ \A f \in ConnFields \ {"part"} : y(p)[f] = x[f]
    BY <1>3 DEF Record, ConnFields, q
  <2>3. GoodConn(y(p))
    BY <1>1, <1>5, <2>1, <2>2 DEF GoodConn, ConnFields
  <2> HIDE DEF y
  <2> QED BY <2>1, <2>2, <2>3 DEF ConnFields
<1>6. Sent # Unsent /\ Failed # Unsent /\ Sent # Failed
  BY DEF Sent, Unsent, Failed
<1>7. CASE s \in alive /\ crossq' = [crossq EXCEPT ![s] = Append(@, Task(c))]
           /\ conn' = [conn EXCEPT ![c].part[s] = Sent]
  <2>1. conn' = [conn EXCEPT ![c] = y(Sent)]
    BY <1>1, <1>7
  <2>2. Task(c) \in Tasks(s)
    BY <1>3 DEF Task, Tasks
  <2>3. crossq' = [t \in Shards |-> crossq'[t]] /\ \A t \in Shards : crossq'[t] \in Seq(Tasks(t))
    <3>1. crossq = [t \in Shards |-> crossq[t]] /\ \A t \in Shards : crossq[t] \in Seq(Tasks(t))
      BY DEF IInv, QueueInv
    <3>2. crossq'[s] = Append(crossq[s], Task(c)) /\ \A t \in Shards \ {s} : crossq'[t] = crossq[t]
      BY <1>7, <3>1
    <3>3. Append(crossq[s], Task(c)) \in Seq(Tasks(s))
      BY <2>2, <3>1, SMTT(30)
    <3>4. crossq' = [t \in Shards |-> crossq'[t]]
      BY <1>7, <3>1
    <3> QED BY <3>1, <3>2, <3>3, <3>4
  <2>4. GoodConn(y(Sent)) /\ y(Sent).state = x.state /\ y(Sent).home = x.home
        /\ \A t \in Shards : y(Sent).part[t] = Failed => t \notin alive
    BY <1>1, <1>5, <1>6
  <2> HIDE DEF y, x
  <2> QED BY <1>2, <1>4, <2>1, <2>3, <2>4, OneConn DEF x, Serving
<1>8. CASE s \notin alive /\ crossq' = crossq /\ conn' = [conn EXCEPT ![c].part[s] = Failed]
  <2>1. conn' = [conn EXCEPT ![c] = y(Failed)]
    BY <1>1, <1>8
  <2>2. crossq' = [t \in Shards |-> crossq'[t]] /\ \A t \in Shards : crossq'[t] \in Seq(Tasks(t))
    BY <1>8 DEF IInv, QueueInv
  <2>3. GoodConn(y(Failed)) /\ y(Failed).state = x.state /\ y(Failed).home = x.home
        /\ \A t \in Shards : y(Failed).part[t] = Failed => t \notin alive
    BY <1>1, <1>5, <1>6, <1>8, SMTT(30)
  <2> HIDE DEF y, x
  <2> QED BY <1>2, <1>4, <2>1, <2>2, <2>3, OneConn DEF x, Serving
<1> QED
  BY <1>7, <1>8 DEF SendPart

(* The replies are merged and no part is left. *)
LEMMA GatherStep ==
  ASSUME IInv, NEW c \in Conns, Gather(c)
  PROVE  IInv'
<1> DEFINE x == conn[c]
           m == Merge(x.req, x.home, x.part)
           y == [x EXCEPT !.state = "parsing", !.req = NoRequest, !.part = NoParts, !.write_buf = Append(@, m)]
<1>1. conn = [b \in Conns |-> conn[b]] /\ GoodConn(x) /\ Record(x)
  BY DEF IInv, ConnInv, GoodConn
<1>2. x.state = "waiting" /\ UNCHANGED <<boot, next, alive, connq, crossq, control, store>>
  BY DEF Gather
<1>3. conn' = [conn EXCEPT ![c].state = "parsing", ![c].req = NoRequest, ![c].part = NoParts,
                           ![c].write_buf = Append(@, m)]
  BY DEF Gather
<1> HIDE DEF m
<1>4. conn' = [conn EXCEPT ![c] = y]
  BY <1>1, <1>3 DEF Record, ConnFields
<1>5. /\ Record(y) /\ y.state = "parsing" /\ y.part = NoParts
      /\ \A f \in ConnFields \ {"state", "req", "part", "write_buf"} : y[f] = x[f]
  BY <1>1 DEF Record, ConnFields
<1>6. NoParts = [s \in Shards |-> NoParts[s]] /\ \A s \in Shards : NoParts[s] # Failed
  BY DEF NoParts, NoPart, Failed
<1>7. GoodConn(y) /\ y.home = x.home
  BY <1>1, <1>5, <1>6 DEF GoodConn, ConnFields
<1> HIDE DEF y, x
<1> QED
  BY <1>2, <1>4, <1>5, <1>6, <1>7, ConnOnly DEF x, Serving

-----------------------------------------------------------------------------
(* The steps of main, the listener and the event loops. *)

(* A cross-shard command runs on a shard where it may run. *)
LEMMA ServeStep ==
  ASSUME IInv, NEW s \in Shards, Serve(s)
  PROVE  IInv'
<1> DEFINE m == Head(crossq[s])
           a == Done(Answer(store[s], m.req, m.db, s))
           x == conn[m.conn]
           q == [x.part EXCEPT ![s] = a]
           y == [x EXCEPT !.part = q]
<1>1. crossq = [t \in Shards |-> crossq[t]] /\ \A t \in Shards : crossq[t] \in Seq(Tasks(t))
  BY DEF IInv, QueueInv
<1>2. /\ crossq[s] # <<>> /\ crossq' = [crossq EXCEPT ![s] = Tail(@)]
      /\ store' = [store EXCEPT ![s] = Effect(@, m.req, m.db, s)]
      /\ conn' = IF x.state = "waiting" THEN [conn EXCEPT ![m.conn].part[s] = a] ELSE conn
      /\ UNCHANGED <<boot, next, alive, connq, control>>
  BY DEF Serve
<1>3. m \in Tasks(s) /\ Tail(crossq[s]) \in Seq(Tasks(s))
  BY <1>1, <1>2, SMTT(30)
<1>4. m.conn \in Conns /\ m.req \in Requests /\ m.db \in DBs /\ Safe(m.req, s)
  BY <1>3 DEF Tasks
<1>5. crossq' = [t \in Shards |-> crossq'[t]] /\ \A t \in Shards : crossq'[t] \in Seq(Tasks(t))
  <2>1. crossq'[s] = Tail(crossq[s]) /\ \A t \in Shards \ {s} : crossq'[t] = crossq[t]
    BY <1>1, <1>2
  <2>2. crossq' = [t \in Shards |-> crossq'[t]]
    BY <1>1, <1>2
  <2> QED BY <1>1, <1>3, <2>1, <2>2
<1> HIDE DEF m
<1>6. StoreInv'
  <2>1. Owned(Effect(store[s], m.req, m.db, s), s)
    BY <1>4, EffectOwned DEF IInv, StoreInv
  <2> QED BY <1>2, <2>1 DEF IInv, StoreInv
<1>7. conn = [b \in Conns |-> conn[b]] /\ \A c \in Conns : GoodConn(conn[c])
  BY DEF IInv, ConnInv
<1> HIDE DEF a
<1>8. CASE x.state = "waiting"
  <2>1. conn' = [conn EXCEPT ![m.conn] = y]
    BY <1>2, <1>4, <1>7, <1>8
  <2>2. Record(x) /\ x.part = [t \in Shards |-> x.part[t]] /\ GoodConn(x)
    BY <1>4, <1>7 DEF GoodConn
  <2>3. a # Unsent /\ a # Failed
    BY DEF a, Done, Unsent, Failed
  <2>4. q = [t \in Shards |-> q[t]] /\ q[s] = a /\ \A t \in Shards \ {s} : q[t] = x.part[t]
    BY <2>2
  <2> HIDE DEF q
  <2>5. Record(y) /\ y.part = q /\ \A f \in ConnFields \ {"part"} : y[f] = x[f]
    BY <2>2 DEF Record, ConnFields
  <2>6. GoodConn(y)
    BY <2>2, <2>3, <2>4, <2>5 DEF GoodConn, ConnFields
  <2>7. \A t \in Shards : y.part[t] = Failed => t \notin alive
    BY <1>4, <2>3, <2>4, <2>5 DEF IInv, FailedMeansDead
  <2>8. y.state = x.state /\ y.home = x.home
    BY <2>5 DEF ConnFields
  <2> HIDE DEF y, x
  <2> QED BY <1>2, <1>4, <1>5, <1>6, <1>8, <2>1, <2>6, <2>7, <2>8, OneConn DEF x, Serving
<1>9. CASE x.state # "waiting"
  <2>1. conn' = conn
    BY <1>2, <1>9
  <2>2. ConnInv' /\ FailedMeansDead' /\ ServedAfterLoad'
    BY <1>2, <2>1 DEF IInv, ConnInv, FailedMeansDead, ServedAfterLoad
  <2>3. QueueInv'
    <3>1. UNCHANGED <<boot, next, connq, control, conn>>
      BY <1>2, <2>1
    <3> QED BY <1>5, <3>1 DEF IInv, QueueInv
  <2> QED BY <1>6, <2>2, <2>3 DEF IInv
<1> QED
  BY <1>8, <1>9

(* The shard's part of the RDB file has the shard's keys only. *)
LEMMA LoadOwned == \A s \in Shards : Owned(LoadEntries(s), s)
BY DEF Owned, LoadEntries

(* A Load message brings in the shard's own keys. *)
LEMMA ServeControlStep ==
  ASSUME IInv, NEW s \in Shards, ServeControl(s)
  PROVE  IInv'
<1> DEFINE e == Head(control[s])
           new == [d \in DBs |-> [k \in Keys |-> IF e[d][k] # Nil THEN e[d][k] ELSE store[s][d][k]]]
<1>1. control = [t \in Shards |-> control[t]] /\ \A t \in Shards : control[t] \in Seq({LoadEntries(t)})
  BY DEF IInv, QueueInv
<1>2. /\ control[s] # <<>> /\ control' = [control EXCEPT ![s] = Tail(@)]
      /\ store' = [store EXCEPT ![s] = new]
      /\ UNCHANGED <<boot, next, alive, connq, crossq, conn>>
  BY DEF ServeControl
<1>3. e = LoadEntries(s) /\ Tail(control[s]) \in Seq({LoadEntries(s)})
  BY <1>1, <1>2, SMTT(30)
<1>4. Owned(e, s) /\ Owned(store[s], s)
  BY <1>3, LoadOwned DEF IInv, StoreInv
<1>5. Owned(new, s)
  <2>1. \A d \in DBs, k \in Keys : new[d][k] # Nil => e[d][k] # Nil \/ store[s][d][k] # Nil
    OBVIOUS
  <2>2. new = [d \in DBs |-> new[d]] /\ \A d \in DBs : new[d] = [k \in Keys |-> new[d][k]]
    OBVIOUS
  <2> HIDE DEF new, e
  <2> QED BY <1>4, <2>1, <2>2 DEF Owned
<1> HIDE DEF new, e
<1>6. StoreInv'
  BY <1>2, <1>5 DEF IInv, StoreInv
<1>7. control'[s] = Tail(control[s]) /\ \A t \in Shards \ {s} : control'[t] = control[t]
  BY <1>1, <1>2
<1>8. control' = [t \in Shards |-> control'[t]] /\ \A t \in Shards : control'[t] \in Seq({LoadEntries(t)})
  <2>1. control' = [t \in Shards |-> control'[t]]
    BY <1>1, <1>2
  <2> QED BY <1>1, <1>3, <1>7, <2>1
<1>9. QueueInv'
  BY <1>2, <1>8 DEF IInv, QueueInv
<1>10. ServedAfterLoad'
  <2>1. ASSUME NEW c \in Conns, conn[c].state \in {"reading", "parsing", "waiting"}
        PROVE  control'[conn[c].home] = <<>>
    <3>1. conn[c].home \in Shards /\ control[conn[c].home] = <<>>
      BY <2>1 DEF IInv, ConnInv, GoodConn, ServedAfterLoad
    <3> QED BY <1>2, <1>7, <3>1
  <2> QED BY <1>2, <2>1 DEF ServedAfterLoad
<1>11. ConnInv' /\ FailedMeansDead'
  BY <1>2 DEF IInv, ConnInv, FailedMeansDead
<1> QED
  BY <1>6, <1>9, <1>10, <1>11 DEF IInv

(* A queue of members of S is one of members of a larger set. *)
LEMMA SeqMono ==
  ASSUME NEW S, NEW T, S \subseteq T, NEW q \in Seq(S)
  PROVE  q \in Seq(T)
BY SMTT(30)

(* Main sends Load messages while no connection exists. *)
LEMMA SendLoadStep ==
  ASSUME IInv, NEW s \in Shards, SendLoad(s)
  PROVE  IInv'
<1>1. control = [t \in Shards |-> control[t]] /\ \A t \in Shards : control[t] \in Seq({LoadEntries(t)})
  BY DEF IInv, QueueInv
<1>2. /\ s \in boot /\ control' = [control EXCEPT ![s] = Append(@, LoadEntries(s))]
      /\ UNCHANGED <<next, alive, connq, crossq, store, conn>>
  BY DEF SendLoad
<1>3. \A c \in Conns : conn[c].state = "new"
  BY <1>2 DEF IInv, QueueInv
<1>4. Append(control[s], LoadEntries(s)) \in Seq({LoadEntries(s)})
  BY <1>1, SMTT(30)
<1>5. control'[s] = Append(control[s], LoadEntries(s)) /\ \A t \in Shards \ {s} : control'[t] = control[t]
  BY <1>1, <1>2
<1>6. control' = [t \in Shards |-> control'[t]] /\ \A t \in Shards : control'[t] \in Seq({LoadEntries(t)})
  <2>1. control' = [t \in Shards |-> control'[t]]
    BY <1>1, <1>2
  <2> QED BY <1>1, <1>4, <1>5, <2>1
<1>7. QueueInv'
  BY <1>2, <1>3, <1>6 DEF IInv, QueueInv
<1>8. ServedAfterLoad'
  BY <1>2, <1>3 DEF ServedAfterLoad
<1>9. ConnInv' /\ StoreInv' /\ FailedMeansDead'
  BY <1>2 DEF IInv, ConnInv, StoreInv, FailedMeansDead
<1> QED
  BY <1>7, <1>8, <1>9 DEF IInv

(* A connection enters or leaves a connection channel. *)
LEMMA AdmitConn ==
  ASSUME IInv, NEW c \in Conns, NEW y, GoodConn(y),
         conn' = [conn EXCEPT ![c] = y],
         boot = {}, y.state # "new", y.part = conn[c].part,
         Serving(y) => control[y.home] = <<>>,
         next' \in Shards,
         connq' = [s \in Shards |-> connq'[s]],
         \A s \in Shards : connq'[s] \in Seq({b \in Conns : conn'[b].home = s /\ conn'[b].state # "new"}),
         UNCHANGED <<boot, alive, crossq, control, store>>
  PROVE  IInv'
<1>1. conn'[c] = y /\ \A b \in Conns \ {c} : conn'[b] = conn[b]
  BY DEF IInv, ConnInv
<1>2. ConnInv'
  BY <1>1 DEF IInv, ConnInv
<1>3. QueueInv'
  BY DEF IInv, QueueInv
<1>4. FailedMeansDead'
  BY <1>1, SMTT(30) DEF IInv, FailedMeansDead
<1>5. ServedAfterLoad'
  BY <1>1 DEF IInv, ServedAfterLoad, Serving
<1>6. StoreInv'
  BY DEF IInv, StoreInv
<1> QED
  BY <1>2, <1>3, <1>4, <1>5, <1>6 DEF IInv

(* A connection's task starts when the control channel is empty. *)
LEMMA ServeConnStep ==
  ASSUME IInv, NEW s \in Shards, ServeConn(s)
  PROVE  IInv'
<1> DEFINE In(t) == {b \in Conns : conn[b].home = t /\ conn[b].state # "new"}
           c == Head(connq[s])
           x == conn[c]
           y == [x EXCEPT !.state = "reading"]
<1>1. connq = [t \in Shards |-> connq[t]] /\ \A t \in Shards : connq[t] \in Seq(In(t))
  BY DEF IInv, QueueInv
<1>2. /\ control[s] = <<>> /\ connq[s] # <<>>
      /\ conn' = [conn EXCEPT ![c].state = "reading"] /\ connq' = [connq EXCEPT ![s] = Tail(@)]
      /\ UNCHANGED <<boot, next, alive, crossq, control, store>>
  BY DEF ServeConn
<1>3. c \in In(s) /\ Tail(connq[s]) \in Seq(In(s))
  <2> HIDE DEF In
  <2> QED BY <1>1, <1>2, SMTT(30)
<1>4. c \in Conns /\ x.home = s /\ x.state # "new"
  BY <1>3
<1> HIDE DEF c
<1>5. conn = [b \in Conns |-> conn[b]] /\ GoodConn(x) /\ Record(x)
  BY <1>4 DEF IInv, ConnInv, GoodConn
<1>6. conn' = [conn EXCEPT ![c] = y]
  BY <1>2, <1>5
<1>7. Record(y) /\ y.state = "reading" /\ \A f \in ConnFields \ {"state"} : y[f] = x[f]
  BY <1>5 DEF Record, ConnFields
<1>8. GoodConn(y) /\ y.home = s /\ y.part = x.part
  BY <1>4, <1>5, <1>7 DEF GoodConn, ConnFields
<1>9. boot = {} /\ next' \in Shards
  BY <1>2, <1>4 DEF IInv, QueueInv
<1>10. \A t \in Shards : In(t) \subseteq {b \in Conns : conn'[b].home = t /\ conn'[b].state # "new"}
  <2>1. conn'[c] = y /\ \A b \in Conns \ {c} : conn'[b] = conn[b]
    BY <1>4, <1>5, <1>6
  <2> HIDE DEF y
  <2> QED BY <1>4, <1>7, <1>8, <2>1
<1>11. connq' = [t \in Shards |-> connq'[t]] /\ \A t \in Shards : connq'[t] \in Seq(In(t))
  <2> HIDE DEF In
  <2>1. connq' = [t \in Shards |-> connq'[t]]
    BY <1>1, <1>2
  <2>2. connq'[s] = Tail(connq[s]) /\ \A t \in Shards \ {s} : connq'[t] = connq[t]
    BY <1>1, <1>2
  <2> QED BY <1>1, <1>3, <2>1, <2>2
<1>12. \A t \in Shards : connq'[t] \in Seq({b \in Conns : conn'[b].home = t /\ conn'[b].state # "new"})
  <2> HIDE DEF In
  <2> QED BY <1>10, <1>11, SeqMono
<1> HIDE DEF y, x, In
<1> QED
  BY <1>2, <1>4, <1>6, <1>7, <1>8, <1>9, <1>11, <1>12, AdmitConn DEF x

(* The listener queues a new connection, or drops it. *)
LEMMA AcceptStep ==
  ASSUME IInv, NEW c \in Conns, Accept(c)
  PROVE  IInv'
<1> DEFINE In(t) == {b \in Conns : conn[b].home = t /\ conn[b].state # "new"}
           In2(t) == {b \in Conns : conn'[b].home = t /\ conn'[b].state # "new"}
           x == conn[c]
           y == [x EXCEPT !.state = "queued", !.home = next]
           z == [x EXCEPT !.state = "closed"]
<1>1. connq = [t \in Shards |-> connq[t]] /\ next \in Shards /\ \A t \in Shards : connq[t] \in Seq(In(t))
  BY DEF IInv, QueueInv
<1>2. /\ boot = {} /\ x.state = "new" /\ next' = (next + 1) % NumShards
      /\ UNCHANGED <<boot, alive, crossq, control, store>>
  BY DEF Accept
<1>3. next' \in Shards
  <2>1. NumShards \in Nat \ {0} /\ next + 1 \in Nat
    BY <1>1, ShardSetAssumption, SMTT(30) DEF Shards
  <2>2. (next + 1) % NumShards \in 0 .. NumShards - 1
    BY <2>1, SMTT(30)
  <2> QED BY <1>2, <2>2 DEF Shards
<1>4. conn = [b \in Conns |-> conn[b]] /\ GoodConn(x) /\ Record(x)
  BY DEF IInv, ConnInv, GoodConn
<1>5. CASE connq' = [connq EXCEPT ![next] = Append(@, c)]
           /\ conn' = [conn EXCEPT ![c].state = "queued", ![c].home = next]
  <2>1. conn' = [conn EXCEPT ![c] = y]
    BY <1>4, <1>5 DEF Record, ConnFields
  <2>2. Record(y) /\ y.state = "queued" /\ y.home = next /\ \A f \in ConnFields \ {"state", "home"} : y[f] = x[f]
    BY <1>4 DEF Record, ConnFields
  <2>3. GoodConn(y) /\ y.part = x.part
    BY <1>1, <1>4, <2>2 DEF GoodConn, ConnFields
  <2>4. conn'[c] = y /\ \A b \in Conns \ {c} : conn'[b] = conn[b]
    BY <1>4, <2>1
  <2> HIDE DEF y
  <2>5. c \in In2(next) /\ \A t \in Shards : In(t) \subseteq In2(t)
    BY <1>2, <2>2, <2>4
  <2> HIDE DEF In, In2
  <2>6. \A t \in Shards : connq[t] \in Seq(In2(t))
    BY <1>1, <2>5, SeqMono
  <2>7. connq' = [t \in Shards |-> connq'[t]]
    BY <1>1, <1>5
  <2>8. connq'[next] = Append(connq[next], c) /\ \A t \in Shards \ {next} : connq'[t] = connq[t]
    BY <1>1, <1>5
  <2>9. Append(connq[next], c) \in Seq(In2(next))
    BY <1>1, <2>5, <2>6, SMTT(30)
  <2>10. \A t \in Shards : connq'[t] \in Seq(In2(t))
    BY <2>6, <2>8, <2>9
  <2> HIDE DEF x
  <2> QED BY <1>2, <1>3, <2>1, <2>2, <2>3, <2>7, <2>10, AdmitConn DEF x, In2, Serving
<1>6. CASE connq' = connq /\ conn' = [conn EXCEPT ![c].state = "closed"]
  <2>1. conn' = [conn EXCEPT ![c] = z]
    BY <1>4, <1>6
  <2>2. Record(z) /\ z.state = "closed" /\ \A f \in ConnFields \ {"state"} : z[f] = x[f]
    BY <1>4 DEF Record, ConnFields
  <2>3. GoodConn(z) /\ z.part = x.part
    BY <1>4, <2>2 DEF GoodConn, ConnFields
  <2>4. conn'[c] = z /\ \A b \in Conns \ {c} : conn'[b] = conn[b]
    BY <1>4, <2>1
  <2> HIDE DEF z
  <2>5. \A t \in Shards : In(t) \subseteq In2(t)
    BY <1>2, <2>4
  <2> HIDE DEF In, In2
  <2>6. connq' = [t \in Shards |-> connq'[t]] /\ \A t \in Shards : connq'[t] \in Seq(In2(t))
    BY <1>1, <1>6, <2>5, SeqMono
  <2> HIDE DEF x
  <2> QED BY <1>2, <1>3, <2>1, <2>2, <2>3, <2>6, AdmitConn DEF x, In2, Serving
<1> QED
  BY <1>5, <1>6 DEF Accept

(* A thread that ends: what it held is dropped, what waits for it fails. *)
LEMMA ServePanicStep ==
  ASSUME IInv, NEW s \in Shards, ServePanic(s)
  PROVE  IInv'
<1> DEFINE Mine(c) == conn[c].home = s /\ conn[c].state # "new"
           q(c) == [conn[c].part EXCEPT ![s] = IF @ = Sent THEN Failed ELSE @]
           y(c) == [conn[c] EXCEPT !.part = q(c)]
<1>1. /\ alive' = alive \ {s} /\ connq' = [connq EXCEPT ![s] = <<>>] /\ crossq' = [crossq EXCEPT ![s] = <<>>]
      /\ control' = [control EXCEPT ![s] = <<>>] /\ store' = [store EXCEPT ![s] = EmptyStore]
      /\ UNCHANGED <<boot, next>>
  BY DEF ServePanic
<1>2. conn' = [c \in Conns |-> IF Mine(c) THEN Closed(conn[c])
                               ELSE [conn[c] EXCEPT !.part[s] = IF @ = Sent THEN Failed ELSE @]]
  BY DEF ServePanic
<1>3. \A c \in Conns : GoodConn(conn[c])
  BY DEF IInv, ConnInv
<1>4. ASSUME NEW c \in Conns, Mine(c)
      PROVE  /\ GoodConn(conn'[c]) /\ conn'[c].home = conn[c].home /\ conn'[c].state = "closed"
             /\ \A t \in Shards : conn'[c].part[t] # Failed
  <2>1. conn'[c] = Closed(conn[c])
    BY <1>2, <1>4
  <2> QED BY <1>3, <2>1, ClosedGood, SMTT(30)
<1>5. ASSUME NEW c \in Conns, ~Mine(c)
      PROVE  /\ GoodConn(conn'[c]) /\ conn'[c].home = conn[c].home /\ conn'[c].state = conn[c].state
             /\ \A t \in Shards \ {s} : conn'[c].part[t] = conn[c].part[t]
  <2>1. conn'[c] = [conn[c] EXCEPT !.part[s] = IF @ = Sent THEN Failed ELSE @]
    BY <1>2, <1>5
  <2>2. Record(conn[c]) /\ conn[c].part = [t \in Shards |-> conn[c].part[t]]
    BY <1>3 DEF GoodConn
  <2>3. conn'[c] = y(c)
    BY <2>1
  <2>4. /\ q(c) = [t \in Shards |-> q(c)[t]]
        /\ q(c)[s] = Unsent => conn[c].part[s] = Unsent
        /\ \A t \in Shards \ {s} : q(c)[t] = conn[c].part[t]
    <3>1. Failed # Unsent
      BY DEF Failed, Unsent
    <3> QED BY <2>2, <3>1
  <2> HIDE DEF q
  <2>5. Record(y(c)) /\ y(c).part = q(c) /\ \A f \in ConnFields \ {"part"} : y(c)[f] = conn[c][f]
    BY <2>2 DEF Record, ConnFields
  <2> HIDE DEF y
  <2>6. GoodConn(y(c))
    BY <1>3, <2>4, <2>5 DEF GoodConn, ConnFields
  <2> QED BY <2>3, <2>4, <2>5, <2>6 DEF ConnFields
<1>6. ConnInv'
  BY <1>2, <1>4, <1>5 DEF ConnInv
<1>7. StoreInv'
  <2>1. Owned(EmptyStore, s)
    BY DEF Owned, EmptyStore, EmptyTable
  <2> QED BY <1>1, <2>1 DEF IInv, StoreInv
<1>8. \A c \in Conns : conn'[c].home = conn[c].home /\ (conn'[c].state # "new" <=> conn[c].state # "new")
  BY <1>4, <1>5
<1>9. \A t \in Shards : connq'[t] \in Seq({b \in Conns : conn'[b].home = t /\ conn'[b].state # "new"})
  <2>1. ASSUME NEW t \in Shards
        PROVE  {b \in Conns : conn'[b].home = t /\ conn'[b].state # "new"}
               = {b \in Conns : conn[b].home = t /\ conn[b].state # "new"}
    BY <1>8
  <2>2. \A t \in Shards : connq'[t] = <<>> \/ connq'[t] = connq[t]
    BY <1>1 DEF IInv, QueueInv
  <2>3. \A t \in Shards : connq[t] \in Seq({b \in Conns : conn[b].home = t /\ conn[b].state # "new"})
    BY DEF IInv, QueueInv
  <2>4. \A S : <<>> \in Seq(S)
    BY SMTT(30)
  <2> QED BY <2>1, <2>2, <2>3, <2>4
<1>10. /\ crossq' = [t \in Shards |-> crossq'[t]] /\ control' = [t \in Shards |-> control'[t]]
       /\ connq' = [t \in Shards |-> connq'[t]]
       /\ \A t \in Shards : crossq'[t] = <<>> \/ crossq'[t] = crossq[t]
       /\ \A t \in Shards : control'[t] = <<>> \/ control'[t] = control[t]
  BY <1>1 DEF IInv, QueueInv
<1>11. \A t \in Shards : crossq'[t] \in Seq(Tasks(t)) /\ control'[t] \in Seq({LoadEntries(t)})
  <2>1. \A t \in Shards : crossq[t] \in Seq(Tasks(t)) /\ control[t] \in Seq({LoadEntries(t)})
    BY DEF IInv, QueueInv
  <2>2. \A S : <<>> \in Seq(S)
    BY SMTT(30)
  <2> QED BY <1>10, <2>1, <2>2
<1>12. QueueInv'
  <2>1. next' \in Shards /\ \A c \in Conns : conn'[c].state # "new" => boot' = {}
    BY <1>1, <1>8 DEF IInv, QueueInv
  <2> QED BY <1>9, <1>10, <1>11, <2>1 DEF QueueInv
<1>13. FailedMeansDead'
  BY <1>1, <1>4, <1>5 DEF IInv, FailedMeansDead
<1>14. ServedAfterLoad'
  <2>1. ASSUME NEW c \in Conns, conn'[c].state \in {"reading", "parsing", "waiting"}
        PROVE  control'[conn'[c].home] = <<>>
    <3>1. conn'[c].home = conn[c].home /\ conn[c].home \in Shards /\ conn[c].state = conn'[c].state
      BY <1>3, <1>4, <1>5, <2>1 DEF GoodConn
    <3>2. control[conn[c].home] = <<>>
      BY <2>1, <3>1 DEF IInv, ServedAfterLoad
    <3> QED BY <1>10, <3>1, <3>2
  <2> QED BY <2>1 DEF ServedAfterLoad
<1> QED
  BY <1>6, <1>7, <1>12, <1>13, <1>14 DEF IInv

-----------------------------------------------------------------------------
(* Every step of the server and its clients keeps the invariant. *)
LEMMA StepIInv == IInv /\ [Next]_vars => IInv'
<1> SUFFICES ASSUME IInv, [Next]_vars PROVE IInv'
  OBVIOUS
<1>1. CASE UNCHANGED vars
  BY <1>1 DEF vars, IInv, ConnInv, StoreInv, QueueInv, FailedMeansDead, ServedAfterLoad
<1>2. ASSUME NEW s \in Shards, SendLoad(s) \/ EventLoop(s) \/ ServePanic(s) PROVE IInv'
  BY <1>2, SendLoadStep, ServeStep, ServeControlStep, ServeConnStep, ServePanicStep DEF EventLoop
<1>3. ASSUME NEW c \in Conns, Accept(c) \/ Client(c) \/ ConnTask(c) \/ DispatchPanic(c) PROVE IInv'
  BY <1>3, AcceptStep, BufferSteps, AnswerSteps, DispatchStep, GatherStep, DispatchPanicStep
     DEF Client, ConnTask
<1>4. ASSUME NEW c \in Conns, NEW s \in Shards, SendPart(c, s) PROVE IInv'
  BY <1>4, SendPartStep
<1> QED
  BY <1>1, <1>2, <1>3, <1>4 DEF Next

(* Only the shard that get_shard_id names ever stores a key, for every     *)
(* hash and number of shards: dispatch_command refuses what could write    *)
(* elsewhere, and loads and panics add nothing.                            *)
THEOREM AlwaysRouted == Spec => []Routed
<1>1. IInv => Routed
  BY DEF IInv, StoreInv, Owned, Routed
<1> QED
  BY InitIInv, StepIInv, <1>1, PTL DEF Spec

(* Whatever the capacity of the channels, a part of a command is given up  *)
(* by the connection task only when the thread of its shard has ended.     *)
THEOREM GivenUpOnlyToDead == Spec => []FailedMeansDead
<1>1. IInv => FailedMeansDead
  BY DEF IInv
<1> QED
  BY InitIInv, StepIInv, <1>1, PTL DEF Spec

(* The biased select of the event loop starts a connection's task only     *)
(* after the shard's part of the RDB file is in its databases.             *)
THEOREM NeverServedBeforeLoad == Spec => []ServedAfterLoad
<1>1. IInv => ServedAfterLoad
  BY DEF IInv
<1> QED
  BY InitIInv, StepIInv, <1>1, PTL DEF Spec

=============================================================================
