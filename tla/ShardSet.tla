------------------------------ MODULE ShardSet -------------------------------
(***************************************************************************)
(* The server around the shards' engines: the startup load of the RDB      *)
(* file, the listener that hands connections round-robin to shard threads, *)
(* the event loop of each shard thread, and the connection tasks that run  *)
(* a command on their own shard or send it, or parts of it, to others.     *)
(*                                                                         *)
(* A task runs alone on its thread between two awaits, so a step here is   *)
(* what a task does from one await to the next.  The event loop of a shard *)
(* tests its channels in order; a message that arrives in a channel after  *)
(* it was found empty is one that is sent after the step.                  *)
(***************************************************************************)
EXTENDS Integers, Sequences, FiniteSetsExt

CONSTANTS
  NumShards,
  Keys, Vals, DBs,
  Nil,        \* no value
  hash_tag,   \* Keys -> what is hashed: the part in braces, or the key
  crc32,      \* the hash of Keys and of their tags
  Rdb,        \* the entries of the RDB file: DBs -> (Keys -> a value or Nil)
  Conns,      \* clients
  Leavers,    \* clients that may disconnect
  Requests,   \* requests a client may send
  MaxReqs,    \* bound: requests of all clients together
  CrossCap,   \* capacity of a cross-shard channel (4096)
  ConnCap,    \* capacity of a connection channel (256)
  MaxPanics   \* bound: handlers that panic

Shards == 0 .. NumShards - 1
Tables == [Keys -> Vals \cup {Nil}]
Stores == [DBs -> Tables]

ASSUME ShardSetAssumption ==
  /\ NumShards \in Nat \ {0}
  /\ Nil \notin Vals
  /\ Rdb \in Stores
  /\ 0 \in DBs
  /\ \A k \in Keys : crc32[k] \in Nat /\ crc32[hash_tag[k]] \in Nat
  /\ \A r \in Requests : /\ r.keys \in Seq(Keys)
                         /\ r.op = "SET" => Len(r.keys) = 1
                         /\ r.op = "RENAME" => Len(r.keys) = 2

VARIABLES
  boot,     \* shards whose Load message main has yet to send
  next,     \* the listener's next shard
  alive,    \* shards whose thread runs
  connq, crossq, control,  \* the three channels of each shard
  store,    \* the contents of each shard's databases
  conn,     \* the connections: buffers, selected database, command in progress
  panics    \* panics so far

vars == <<boot, next, alive, connq, crossq, control, store, conn, panics>>

EmptyTable == [k \in Keys |-> Nil]
EmptyStore == [d \in DBs |-> EmptyTable]

shard(k) == crc32[hash_tag[k]] % NumShards

-----------------------------------------------------------------------------
(* Commands.  A request has an operation, keys, and values for MSET.  GET  *)
(* and SET stand for the commands on one key.                              *)
Global == {"DBSIZE", "FLUSHDB", "FLUSHALL", "KEYS", "SCAN"}
NoKeys == {"PING"}
Sums == {"DEL", "EXISTS"}
Split == Sums \cup {"MGET", "MSET"}
SameShard == {"MSETNX", "RENAME"}

(* The shards a command runs on; `home` is the shard of the connection. *)
Targets(r, home) ==
  CASE r.op \in Global -> Shards
    [] r.op \in NoKeys -> {home}
    [] OTHER -> {shard(r.keys[i]) : i \in DOMAIN r.keys}

(* The positions of the keys in the command that shard s gets. *)
Part(r, s) ==
  IF r.op \in Split THEN {i \in DOMAIN r.keys : shard(r.keys[i]) = s} ELSE DOMAIN r.keys

Present(t) == {k \in Keys : t[k] # Nil}

SetAll(t, r, P) ==
  [k \in Keys |-> LET I == {i \in P : r.keys[i] = k}
                  IN  IF I = {} THEN t[k] ELSE r.vals[Max(I)]]

(* What registry.dispatch does to the databases st of shard s, d selected. *)
Effect(st, r, d, s) ==
  LET t == st[d]
      P == Part(r, s)
      K == {r.keys[i] : i \in P}
  IN  CASE r.op \in {"SET", "MSET"} -> [st EXCEPT ![d] = SetAll(t, r, P)]
        [] r.op = "MSETNX" -> IF K \cap Present(t) = {} THEN [st EXCEPT ![d] = SetAll(t, r, P)]
                                                        ELSE st
        [] r.op = "DEL" -> [st EXCEPT ![d] = [k \in Keys |-> IF k \in K THEN Nil ELSE t[k]]]
        [] r.op = "RENAME" /\ t[r.keys[1]] # Nil ->
             [st EXCEPT ![d] = [t EXCEPT ![r.keys[1]] = Nil, ![r.keys[2]] = t[r.keys[1]]]]
        [] r.op = "FLUSHDB" -> [st EXCEPT ![d] = EmptyTable]
        [] r.op = "FLUSHALL" -> EmptyStore
        [] OTHER -> st

Ok == [type |-> "ok"]
Err(e) == [type |-> "error", error |-> e]
IntReply(n) == [type |-> "integer", int |-> n]

(* Mutant: DEL counts the keys it was given. *)
Answer_keys_given(st, r, d, s) ==
  IF r.op = "DEL" THEN IntReply(Cardinality(Part(r, s)))
                  ELSE [type |-> "keys", keys |-> Present(st[d])]

(* ... and what it replies.  The array of MGET has the positions of Part. *)
Answer(st, r, d, s) ==
  LET t == st[d]
      P == Part(r, s)
  IN  CASE r.op = "GET" -> [type |-> "bulk", value |-> t[r.keys[1]]]
        [] r.op = "MGET" -> [type |-> "array", array |-> [i \in P |-> t[r.keys[i]]]]
        [] r.op = "MSETNX" -> IntReply(IF \E i \in P : t[r.keys[i]] # Nil THEN 0 ELSE 1)
        [] r.op = "DEL" -> IntReply(Cardinality({r.keys[i] : i \in P} \cap Present(t)))
        [] r.op = "EXISTS" -> IntReply(Cardinality({i \in P : t[r.keys[i]] # Nil}))
        [] r.op = "RENAME" /\ t[r.keys[1]] = Nil -> Err("no such key")
        [] r.op = "DBSIZE" -> IntReply(Cardinality(Present(t)))
        [] r.op \in {"KEYS", "SCAN"} -> [type |-> "keys", keys |-> Present(t)]
        [] OTHER -> Ok

(* The reply to the client, from the parts of the command that were        *)
(* answered; the others were lost with their shard.                        *)
Answered(part) == {s \in Shards : part[s].state = "done"}

SumReply(part) == IntReply(MapThenSumSet(LAMBDA s : part[s].reply.int, Answered(part)))

MgetReply(r, part) ==
  [type |-> "array",
   array |-> [i \in DOMAIN r.keys |->
                LET s == shard(r.keys[i])
                IN  IF s \in Answered(part) THEN part[s].reply.array[i] ELSE Nil]]

GlobalReply(r, home, part) ==
  CASE r.op = "DBSIZE" -> SumReply(part)
    [] r.op \in {"FLUSHDB", "FLUSHALL"} -> Ok
    [] r.op = "KEYS" -> [type |-> "keys", keys |-> UNION {part[s].reply.keys : s \in Answered(part)}]
    [] r.op = "SCAN" -> part[home].reply

(* A command that runs on one shard has that shard's reply. *)
Merge(r, home, part) ==
  CASE r.op \in Sums -> SumReply(part)
    [] r.op = "MGET" -> MgetReply(r, part)
    [] r.op = "MSET" -> Ok
    [] r.op \in Global -> GlobalReply(r, home, part)
    [] OTHER -> IF Answered(part) = {} THEN Err("shard unavailable")
                                       ELSE part[CHOOSE s \in Answered(part) : TRUE].reply

-----------------------------------------------------------------------------
NoPart == [state |-> "none"]
Unsent == [state |-> "unsent"]
Sent == [state |-> "sent"]
Failed == [state |-> "failed"]
Done(reply) == [state |-> "done", reply |-> reply]
NoParts == [s \in Shards |-> NoPart]

NoRequest == [op |-> "none", keys |-> <<>>]

NewConn ==
  [state |-> "new",         \* new, queued, reading, parsing, waiting or closed
   home |-> 0,              \* the shard whose thread runs the connection
   db |-> 0,                \* ConnContext.db_index
   gone |-> FALSE,          \* the client has disconnected
   sent |-> 0,              \* requests sent so far
   sock |-> <<>>,           \* requests sent and not read
   read_buf |-> <<>>,       \* requests read and not parsed
   req |-> NoRequest,       \* the command in progress
   part |-> NoParts,        \* its parts
   write_buf |-> <<>>,      \* replies not yet written
   got |-> <<>>]            \* replies the client has received

LoadEntries(s) == [d \in DBs |-> [k \in Keys |-> IF shard(k) = s THEN Rdb[d][k] ELSE Nil]]

Init ==
  /\ boot = {s \in Shards : LoadEntries(s) # EmptyStore}
  /\ next = 0
  /\ alive = Shards
  /\ connq = [s \in Shards |-> <<>>]
  /\ crossq = [s \in Shards |-> <<>>]
  /\ control = [s \in Shards |-> <<>>]
  /\ store = [s \in Shards |-> EmptyStore]
  /\ conn = [c \in Conns |-> NewConn]
  /\ panics = 0

-----------------------------------------------------------------------------
(* main: load_entries sends each shard its part of the RDB file; it waits  *)
(* until the messages are in the channels, then the listener starts.       *)
SendLoad(s) ==
  /\ s \in boot
  /\ boot' = boot \ {s}
  /\ control' = [control EXCEPT ![s] = Append(@, LoadEntries(s))]
  /\ UNCHANGED <<next, alive, connq, crossq, store, conn, panics>>

(* run_distributed: when the shard's thread is gone, the stream is dropped. *)
Accept(c) ==
  /\ boot = {} /\ conn[c].state = "new"
  /\ \/ /\ next \in alive /\ Len(connq[next]) < ConnCap
        /\ connq' = [connq EXCEPT ![next] = Append(@, c)]
        /\ conn' = [conn EXCEPT ![c].state = "queued", ![c].home = next]
     \/ /\ next \notin alive
        /\ conn' = [conn EXCEPT ![c].state = "closed"]
        /\ UNCHANGED connq
  /\ next' = (next + 1) % NumShards
  /\ UNCHANGED <<boot, alive, crossq, control, store, panics>>

-----------------------------------------------------------------------------
(* Clients: they send without waiting for replies, and may disconnect. *)
Connected(c) == conn[c].state \notin {"new", "closed"} /\ ~conn[c].gone

ClientSend(c, r) ==
  /\ Connected(c) /\ MapThenSumSet(LAMBDA b : conn[b].sent, Conns) < MaxReqs
  /\ conn' = [conn EXCEPT ![c].sent = @ + 1, ![c].sock = Append(@, r)]
  /\ UNCHANGED <<boot, next, alive, connq, crossq, control, store, panics>>

ClientLeave(c) ==
  /\ c \in Leavers /\ Connected(c)
  /\ conn' = [conn EXCEPT ![c].gone = TRUE]
  /\ UNCHANGED <<boot, next, alive, connq, crossq, control, store, panics>>

-----------------------------------------------------------------------------
(* The event loop of shard s: cross-shard commands first, then control     *)
(* messages, then connections.                                             *)
Serve(s) ==
  /\ s \in alive /\ crossq[s] # <<>>
  /\ LET m == Head(crossq[s])
     IN  /\ store' = [store EXCEPT ![s] = Effect(@, m.req, m.db, s)]
         /\ conn' = IF conn[m.conn].state = "waiting"
                    THEN [conn EXCEPT ![m.conn].part[s] = Done(Answer(store[s], m.req, m.db, s))]
                    ELSE conn
  /\ crossq' = [crossq EXCEPT ![s] = Tail(@)]
  /\ UNCHANGED <<boot, next, alive, connq, control, panics>>

ServeControl(s) ==
  /\ s \in alive /\ crossq[s] = <<>> /\ control[s] # <<>>
  /\ LET e == Head(control[s])
     IN  store' = [store EXCEPT ![s] = [d \in DBs |-> [k \in Keys |->
                     IF e[d][k] # Nil THEN e[d][k] ELSE store[s][d][k]]]]
  /\ control' = [control EXCEPT ![s] = Tail(@)]
  /\ UNCHANGED <<boot, next, alive, connq, crossq, conn, panics>>

(* Mutant: the select is not biased towards the control channel. *)
ServeConn_unbiased(s) ==
  /\ s \in alive /\ crossq[s] = <<>> /\ connq[s] # <<>>
  /\ conn' = [conn EXCEPT ![Head(connq[s])].state = "reading"]
  /\ connq' = [connq EXCEPT ![s] = Tail(@)]
  /\ UNCHANGED <<boot, next, alive, crossq, control, store, panics>>

ServeConn(s) ==
  /\ s \in alive /\ crossq[s] = <<>> /\ control[s] = <<>> /\ connq[s] # <<>>
  /\ conn' = [conn EXCEPT ![Head(connq[s])].state = "reading"]
  /\ connq' = [connq EXCEPT ![s] = Tail(@)]
  /\ UNCHANGED <<boot, next, alive, crossq, control, store, panics>>

Closed(x) == [x EXCEPT !.state = "closed", !.sock = <<>>, !.read_buf = <<>>, !.req = NoRequest,
                       !.part = NoParts, !.write_buf = <<>>]

(* Mutant: the commands queued at the shard are never given up. *)
ServePanic_keeps_waiters(s) ==
  /\ s \in alive /\ crossq[s] # <<>> /\ panics < MaxPanics
  /\ panics' = panics + 1
  /\ alive' = alive \ {s}
  /\ conn' = [c \in Conns |-> IF conn[c].home = s /\ conn[c].state # "new"
                              THEN Closed(conn[c]) ELSE conn[c]]
  /\ connq' = [connq EXCEPT ![s] = <<>>]
  /\ crossq' = [crossq EXCEPT ![s] = <<>>]
  /\ control' = [control EXCEPT ![s] = <<>>]
  /\ store' = [store EXCEPT ![s] = EmptyStore]
  /\ UNCHANGED <<boot, next>>

(* A handler that panics in the event loop ends the thread: its data, its  *)
(* connections and what its channels hold are dropped, and with a queued   *)
(* command the sender of its reply.                                        *)
ServePanic(s) ==
  /\ s \in alive /\ crossq[s] # <<>> /\ panics < MaxPanics
  /\ panics' = panics + 1
  /\ alive' = alive \ {s}
  /\ conn' = [c \in Conns |->
                IF conn[c].home = s /\ conn[c].state # "new" THEN Closed(conn[c])
                ELSE [conn[c] EXCEPT !.part[s] = IF @ = Sent THEN Failed ELSE @]]
  /\ connq' = [connq EXCEPT ![s] = <<>>]
  /\ crossq' = [crossq EXCEPT ![s] = <<>>]
  /\ control' = [control EXCEPT ![s] = <<>>]
  /\ store' = [store EXCEPT ![s] = EmptyStore]
  /\ UNCHANGED <<boot, next>>

-----------------------------------------------------------------------------
(* A connection task: read, dispatch what is complete, write the replies. *)
Read(c) ==
  /\ conn[c].state = "reading"
  /\ \E n \in 1 .. Len(conn[c].sock) :
       conn' = [conn EXCEPT ![c].state = "parsing",
                            ![c].read_buf = SubSeq(conn[c].sock, 1, n),
                            ![c].sock = SubSeq(@, n + 1, Len(@))]
  /\ UNCHANGED <<boot, next, alive, connq, crossq, control, store, panics>>

ReadEof(c) ==
  /\ conn[c].state = "reading" /\ conn[c].gone /\ conn[c].sock = <<>>
  /\ conn' = [conn EXCEPT ![c] = Closed(@)]
  /\ UNCHANGED <<boot, next, alive, connq, crossq, control, store, panics>>

(* The replies are written; a write to a client that left may fail. *)
Flush(c) ==
  /\ conn[c].state = "parsing" /\ conn[c].read_buf = <<>>
  /\ \/ conn' = [conn EXCEPT ![c].state = "reading", ![c].write_buf = <<>>,
                             ![c].got = IF conn[c].gone THEN @ ELSE @ \o conn[c].write_buf]
     \/ conn[c].gone /\ conn' = [conn EXCEPT ![c] = Closed(@)]
  /\ UNCHANGED <<boot, next, alive, connq, crossq, control, store, panics>>

Parsing(c) == conn[c].state = "parsing" /\ conn[c].read_buf # <<>>

(* The connection x with its first request answered. *)
Respond(x, reply) ==
  [x EXCEPT !.read_buf = Tail(@), !.write_buf = Append(@, reply)]

(* QUIT, and input the parser refuses: reply, write all replies, close. *)
CloseConn(c) ==
  LET r == Head(conn[c].read_buf)
      x == Respond(conn[c], IF r.op = "QUIT" THEN Ok ELSE Err("Protocol error"))
  IN  /\ Parsing(c) /\ r.op \in {"QUIT", "GARBAGE"}
      /\ conn' = [conn EXCEPT ![c] = Closed([x EXCEPT !.got =
                    IF x.gone THEN @ ELSE @ \o x.write_buf])]
      /\ UNCHANGED <<boot, next, alive, connq, crossq, control, store, panics>>

(* Empty and unknown commands, wrong arity, SAVE and BGSAVE. *)
Reject(c) ==
  /\ Parsing(c) /\ Head(conn[c].read_buf).op = "INVALID"
  /\ conn' = [conn EXCEPT ![c] = Respond(@, Err("invalid"))]
  /\ UNCHANGED <<boot, next, alive, connq, crossq, control, store, panics>>

(* Mutant: any index is selected. *)
handle_select_unchecked(c) ==
  /\ Parsing(c) /\ Head(conn[c].read_buf).op = "SELECT"
  /\ conn' = [conn EXCEPT ![c] = Respond([@ EXCEPT !.db = Head(conn[c].read_buf).db], Ok)]
  /\ UNCHANGED <<boot, next, alive, connq, crossq, control, store, panics>>

(* SELECT, and RESET, which selects database 0. *)
handle_select(c) ==
  LET r == Head(conn[c].read_buf)
  IN  /\ Parsing(c) /\ r.op = "SELECT"
      /\ conn' = [conn EXCEPT ![c] = IF r.db \in DBs
                    THEN Respond([@ EXCEPT !.db = r.db], Ok)
                    ELSE Respond(@, Err("DB index is out of range"))]
      /\ UNCHANGED <<boot, next, alive, connq, crossq, control, store, panics>>

Dispatched(c) ==
  Parsing(c) /\ Head(conn[c].read_buf).op \notin {"QUIT", "GARBAGE", "INVALID", "SELECT"}

(* Mutant: keys of different shards are not refused. *)
CrossSlot_never(r, home) == FALSE

CrossSlot(r, home) == r.op \in SameShard /\ \E s, t \in Targets(r, home) : s # t

(* The parts of request r of connection x: that of its own shard runs at   *)
(* once, the others are to be sent.                                        *)
Parts(x, r) ==
  [s \in Shards |-> IF s \notin Targets(r, x.home) THEN NoPart
                    ELSE IF s # x.home THEN Unsent
                    ELSE Done(Answer(store[s], r, x.db, s))]

(* The rest of dispatch_command, up to its first await. *)
dispatch_command(c) ==
  LET x == conn[c]
      r == Head(x.read_buf)
      T == Targets(r, x.home)
  IN  /\ Dispatched(c)
      /\ \/ /\ CrossSlot(r, x.home)
            /\ conn' = [conn EXCEPT ![c] = Respond(@, Err("CROSSSLOT"))]
            /\ UNCHANGED store
         \/ /\ ~CrossSlot(r, x.home)
            /\ store' = IF x.home \in T THEN [store EXCEPT ![x.home] = Effect(@, r, x.db, x.home)]
                                        ELSE store
            /\ conn' = [conn EXCEPT ![c] =
                 IF T = {x.home} THEN Respond(x, Merge(r, x.home, Parts(x, r)))
                 ELSE [x EXCEPT !.state = "waiting", !.read_buf = Tail(@), !.req = r, !.part = Parts(x, r)]]
      /\ UNCHANGED <<boot, next, alive, connq, crossq, control, panics>>

(* A handler that panics in a connection task ends that task only; what it *)
(* changed, or lost in a table that was growing, stays so.                 *)
DispatchPanic(c) ==
  LET x == conn[c]
      r == Head(x.read_buf)
      st == store[x.home]
      new == Effect(st, r, x.db, x.home)
  IN  /\ Dispatched(c) /\ panics < MaxPanics
      /\ x.home \in Targets(r, x.home) /\ ~CrossSlot(r, x.home)
      /\ panics' = panics + 1
      /\ \E torn \in Stores :
           /\ \A d \in DBs, k \in Keys : torn[d][k] \in {st[d][k], new[d][k], Nil}
           /\ store' = [store EXCEPT ![x.home] = torn]
      /\ conn' = [conn EXCEPT ![c] = Closed(@)]
      /\ UNCHANGED <<boot, next, alive, connq, crossq, control>>

(* Mutant: the command runs in database 0 of the other shard. *)
Task_db0(c) == [conn |-> c, req |-> conn[c].req, db |-> 0]

Task(c) == [conn |-> c, req |-> conn[c].req, db |-> conn[c].db]

(* Mutant: a full channel refuses the command. *)
SendPart_try(c, s) ==
  /\ conn[c].state = "waiting" /\ conn[c].part[s] = Unsent
  /\ \/ /\ s \in alive /\ Len(crossq[s]) < CrossCap
        /\ crossq' = [crossq EXCEPT ![s] = Append(@, Task(c))]
        /\ conn' = [conn EXCEPT ![c].part[s] = Sent]
     \/ /\ s \notin alive \/ Len(crossq[s]) = CrossCap
        /\ conn' = [conn EXCEPT ![c].part[s] = Failed]
        /\ UNCHANGED crossq
  /\ UNCHANGED <<boot, next, alive, connq, control, store, panics>>

(* One part goes to its shard, when the channel has room. *)
SendPart(c, s) ==
  /\ conn[c].state = "waiting" /\ conn[c].part[s] = Unsent
  /\ \/ /\ s \in alive /\ Len(crossq[s]) < CrossCap
        /\ crossq' = [crossq EXCEPT ![s] = Append(@, Task(c))]
        /\ conn' = [conn EXCEPT ![c].part[s] = Sent]
     \/ /\ s \notin alive
        /\ conn' = [conn EXCEPT ![c].part[s] = Failed]
        /\ UNCHANGED crossq
  /\ UNCHANGED <<boot, next, alive, connq, control, store, panics>>

(* Every part has its reply, or lost it. *)
Gather(c) ==
  LET x == conn[c]
  IN  /\ x.state = "waiting" /\ \A s \in Shards : x.part[s] \notin {Unsent, Sent}
      /\ conn' = [conn EXCEPT ![c].state = "parsing", ![c].req = NoRequest, ![c].part = NoParts,
                              ![c].write_buf = Append(@, Merge(x.req, x.home, x.part))]
      /\ UNCHANGED <<boot, next, alive, connq, crossq, control, store, panics>>

-----------------------------------------------------------------------------
Client(c) == ClientLeave(c) \/ \E r \in Requests : ClientSend(c, r)

EventLoop(s) == Serve(s) \/ ServeControl(s) \/ ServeConn(s)

ConnTask(c) ==
  \/ Read(c) \/ ReadEof(c) \/ Flush(c)
  \/ CloseConn(c) \/ Reject(c) \/ handle_select(c) \/ dispatch_command(c) \/ Gather(c)

Next ==
  \/ \E s \in Shards : SendLoad(s) \/ EventLoop(s) \/ ServePanic(s)
  \/ \E c \in Conns : Accept(c) \/ Client(c) \/ ConnTask(c) \/ DispatchPanic(c)
  \/ \E c \in Conns, s \in Shards : SendPart(c, s)

Spec == Init /\ [][Next]_vars

(* Each thread polls every task that can run. *)
Fairness ==
  /\ \A s \in Shards : WF_vars(SendLoad(s)) /\ WF_vars(EventLoop(s))
  /\ \A c \in Conns : WF_vars(Accept(c)) /\ WF_vars(ConnTask(c))
  /\ \A c \in Conns, s \in Shards : WF_vars(SendPart(c, s))

FairSpec == Spec /\ Fairness

-----------------------------------------------------------------------------
Replies(x) == x.got \o x.write_buf

TypeOK ==
  /\ boot \subseteq Shards /\ next \in Shards /\ alive \subseteq Shards
  /\ store \in [Shards -> Stores]
  /\ panics \in 0 .. MaxPanics
  /\ \A s \in Shards : /\ Len(connq[s]) <= ConnCap /\ Len(crossq[s]) <= CrossCap
                        /\ \A i \in DOMAIN control[s] : control[s][i] \in Stores
  /\ \A c \in Conns :
       LET x == conn[c]
       IN  /\ x.state \in {"new", "queued", "reading", "parsing", "waiting", "closed"}
           /\ x.home \in Shards /\ x.db \in DBs /\ x.sent \in 0 .. MaxReqs
           /\ \A s \in Shards : x.part[s].state \in {"none", "unsent", "sent", "failed", "done"}

(* Only the owning shard ever stores a key, whichever thread took the      *)
(* command and whatever commands, loads and panics came before.            *)
Routed == \A s \in Shards, d \in DBs, k \in Keys : store[s][d][k] # Nil => shard(k) = s

(* A command, or a part of one, is given up only when its shard's thread   *)
(* is gone: a full channel delays it.                                      *)
FailedMeansDead ==
  \A c \in Conns, s \in Shards : conn[c].part[s] = Failed => s \notin alive

(* No connection is served by a shard that has yet to load its part of the *)
(* RDB file.                                                               *)
ServedAfterLoad ==
  \A c \in Conns : conn[c].state \in {"reading", "parsing", "waiting"} =>
    control[conn[c].home] = <<>>

(* The n-th request of a connection gets its n-th reply, unless the        *)
(* connection ends: channels that are full on both sides, and threads that *)
(* die with commands in their channel, keep nobody waiting forever.        *)
EveryRequestAnswered ==
  \A c \in Conns : \A n \in 1 .. MaxReqs :
    (conn[c].sent >= n) ~> (Len(conn[c].got) >= n \/ conn[c].state = "closed" \/ conn[c].gone)

(* Loading the RDB file at startup replaces nothing that a client wrote.   *)
LoadKeepsWrites ==
  [][\A s \in Shards : control'[s] # control[s] /\ control[s] # <<>> /\ s \in alive' =>
       \A d \in DBs, k \in Keys : store[s][d][k] # Nil => store'[s][d][k] = store[s][d][k]]_vars

-----------------------------------------------------------------------------
(* The reply of a command on one shard exists from the moment it ran. *)
Early(x) ==
  IF x.state = "waiting" /\ \E s \in Shards : x.part[s].state = "done"
  THEN <<Merge(x.req, x.home, x.part)>> ELSE <<>>
Late(x) == IF x.state = "waiting" /\ Early(x) = <<>> THEN <<x.req>> ELSE <<>>

(* The keys of r are on one shard. *)
CoLocated(r) == \E s \in Shards : {shard(r.keys[i]) : i \in DOMAIN r.keys} = {s}

(* What one store would have: the keys of all shards, and of each          *)
(* connection the requests that have not run and the replies.              *)
TodoOf(x) == Late(x) \o x.read_buf \o x.sock
RepliesOf(x) == Replies(x) \o Early(x)

oneMap == [d \in DBs |-> [k \in Keys |-> store[shard(k)][d][k]]]
oneDb == [c \in Conns |-> conn[c].db]
oneTodo == [c \in Conns |-> TodoOf(conn[c])]
oneReplies == [c \in Conns |-> RepliesOf(conn[c])]

Linear == INSTANCE LinearStore WITH
  map <- oneMap, db <- oneDb, todo <- oneTodo, replies <- oneReplies

(* Commands whose keys are on one shard behave as if one store took them   *)
(* one at a time, whichever threads and channels they go through.          *)
ImplementsLinearStore == Linear!Spec

(* Where that holds: requests of these kinds, arguments that pass the      *)
(* checks of arity, and no startup load, panic or client that leaves.      *)
OneShardCommands ==
  /\ Rdb = EmptyStore /\ MaxPanics = 0 /\ Leavers = {}
  /\ \A r \in Requests :
       /\ r.op \in {"GET", "SET", "MGET", "MSET", "MSETNX", "RENAME", "SELECT"}
       /\ r.op \in {"GET", "SET", "MGET", "MSET"} => CoLocated(r)
       /\ r.op = "MSETNX" => r.keys # <<>>
=============================================================================
