----------------------------- MODULE MCShardSet ------------------------------
(* ShardSet on small instances: keys x and y carry the tag t, z does not.   *)
(* With two shards, t is on shard 0 and z on shard 1; with three, z is on   *)
(* shard 2, away from the shards of the first two connections' threads.     *)
EXTENDS ShardSet

Tag == [k \in Keys |-> IF k = "z" THEN "z" ELSE "t"]
Crc == [k \in Keys \cup {"t"} |-> CASE k = "x" -> 0 [] k = "y" -> 1 [] k = "z" -> 5 [] OTHER -> 6]

NoRdb == EmptyStore
RdbAll == [d \in DBs |-> [k \in Keys |-> IF d = 0 THEN 1 ELSE Nil]]
RdbZ == [d \in DBs |-> [k \in Keys |-> IF d = 0 /\ k = "z" THEN 1 ELSE Nil]]

Req(op, keys) == [op |-> op, keys |-> keys]
Put(op, keys, v) == [op |-> op, keys |-> keys, vals |-> [i \in DOMAIN keys |-> v]]
Select(d) == [op |-> "SELECT", keys |-> <<>>, db |-> d]

AllRequests ==
  {Req("GET", <<"z">>), Put("SET", <<"x">>, 1), Req("MGET", <<"z", "x", "z">>),
   Put("MSET", <<"x", "z">>, 1), Put("MSETNX", <<"z">>, 1), Req("DEL", <<"x", "z">>),
   Req("EXISTS", <<"z", "z">>), Req("RENAME", <<"z", "x">>), Req("PING", <<>>),
   Select(1), Select(2)}
  \cup {Req(op, <<>>) : op \in Global \cup {"QUIT", "GARBAGE", "INVALID"}}

LiveRequests == {Req("KEYS", <<>>), Req("DEL", <<"x", "z">>)}

OneShardRequests ==
  {Req("GET", <<"z">>), Put("SET", <<"z">>, 2), Put("MSET", <<"x", "y">>, 1), Req("MGET", <<"y", "x">>),
   Req("RENAME", <<"x", "y">>), Req("RENAME", <<"x", "z">>), Put("MSETNX", <<"y", "x">>, 2), Select(1),
   Select(2)}

(* What ImplementsLinearStore is proved under. *)
ASSUME OneShardInstance == Requests = OneShardRequests => OneShardCommands

LoadRequests == {Put("SET", <<"z">>, 2), Req("GET", <<"z">>)}

-----------------------------------------------------------------------------
(* When the keys of the RDB file are only deleted, concurrent DELs over    *)
(* several shards count each deleted key once, as long as no thread dies:  *)
(* what was counted and what is left add up to what was loaded or is still *)
(* to be.                                                                  *)
Counted(x) ==
  LET R == Replies(x)
      D == {s \in Shards : x.req.op = "DEL" /\ x.part[s].state = "done"}
  IN  MapThenSumSet(LAMBDA i : R[i].int, {i \in DOMAIN R : R[i].type = "integer"})
      + MapThenSumSet(LAMBDA s : x.part[s].reply.int, D)
DeletionsCounted ==
  LET pending(s) == s \in boot \/ control[s] # <<>>
  IN  panics = 0 =>
        MapThenSumSet(LAMBDA c : Counted(conn[c]), Conns)
        + Cardinality({k \in Keys : store[shard(k)][0][k] # Nil \/ pending(shard(k))})
        = Cardinality(Keys)
=============================================================================
