----------------------------- MODULE Persistence -----------------------------
(***************************************************************************)
(* Saving to and loading from the RDB file: SAVE and BGSAVE collect a      *)
(* snapshot from every shard and write it to a temporary file that is then *)
(* renamed; a start of the process loads the file.  Saves overlap, fail    *)
(* and meet dead shard threads; the process may be killed at any moment    *)
(* (what was handed to the operating system survives).                     *)
(*                                                                         *)
(* A file is a sequence of tokens: a database selector with its resize     *)
(* hint, an expiry, a type byte with key and value, the EOF mark, or the   *)
(* checksum; the header and the auxiliary fields are the same in every     *)
(* file.  All tokens take one place.  Each save writes at the offset of    *)
(* its own handle, and a handle stays with its file when it is renamed.    *)
(***************************************************************************)
EXTENDS Integers, Sequences, FiniteSetsExt

CONSTANTS
  NumShards, NumDBs,
  Order,       \* the keys, in the iteration order of the prime tables
  shard,       \* the shard of each key
  Strings,     \* string values
  Collection,  \* any list, set, hash or sorted set
  Absent,      \* no entry
  None,        \* no deadline, file or snapshot
  Commands,    \* <<name, entry>>: what commands of clients leave behind
  Savers,      \* clients that send SAVE or BGSAVE
  Inodes,      \* files the file system can hold
  MaxNow, MaxCommands, MaxSaves, MaxCrashes, MaxPanics  \* bounds

Shards == 0 .. NumShards - 1
Keys == {Order[i] : i \in DOMAIN Order}
DBs == 0 .. NumDBs - 1
Names == DBs \X Keys
Deadlines == Nat \cup {None}
Entries == [value : Strings \cup {Collection}, expire : Deadlines]
OnShard(s) == {n \in Names : shard[n[2]] = s}
Snapshots == [Shards -> UNION {[OnShard(s) -> Entries \cup {Absent}] : s \in Shards}]

ASSUME PersistenceAssumption ==
  /\ NumShards \in Nat \ {0} /\ NumDBs \in Nat \ {0}
  /\ Order \in Seq(Keys)
  /\ \A k \in Keys : shard[k] \in Shards
  /\ Collection \notin Strings
  /\ Absent \notin Entries
  /\ None \notin Nat \cup Inodes \cup Snapshots
  /\ \A c \in Commands : c[1] \in Names /\ c[2] \in Entries \cup {Absent}

VARIABLES
  up,       \* the process runs
  now,      \* the clock
  store,    \* entry of each name; a name is on the shard of its key
  alive,    \* shards whose thread runs
  loading,  \* shards whose Load message is still in the control channel
  rdb,      \* the entries that main read from the file
  saver,    \* the saves in progress
  dump,     \* the file named dump.rdb
  tmp,      \* the file named dump.rdb.tmp
  data,     \* the contents of the files
  count,    \* how often each bounded thing happened
  taken,    \* (history) the complete snapshots collected
  saved,    \* (history) the snapshot of the last save that succeeded
  origin,   \* (history) the snapshot saved last before the process started
  touched,  \* (history) shards that ran a command since the process started
  overlap   \* (history) a save opened the temporary file while another had it open

disk == <<dump, tmp, data>>
vars == <<up, now, store, alive, loading, rdb, saver, disk, count,
          taken, saved, origin, touched, overlap>>

-----------------------------------------------------------------------------
(* The RDB format. *)

(* One sequence after the other. *)
Concat(seqs) ==
  LET cat[i \in 0 .. Len(seqs)] == IF i = 0 THEN <<>> ELSE cat[i - 1] \o seqs[i]
  IN  cat[Len(seqs)]

(* A collection is skipped, its deadline is not. *)
write_key_value(k, e) ==
  (IF e.expire = None THEN <<>> ELSE <<[op |-> "expire", ms |-> e.expire]>>)
  \o (IF e.value = Collection THEN <<>> ELSE <<[op |-> "string", key |-> k, value |-> e.value]>>)

(* The entry of a key of shard s, if there is one. *)
KeyTokens(snap, d, s, k) ==
  IF shard[k] # s \/ snap[s][<<d, k>>] = Absent THEN <<>> ELSE write_key_value(k, snap[s][<<d, k>>])

(* One database of a snapshot: shard after shard, in iteration order. *)
DbTokens(snap, d) ==
  IF \A k \in Keys : snap[shard[k]][<<d, k>>] = Absent THEN <<>>
  ELSE <<[op |-> "select", db |-> d]>>
       \o Concat([i \in 1 .. NumShards |->
            Concat([j \in 1 .. Len(Order) |-> KeyTokens(snap, d, i - 1, Order[j])])])

(* What save_rdb writes.  The checksum tells all files apart: it is the    *)
(* sequence of tokens that it covers, the EOF mark included.               *)
Image(snap) ==
  LET covered == Append(Concat([i \in 1 .. NumDBs |-> DbTokens(snap, i - 1)]), [op |-> "eof"])
  IN  Append(covered, [op |-> "crc", of |-> covered])

(* Mutant: the checksum is not compared. *)
stored_crc_ignored(t, crc) == "end"

(* What stands where the checksum should, which is compared unless it is   *)
(* zero: then, as in a hole, the file is taken as it is.                   *)
stored_crc(t, crc) ==
  CASE t.op = "hole" -> "unchecked"
    [] t.op = "crc" -> IF t.of = crc THEN "end" ELSE "error"
    [] t.op \notin {"hole", "crc"} -> "error"

(* One token of read_entry.  After an expiry the next byte is a type byte  *)
(* whatever it is; one that is not, a hole or a checksum leaves the reader *)
(* at a place in the middle of a token.                                    *)
read_entry(acc, t) ==
  LET a == [acc EXCEPT !.crc = Append(@, t)]
  IN  IF acc.status \notin {"reading", "eof"} THEN acc
      ELSE IF acc.status = "eof" THEN [a EXCEPT !.status = stored_crc(t, acc.crc)]
      ELSE CASE t.op = "string" ->
                  [a EXCEPT !.expire = None,
                            !.entries = Append(@, [name |-> <<acc.db, t.key>>, value |-> t.value,
                                                   expire |-> acc.expire])]
             [] t.op # "string" /\ acc.expire # None -> [a EXCEPT !.expire = None, !.garbled = TRUE]
             [] t.op = "eof" /\ acc.expire = None -> [a EXCEPT !.status = "eof"]
             [] t.op = "select" /\ acc.expire = None -> [a EXCEPT !.db = t.db]
             [] t.op = "expire" /\ acc.expire = None -> [a EXCEPT !.expire = t.ms]
             [] OTHER -> [a EXCEPT !.garbled = TRUE]

(* Without an EOF mark and a checksum the reader runs into the end of the  *)
(* file.                                                                   *)
Start == [status |-> "reading", db |-> 0, expire |-> None, garbled |-> FALSE, crc |-> <<>>, entries |-> <<>>]
load_all(file) ==
  LET read[i \in 0 .. Len(file)] == IF i = 0 THEN Start ELSE read_entry(read[i - 1], file[i])
  IN  read[Len(file)]

-----------------------------------------------------------------------------
Part(st, s) == [n \in OnShard(s) |-> st[n]]
Empty == [n \in Names |-> Absent]

Idle == [pc |-> "idle"]
Collecting(b) == saver[b].pc = "collect"
Writing(b) == saver[b].pc = "write"
Collected(b) == \A s \in Shards : saver[b].snap[s] # None
Used == {dump, tmp} \cup {saver[b].file : b \in {x \in Savers : Writing(x)}}

Ends(b) == saver' = [saver EXCEPT ![b] = Idle]

Init ==
  /\ up = TRUE /\ now = 0
  /\ store = Empty
  /\ alive = Shards /\ loading = {} /\ rdb = <<>>
  /\ saver = [b \in Savers |-> Idle]
  /\ dump = None /\ tmp = None
  /\ data = [i \in Inodes |-> <<>>]
  /\ count = [commands |-> 0, saves |-> 0, crashes |-> 0, panics |-> 0]
  /\ taken = {} /\ saved = None /\ origin = None
  /\ touched = {} /\ overlap = FALSE

history == <<taken, saved, origin, touched, overlap>>

(* (Bound: only a load reads the clock, so that it moves before one.) *)
Tick ==
  /\ now < MaxNow
  /\ ~up \/ loading # {}
  /\ now' = now + 1
  /\ UNCHANGED <<up, store, alive, loading, rdb, saver, disk, count, history>>

(* A command of a client changes one entry of a shard. *)
Command(s) ==
  /\ up /\ s \in alive
  /\ count.commands < MaxCommands
  /\ \E c \in Commands :
       /\ shard[c[1][2]] = s
       /\ store' = [store EXCEPT ![c[1]] = c[2]]
  /\ count' = [count EXCEPT !.commands = @ + 1]
  /\ touched' = touched \cup {s}
  /\ UNCHANGED <<up, now, alive, loading, rdb, saver, disk, taken, saved, origin, overlap>>

(* A handler panics in the event loop of a shard.  (Bound: while a save    *)
(* collects; at other times only the next save could tell.)                *)
Panic(s) ==
  /\ up /\ s \in alive
  /\ \E b \in Savers : Collecting(b)
  /\ count.panics < MaxPanics
  /\ alive' = alive \ {s}
  /\ count' = [count EXCEPT !.panics = @ + 1]
  /\ UNCHANGED <<up, now, store, loading, rdb, saver, disk, history>>

(* handle_save starts.  SAVE is answered when it ends, BGSAVE at once. *)
handle_save(b) ==
  /\ up
  /\ saver[b].pc = "idle"
  /\ count.saves < MaxSaves
  /\ saver' = [saver EXCEPT ![b] = [pc |-> "collect", snap |-> [s \in Shards |-> None]]]
  /\ count' = [count EXCEPT !.saves = @ + 1]
  /\ UNCHANGED <<up, now, store, alive, loading, rdb, disk, history>>

(* The event loop of shard s takes the Snapshot message from its control   *)
(* channel, behind the Load message if that is still there.                *)
collect_snapshot(b, s) ==
  /\ up /\ Collecting(b)
  /\ saver[b].snap[s] = None
  /\ s \in alive /\ s \notin loading
  /\ saver' = [saver EXCEPT ![b].snap[s] = Part(store, s)]
  /\ taken' = IF \A t \in Shards : saver'[b].snap[t] # None THEN taken \cup {saver'[b].snap} ELSE taken
  /\ UNCHANGED <<up, now, store, alive, loading, rdb, disk, count, saved, origin, touched, overlap>>

(* Mutant: nobody tells the save that the thread is gone. *)
collect_fails_never(b, s) == FALSE /\ UNCHANGED vars

(* The channel or the reply of a dead shard is closed.  The replies are    *)
(* awaited in the order of the shards.                                     *)
collect_fails(b, s) ==
  /\ up /\ Collecting(b)
  /\ s \notin alive /\ saver[b].snap[s] = None
  /\ \A t \in 0 .. s - 1 : saver[b].snap[t] # None
  /\ Ends(b)
  /\ UNCHANGED <<up, now, store, alive, loading, rdb, disk, count, history>>

(* Mutant: the snapshot is written straight to dump.rdb. *)
save_rdb_create_in_place(b) ==
  /\ up /\ Collecting(b) /\ Collected(b)
  /\ \E i \in IF dump # None THEN {dump} ELSE Inodes \ Used :
       /\ tmp' = i
       /\ data' = [data EXCEPT ![i] = <<>>]
       /\ saver' = [saver EXCEPT ![b] = [pc |-> "write", snap |-> @.snap,
                                         image |-> Image(@.snap), file |-> i, off |-> 0]]
  /\ overlap' = (overlap \/ \E c \in Savers \ {b} : Writing(c))
  /\ UNCHANGED <<up, now, store, alive, loading, rdb, dump, count, taken, saved, origin, touched>>

(* File::create: a new file, or the one that is there, truncated. *)
save_rdb_create(b) ==
  /\ up /\ Collecting(b) /\ Collected(b)
  /\ \E i \in IF tmp # None THEN {tmp} ELSE Inodes \ Used :
       /\ tmp' = i
       /\ data' = [data EXCEPT ![i] = <<>>]
       /\ saver' = [saver EXCEPT ![b] = [pc |-> "write", snap |-> @.snap,
                                         image |-> Image(@.snap), file |-> i, off |-> 0]]
  /\ overlap' = (overlap \/ \E c \in Savers \ {b} : Writing(c))
  /\ UNCHANGED <<up, now, store, alive, loading, rdb, dump, count, taken, saved, origin, touched>>

(* The token at an offset of a file is overwritten; what a shorter file    *)
(* lacks up to there is a hole.                                            *)
WriteAt(file, off, t) ==
  [i \in DOMAIN file \cup 1 .. off + 1 |->
    IF i = off + 1 THEN t ELSE IF i \in DOMAIN file THEN file[i] ELSE [op |-> "hole"]]

save_rdb_write(b) ==
  /\ up /\ Writing(b)
  /\ LET x == saver[b]
     IN  /\ x.off < Len(x.image)
         /\ data' = [data EXCEPT ![x.file] = WriteAt(@, x.off, x.image[x.off + 1])]
         /\ saver' = [saver EXCEPT ![b].off = @ + 1]
  /\ UNCHANGED <<up, now, store, alive, loading, rdb, dump, tmp, count, history>>

(* The rename takes the file that has the temporary name, and fails if     *)
(* there is none.                                                          *)
save_rdb_rename(b) ==
  /\ up /\ Writing(b)
  /\ saver[b].off = Len(saver[b].image)
  /\ \/ tmp # None /\ dump' = tmp /\ tmp' = None /\ saved' = saver[b].snap
     \/ tmp = None /\ UNCHANGED <<dump, tmp, saved>>
  /\ Ends(b)
  /\ UNCHANGED <<up, now, store, alive, loading, rdb, data, count, taken, origin, touched, overlap>>

(* Creating the file or writing to it fails; it stays as it is. *)
save_rdb_fails(b) ==
  /\ up
  /\ Writing(b) \/ (Collecting(b) /\ Collected(b))
  /\ Ends(b)
  /\ UNCHANGED <<up, now, store, alive, loading, rdb, disk, count, history>>

(* The process is killed. *)
Crash ==
  /\ up
  /\ count.crashes < MaxCrashes
  /\ up' = FALSE
  /\ saver' = [b \in Savers |-> Idle]
  /\ count' = [count EXCEPT !.crashes = @ + 1]
  /\ UNCHANGED <<now, store, alive, loading, rdb, disk, history>>

(* main: load_rdb, then a Load message to every shard that has entries.    *)
(* An error is logged and nothing is loaded.  Where a file is garbled, the *)
(* reader goes on in the middle of a token: to an error, to the end mark,  *)
(* or to bytes that look like one with a checksum of zero.  (Entries that  *)
(* misread bytes make up are left out: no property is about such a load.)  *)
Boot ==
  /\ ~up
  /\ up' = TRUE
  /\ store' = Empty
  /\ alive' = Shards
  /\ LET r == load_all(IF dump = None THEN <<>> ELSE data[dump])
         accepted == r.status \in {"end", "unchecked"}
     IN  \/ accepted /\ rdb' = r.entries
         \/ (~accepted \/ r.garbled) /\ rdb' = <<>>
         \/ r.garbled /\ \E n \in 1 .. Len(r.entries) : rdb' = SubSeq(r.entries, 1, n)
  /\ loading' = {shard[rdb'[i].name[2]] : i \in DOMAIN rdb'}
  /\ origin' = IF dump = None THEN None ELSE saved
  /\ touched' = {}
  /\ UNCHANGED <<now, saver, disk, count, taken, saved, overlap>>

(* Mutant: the deadline is dropped. *)
load_entry_undated(st, e) ==
  IF e.expire # None /\ e.expire <= now THEN st
  ELSE [st EXCEPT ![e.name] = [value |-> e.value, expire |-> None]]

(* add_or_update keeps a deadline that is there, add_expire replaces it. *)
load_entry(st, e) ==
  IF e.expire # None /\ e.expire <= now THEN st
  ELSE [st EXCEPT ![e.name] =
         [value |-> e.value,
          expire |-> IF e.expire = None /\ st[e.name] # Absent THEN st[e.name].expire ELSE e.expire]]

(* main hands each entry to the shard of its key. *)
load_on(s, st, e) == IF shard[e.name[2]] = s THEN load_entry(st, e) ELSE st

load_entries(s) ==
  /\ up /\ s \in loading
  /\ LET load[i \in 0 .. Len(rdb)] == IF i = 0 THEN store ELSE load_on(s, load[i - 1], rdb[i])
     IN  store' = IF s \in alive THEN load[Len(rdb)] ELSE store
  /\ loading' = loading \ {s}
  /\ UNCHANGED <<up, now, alive, rdb, saver, disk, count, history>>

SaveStep(b) ==
  \/ \E s \in Shards : collect_snapshot(b, s) \/ collect_fails(b, s)
  \/ save_rdb_create(b) \/ save_rdb_write(b) \/ save_rdb_rename(b)

Next ==
  \/ Tick \/ Crash \/ Boot
  \/ \E s \in Shards : Command(s) \/ Panic(s) \/ load_entries(s)
  \/ \E b \in Savers : handle_save(b) \/ SaveStep(b) \/ save_rdb_fails(b)

Spec == Init /\ [][Next]_vars

-----------------------------------------------------------------------------
(* As long as no two saves have the temporary file open at once, dump.rdb  *)
(* is at every moment, and so after a crash at any moment, the whole of    *)
(* what the last successful save collected: never a part of it, however    *)
(* many saves fail or are cut off in between ("Write to a temp file first, *)
(* then rename atomically", snapshot.rs:23).                               *)
DumpWhole ==
  dump # None /\ ~overlap =>
    /\ DOMAIN data[dump] = 1 .. Len(Image(saved))
    /\ \A i \in 1 .. Len(Image(saved)) : data[dump][i] = Image(saved)[i]

(* The strings of a snapshot: collections are not saved. *)
Saved(snap) ==
  [n \in Names |->
    LET e == snap[shard[n[2]]][n]
    IN  IF e = Absent \/ e.value = Collection THEN Absent ELSE e]

Loaded(r) ==
  [n \in Names |->
    LET I == {i \in DOMAIN r.entries : r.entries[i].name = n}
    IN  IF I = {} THEN Absent
        ELSE [value |-> r.entries[Max(I)].value, expire |-> r.entries[Max(I)].expire]]

(* A snapshot with a collection that has a deadline leaves an expiry in    *)
(* the file that belongs to no entry.                                      *)
Dangling(snap) ==
  \E n \in Names : LET e == snap[shard[n[2]]][n]
                   IN  e # Absent /\ e.value = Collection /\ e.expire # None

(* Saves that overlap write into each other's file, even after one of them *)
(* renamed it.  A file that load_rdb accepts by comparing its checksum is  *)
(* still read as one complete snapshot, never as a mix of several, and     *)
(* gives its strings unless an expiry dangles in it.  (One whose stored    *)
(* checksum is zero is accepted as it is, and may be a mix.)               *)
LoadsASnapshot ==
  dump # None =>
    LET r == load_all(data[dump])
    IN  r.status = "end" =>
          \E snap \in taken : /\ r = load_all(Image(snap))
                              /\ Dangling(snap) \/ Loaded(r) = Saved(snap)

(* A shard that has started, loaded its part of the file and run no        *)
(* command yet holds the strings of the last successful save with their    *)
(* deadlines, except those that were due when it loaded them: saving,      *)
(* crash, restart and load lose and invent nothing.                        *)
RecoveredState ==
  up /\ ~overlap =>
    \A s \in Shards \ (loading \cup touched) :
      IF origin = None THEN Part(store, s) = Part(Empty, s)
      ELSE (s \in alive /\ ~Dangling(origin)) =>
             \E t \in 0 .. now :
               Part(store, s) =
                 [n \in OnShard(s) |->
                   LET e == Saved(origin)[n]
                   IN  IF e # Absent /\ e.expire # None /\ e.expire <= t THEN Absent ELSE e]

(* A save is never stuck, whichever threads die and whichever other save   *)
(* takes its file away: once the Load messages are gone, its next step is  *)
(* possible.  (Each step leaves it fewer, so that it ends and SAVE gets    *)
(* its answer.)                                                            *)
SaveNotStuck ==
  up /\ loading = {} => \A b \in Savers : saver[b].pc # "idle" => ENABLED SaveStep(b)
=============================================================================
