# A TLA+ model of ShrikeDB

ShrikeDB is a Redis-compatible in-memory database. Each shard is one OS thread with a cooperative
executor that owns its data; a connection lives on one shard's thread and sends commands on other
shards' keys through channels. This directory models its parts in TLA+, checks them with TLC on small
instances and proves some of their properties with TLAPS for instances of every size.

`PROJECT.json` lists the components, the runs, the source lines behind every definition, the mutants
that show that each property can fail, the findings, the hazards and the theorems.

## 1. The system

Paths are relative to `src/crates/`.

| Part | Source | State | Operations | What is hard about it |
|---|---|---|---|---|
| Bucket, segment | `shrikedb-core/src/dash/{bucket,segment}.rs` | slots, fingerprints, stash pointers, overflow count | find, insert_new, delete | three places for a key; stash bookkeeping shared by keys |
| DashTable | `dash/table.rs` | vector of segments, size | find, insert, remove, scan, retain, clear, grow | growth rebuilds everything and may panic half-way |
| Cursor | `dash/cursor.rs`, `generic_family.rs` | a number | SCAN | table changes between calls |
| Database | `shrikedb-server/src/{db_table,db_slice}.rs` | prime and expire table, clock | lookup with lazy expiry, writes, rename, sweep | two tables to keep in step, keys that linger past their deadline |
| Commands | `commands/*_family.rs` | none of their own | one handler per command | deadline and counter arithmetic, options |
| Shard thread | `shard_thread.rs` | three channels, engine, connections | event loop, 1 ms and 100 ms task, dispatch | biased select, fan-out, waiting on other shards |
| Shard set, startup | `engine_shard_set.rs`, `main.rs` | senders of all channels | spawn, load, snapshot | messages are queued, not done |
| Listener | `shrikedb-facade/src/listener.rs` | next shard | accept | full or closed channel |
| Parser, replies | `resp_parser.rs`, `reply_builder.rs` | partial command | parse, format | input in arbitrary pieces |
| Persistence | `shrikedb-persistence/src/*.rs` | file, temporary file | save, load | crash between steps, formats |
| Routing | `sharding.rs` | none | shard(key) | hash tags |
| Transactions, locks | `transaction.rs`, `intent_lock.rs`, `tx_queue.rs` | none | none | empty files |

Interactions: a connection task borrows its shard's engine for the part of a command that is local and
runs it without waiting; other parts travel through the cross-shard channel of their shard and are
run by that shard's event loop, which answers through a one-shot channel. The 1 ms and 100 ms task and all
connection tasks of a shard share one thread, so two handlers never overlap on a shard. Everything that
can go wrong between threads happens at awaits.

Two facts shape what is reachable in the shipped program. `main.rs` runs `Listener::run_distributed`
with shard threads; `MainService::dispatch` and the other `run_*` functions of the listener are not
called. `SAVE` and `BGSAVE` are refused by `dispatch_command`, so an RDB file is loaded and never saved
there; `Persistence` models the code that `MainService::handle_save` runs.

## 2. Modules

| Module | Models | Relation |
|---|---|---|
| `Segment` | `bucket.rs`, `segment.rs` as operators on a segment | used by `DashTable` |
| `DashTable` | `table.rs`: one action per call; loops of grow, insert_no_dup and retain step by step | implements `TableMap` as `DashMap` says |
| `DashMap` | the map behind a table, and the two steps that keep a table from being one | maps `DashTable` to `TableMap` |
| `TableMap` | abstract: a map | |
| `DashScan` | one client's SCAN iteration over a `DashTable` | composes scan and all table calls |
| `DbTable` | `db_table.rs`, the operations of `db_slice.rs` that ignore the clock, arithmetic, replies | used by `DbSlice` |
| `DbSlice` | `db_slice.rs`, string and generic commands, LPUSH/LPOP, clock and sweep tasks | implements `EagerStore` |
| `EagerStore` | abstract: keys vanish at their deadline | |
| `ShardSet` | listener, event loops, dispatch, fan-out, startup load, dying threads and clients | implements `LinearStore` on co-located keys |
| `LinearStore` | abstract: one request at a time | |
| `Persistence` | `handle_save`, `collect_snapshots`, `snapshot.rs`, the entry format, startup load, kill and restart | |
| `Containers` | what handlers do inside a value: loops over arguments, `VecDeque`, `HashMap`, `BTreeMap`, `SortedSetEntry`, `zset_add`, `zset_remove` | used by `Collections` |
| `Collections` | the commands of the list, set, hash and sorted-set families that change a value | used by `CollectionReads` |
| `CollectionReads` | the commands of these families that read one, and properties of both | |
| `RespParser` | `resp_parser.rs` and the read loop of `handle_connection` | |
| `Glob` | `glob_match` and a definition of what patterns mean | |
| `RdbCodec` | lengths, strings and integers in an RDB file, written and read | |
| `DbSliceProofs`, `DashTableProofs`, `ShardSetProofs`, `PersistenceProofs`, `CollectionsProofs` | invariants of `DbSlice`, `DashTable`, `ShardSet`, `Persistence`, `Collections` | theorems |
| `DashViewProofs` | `DashTable` finds its keys and implements `TableMap`; invariant of `DashScan` | theorems |
| `DbSliceRefinement` | `DbSlice` implements `EagerStore` | theorem |
| `ShardSetRefinement` | `ShardSet` implements `LinearStore` on co-located keys | theorem |
| `MC*` | instances for TLC | |

### How state and actions correspond to the code

**Segment, DashTable.** A segment is a record of `slot` (position to item or `Empty`), `ptr` (the four
stash pointers of each bucket) and `over` (`overflow_count`). Operators carry the names of the
methods. Sizes 64/12/4 are constants, and the hash of a key is a constant record of the three parts of
it that the code reads. Bit layouts are abstracted. A stored fingerprint always is the stored key's, so
comparing it before the key is left out of bucket searches; for stash pointers, where it decides, it
is kept. `job` is the local state of a call that loops; no call starts before `job` is idle. A panic
either ends the thread (`job.what = "panic"`) or, in a connection task, is caught by the runtime and
leaves the table in use; both are modelled.

**DashScan.** `it` records one iteration: cursor, keys returned so far, keys present since its first call
and whether entries were removed or moved.

**DbTable, DbSlice.** A value is an integer, some other string, or a collection. An integer and the string
of the same digits are one value. `Trimmed` gives the integer that other strings (`" 5"`, `"+5"`) read
as, because `as_integer` trims and parses. A deadline is a `u64`; products and sums wrap as in the
release profile, which `Cargo.toml` leaves at its default. `last` records the last command, its
keys, the deadline it gave and its reply. `now_ms` is read from the wall clock, taken here never to go
back. Keys are numbered in the iteration order of the expire table; the prime table has a hasher of
its own, so RANDOMKEY may return any key. So may SCAN any keys: which ones a cursor gives is the subject of `DashScan`.

**ShardSet.** Each step is what one task does between two awaits. `conn[c]` holds a connection's
buffers, database and command in progress; `part[s]` is the part of that command for shard `s`, from unsent to
done or failed. A shard's data is a map: deadlines are left to `DbSlice` (the load skips entries that
are past theirs; here they are not in `Rdb`). The event loop polls its channels in turn; a step of the model tests
that those of higher priority are empty and takes a message at one moment. A message that arrives at such a channel
after it was polled is thus missed by the code and not by the model. Where it matters, with a Load message and then a
connection arriving between the two polls, all the loop does is to spawn the connection's task, which first runs when
the loop has polled its channels once more, and so served the Load message. (tokio's limit on the messages a task may take in one
go, which could end that second poll early, is left out.) GET and SET stand for all
commands on one key. A panic in the event loop ends the thread; one in a connection task ends
the connection and may leave any mix of old, new and lost entries. `Parts` is how a command is split,
`SumReply`, `MgetReply`, `GlobalReply` and `Merge` are how the dispatch functions put the replies together.

**Persistence.** A file is a sequence of tokens (selector, expiry, string entry, EOF mark, checksum), and
files have identities apart from their names: a save holds a handle with an offset, and its handle stays
with the file when another save renames it. `saver[b]` is a save in progress. A snapshot is collected shard by
shard between commands. `Crash` kills the process at any moment; what was written stays. `Boot` reads
the file and queues the Load messages, which `load_entries` serves. A checksum is the sequence of tokens it
covers, so that no two contents have the same one, and none is zero. A stored checksum of zero is not compared
(`rdb_load.rs:82`). No save writes one, but two saves at once may leave a hole behind an EOF mark, which reads as zero: `stored_crc`
then gives `"unchecked"`, and `Boot` loads whatever was read. All tokens take one place, so that what one save overwrites of another's
file is always a number of whole tokens; where a hole or a checksum is read as something else the content
is `garbled`, and `Boot` may load any part of what was read, or nothing. Entries that misread bytes make up are left out, and no
property is about a load of such a file. `taken`, `saved`, `origin`, `touched` and `overlap` are history.

**Containers, Collections, CollectionReads.** `cmd_x(v, ...)` gives the value that the handler of X leaves for the value `v` of its key,
and its reply. Elements and members are numbers in the order of their bytes; a number kept as text is
counted in halves, so that HINCRBYFLOAT has fractions; `i64` wraps at a small width. A sorted set is its
member map and its score map, the latter searched the way a one-node BTreeMap is, so that entries which
compare equal without being equal (NaN) have the effect they have in the code. A loop of a handler is a recursive
function of the number of rounds it has made.

**RespParser.** One step is one iteration of the loop in `parse()`; `ReadSome` appends any number of the bytes
on the wire. A header such as `$3` is one token and its CR and LF are two more.

**Glob, RdbCodec** are functions, checked on all inputs up to a bound; their variables hold an input.

## 3. Runs

Passing runs:

| Run | Checks | Bounds, and why they are enough |
|---|---|---|
| `DbSlice_keys` | types; no orphaned deadline; no revived deadline; refinement of `EagerStore` | two keys (RENAME needs two), deadlines modulo 4, TTLs -1 and 1, seconds of 2 ms: wrapping sums, products and negative timestamps all occur; a string that reads as an integer; SET with NX, XX, GET and KEEPTTL |
| `DbSlice_sweep` | expired keys are reclaimed; every sweep makes progress | as many keys as a sweep looks at; one tick of the clock, deadlines before, at and after it |
| `DashTable_map` | types and counts; every entry is found; refinement of `TableMap` | seven keys of one home bucket, two values: six fill home, next and stash bucket and exceed the stash pointers, the seventh makes the table grow; retain |
| `DashScan_adds` | placement; size; every entry is found; SCAN misses nothing while entries are only added | buckets of one slot and five keys: growth, growth that does not help, both panics; COUNT 2: iterations of up to three calls |
| `ShardSet_all` | types; keys only on their shard; parts fail only when the shard is dead | three shards, all requests, channels of capacity one, one panic, a client that leaves, a startup load |
| `ShardSet_live` | every request is answered; concurrent DELs count each key once; no connection is served before its shard has loaded | three shards, channels of capacity one that two connections fill, one panic, two requests, two loaded keys |
| `ShardSet_linear` | refinement of `LinearStore` | three pipelined requests of two clients, two databases |
| `Parts_all` | the five modules below, which share no state; an initial state picks the one that moves | |
| – `Persistence` | the file is one whole snapshot; what is loaded after its checksum was compared is one snapshot, even when saves overlapped; recovery loses and invents nothing; a save is never stuck | two shards, two databases, two overlapping saves, two commands, one dying thread, one kill and restart, the clock passing a deadline |
| – `Collections` | no empty collection; ranges, list edits, set operations and counters are exact; the two maps of a sorted set agree, and so do the commands that read them | lists of up to four elements with indices from -4 to 4; three members with scores -1, 1, both infinities and NaN; three keys on two shards for set operations; integers of 2 bits so that sums wrap |
| – `RespParser` | the commands that were sent, whatever the split | two items of the array, inline and malformed kinds, payloads that are empty, contain CR LF or are not UTF-8; every split |
| – `Glob` | matching agrees with the meaning of the pattern | three pattern parts, three characters, among them `*`, `[`, `-` and a byte that is not UTF-8; classes that are left open |
| – `RdbCodec` | strings read back as written | two strings, lengths and integers on both sides of each change of encoding below 2^31; 2^31 only from below, because TLC has no larger integers |

Violations, each of something a document, comment or test of the repository says:

| Run | Result |
|---|---|
| `DashTable_lost` | deleting a stash item clears a stash pointer of the next bucket that belongs to another key; that key is in the table and not found |
| `DashScan_removes` | a removal or growth during a SCAN iteration makes it miss keys that were there throughout |
| `DbSlice_starve` | a sweep starts from the first entry every time; live entries there hide expired ones |
| `ShardSet_load` | a cross-shard write overtakes the startup load and is overwritten by it |

More differences that no run is spent on. Each is in the models; those that a passing property has to
exempt are named in its comment, and the property fails without the exemption:

- RENAME of a key past its deadline that was not removed yet answers OK (`db_slice.rs:158`; exception of `EagerStore`).
- A sorted set that gets a NaN score keeps entries its member map does not have (`compact_obj.rs:100`; `ZSetInStep`).
- `(1` as a score bound is read as `1` (`zset_family.rs:393`; `SortedViewsAgree`).
- A stop before the first element is taken for the first element (`list_family.rs:185`; `RangesExact`).
- HINCRBY wraps (`hash_family.rs:256`; `CountersExact`), and so does DECRBY by the least i64 (`string_family.rs:485`).
- SINTER, SUNION and SDIFF do not see keys of other shards (`set_family.rs:196`; `SetOpsExact`).
- In a key, `*` and `[` are compared with the pattern's before these are read as operators (`db_slice.rs:286`; `GlobExact`).
- A line that ends in a bare LF runs on to the next CR LF if one is already in the buffer
  (`resp_parser.rs:298`; `CommandsAsSent`).
- The deadline of a collection is saved although the collection is not (`rdb_save.rs:62`; `RecoveredState`, `LoadsASnapshot`).
- Two saves at once share the temporary file (`snapshot.rs:24`; `DumpWhole`). A file whose checksum was compared is
  one snapshot even then (`LoadsASnapshot`). One whose checksum reads as zero is loaded without a comparison
  (`rdb_load.rs:82`), and may be a mix of both.
- `grow` rebuilds all segments, where `src/README.md:76` says that one is split at a time.
- SCAN with several shards returns the keys of one, as its comment admits (`shard_thread.rs:665`).

`AllFindable` holds in `DashTable_map` and `DashScan_adds`, where no two stash items belong to adjacent home
buckets and share a fingerprint, and fails in `DashTable_lost`, where two do.
`ScanCompleteUnmoved` and the passing run of `SweepProgress` likewise mark where the code keeps its promise.

`EagerStore` has five exceptions where lingering keys do show: DEL and DBSIZE may count them, RANDOMKEY and SCAN
return them, and RENAME moves them.

**Bounds.** `MaxNow` bounds the clock, `MaxReqs` the requests of all clients, `MaxPanics` the panics,
`MaxSegs` the size at which an insert may start to grow a table; in `Parts_all`, `MaxCommands`, `MaxSaves`,
`MaxCrashes` and `MaxPanics` bound what their names say, `MaxList`, `MaxFloat`, `MaxScore` and `MaxEntries` the
collections (`MaxEntries` only those NaN has put out of step, which grow without end), `MaxItems`, `MaxGlob`
and `MaxText` the inputs. Commands of one key run on `MainKey` while no other key but sets has a value, since
their handlers look at no other key. Channel capacities of one make every
full channel reachable. Symmetry is used only where keys, or savers, are interchangeable in every constant and no
liveness is checked; `VIEW` drops `last`, which no action reads and properties read only in its new value.

**Deadlock** is not checked in `ShardSet` runs and `Parts_all`, where clients may fall silent, and in `DashScan`
runs and `DashTable_lost`, in which a panic may end the thread.

**Fairness.** `DbSlice!FairSpec`: the sweep runs again and again, because it is a task of a cooperative
executor in which every command ends. `ShardSet!FairSpec`: each thread polls each of its tasks that can run
(tokio's current-thread runtime and LocalSet), and a sender that waits for room in a channel gets it in
turn (tokio's channels are fair). Clients and panics have no fairness.

## 4. Proofs

Each theorem holds for every value of the constants under the named assumptions of the module it is about.
Each rests on an inductive invariant that `Init` establishes and every action keeps; there is one step or lemma
per action.

**`DbSliceProofs`** (`ConstantsAssumption`, `SliceAssumption`): every set of keys, databases, values and TTL
arguments and every width of deadlines.

- `TypeCorrect`: `Spec => []TypeOK`. In particular no deadline leaves `u64` and no counter `i64`.
- `NoOrphans`: `Spec => []NoOrphanDeadline`.
- `NoRevivedDeadline`: `Spec => FreshKeyDeadline`.

The invariant is `TypeOK` together with `Sound` for every database: its tables have their
types and the expire table only has keys of the prime table. `TypeOK` alone does not give
`FreshKeyDeadline`: SETNX, INCRBY, APPEND and LPUSH keep whatever deadline the expire table holds for the
key, and only soundness says that an absent key has none. The lemmas show for each helper of `DbTable` and
`DbSlice` (Remove, add_or_update, add_expire, rename, the checks for expiry, the sweep) that it keeps a
sound database sound and brings no key to life with a deadline of its own; each command is then a
composition of helpers.

**`DbSliceRefinement`** (the same assumptions):

- `ExpiryIsInvisible`: `Spec => ImplementsEagerStore`.

The mapping hides from each database the keys past their deadline (`Visible`). A tick of the clock is a tick of
`EagerStore`, at which the keys that become due vanish; a sweep maps to a stutter, and so does whatever a command
removes because it is due. The central lemmas, in `DbSliceProofs`, say when two databases look alike at a time, that removing due keys
does not change how a database looks, and that what a command does to a database and to what is visible of it
looks alike afterwards, although the deadline it gives may itself be in the past or wrap. The invariant of
`DbSliceProofs` is needed: without it, a key brought back to life would be invisible because of the deadline it
had before. DEL, DBSIZE, RANDOMKEY, SCAN and RENAME map to the exceptions where a lingering key shows.

**`DashTableProofs`** (`SegmentAssumption`, `TableAssumption`): every number of buckets, slots, stash buckets
and segments, every set of keys and every hash.

- `AlwaysPlaced`: `Spec => []Placed`. An entry is in the segment and in a bucket where find looks for it.
- `SizeAlwaysExact`: `Spec => []SizeExact`.
- `CountsNeverOverflow`: `Spec => []TypeOK`. No bucket counts more stash items than the stash has room for.

None is inductive. `SizeExact` speaks of the moments between calls; the invariant says that size counts the
entries within growth and retain, too, so that a panic in the middle of growth leaves the count right. It also
says that what growth has left to move are entries of the old table, and what retain has left to delete are
entries of this one. The lemmas show that insert_new fills a free slot of an admissible bucket and that
delete, whatever it does to stash pointers, empties one slot.

The bound on the count needs a relation between the records of a bucket and the items in the stash (`SegmentOK`):
there is an injection from the pointers in use and the units of the count to the stash items whose home is the
bucket, which agrees with each pointer's fingerprint and stash bucket. It is an injection and no bijection,
because deleting an item may also drop a record of the next bucket (the finding behind `DashTable_lost`). When
delete drops another record of the home bucket than the one the injection gives the item, the two items have the same fingerprint
and stash bucket, or the record is a unit of the count, and the injection can be changed to match.

**`DashViewProofs`** (the same assumptions, `CountsAssumption`):

- `KeptIsFindable`: `Spec /\ [][NextKept]_vars => []AllFindable`.
- `TableIsMap`: `Spec /\ [][NextKept]_vars /\ [][NoCaughtPanic]_vars => ImplementsMap`.
- `ScanMissesNothing`: `ScanSpec => []ScanCompleteUnmoved`. An iteration during which no entry was removed or moved
  returns every key that was there throughout.

The first two do not follow from `Spec`, and their hypotheses say exactly what has to be excluded. `NextKept` says of a step
that it deletes no stash item whose clean-up also changes the books of the next bucket: this is the finding that
`DashTable_lost` shows, and the theorem says that it is the only way in which find loses a key. `NoCaughtPanic`
excludes that growth panics and its caller goes on with what is left of the table; a panic that ends the thread is allowed.
The instance of `DashTable_map` is one in which neither happens, so that TLC checks the same properties there without
hypotheses. For `AllFindable` the injection of `DashTableProofs` has to cover every stash item (`Tracked`). The
invariant `MapInv` adds that no two entries have the same key and that, while the table grows, the new segments hold
what the old ones held but for the entries that are left (`GrowOK`). The mapping takes the old segments for the map until growth ends.

The property about SCAN speaks of the end of an iteration. Its invariant says of every moment that a key which was there since
the first call and was not returned has a rank in the order of entries not below the cursor (`Owed`): an
insert may only raise ranks, and a call returns all ranks from its cursor to the next.

**`ShardSetProofs`** (`ShardSetAssumption`): every number of shards, connections and databases, all channel
capacities, every hash and every set of requests and RDB file.

- `AlwaysRouted`: `Spec => []Routed`. A key is only ever on its shard.
- `GivenUpOnlyToDead`: `Spec => []FailedMeansDead`.
- `NeverServedBeforeLoad`: `Spec => []ServedAfterLoad`.

The invariant carries `Routed` to what is on its way: SET, RENAME and the like, whose handlers write their keys
without looking at the shard, wait for and are queued at a shard only if all their keys are there (`Safe`),
and a Load message holds its shard's part of the file. For `ServedAfterLoad` it says that there are no connections while
main still sends Load messages.

**`ShardSetRefinement`** (the same assumption):

- `OneShardLinearizable`: `OneShardCommands => (Spec => ImplementsLinearStore)`.

The hypothesis `OneShardCommands` is one on constants, which the instance of `ShardSet_linear` satisfies (an `ASSUME` of
`MCShardSet`). It names the commands: GET, SET, MGET and MSET with keys of one shard, RENAME and MSETNX with any
keys, SELECT of any database. It excludes what makes the claim false in the code: commands that fan out to several
shards, whose parts run at different times; the startup load, which a command may overtake (`ShardSet_load`); dying
threads, whose commands are answered with an error or half done; and clients that leave before their replies arrive.
The mapping takes a command that travels to another shard for taken at the moment that shard runs it: until then it
is the first of the requests that have not run (`Late`), afterwards its reply is the last of those given
(`Early`). The invariant `LinearInv` says that a waiting command has exactly one part, that a message in a
channel is the only copy of the command its connection waits for, with the database selected now,
that a connection is queued once, and that a connection reads only when all it had read was answered. Without the second fact a
command could run twice; without the last one, replies could come in the wrong order.

**`PersistenceProofs`** (`PersistenceAssumption`): every number of shards, databases, saves and kills.

- `DumpAlwaysWhole`: `Spec => []DumpWhole`. Unless two saves overlapped, the file is one whole snapshot at every moment.
- `AcceptedIsSnapshot`: `Spec => []LoadsASnapshot`. A file whose checksum load_rdb has compared and found right is read
  as one snapshot, even if saves did overlap.
- `RestartRecovers`: `Spec => []RecoveredState`. A restart brings back the strings and deadlines of the last save.

For the first, the invariant `FileInv` says that at most one save writes, that the temporary file holds its image up to its
offset, and that the temporary file is not the dump.

For the second, files are mixtures: the invariant `LoadInv` says of every file only that its tokens are such as saves of the
snapshots taken so far write, in any order, and holes. A reader that stops with a compared checksum has found what it read equal to
what that checksum covers, which is the image of the save that wrote it, so that it has read this image. A hole in the place of the
checksum gives no such fact, and the theorem claims nothing there. What load_all reads from an
image is then shown to be the snapshot, by induction from the tokens of one key to those of a shard, of a database and of the file.
The exemption of `Dangling` snapshots is where this second half breaks: an expiry without an entry changes what the next token means.

For the third, `RecInv` says that main has read the whole snapshot behind the last successful save (from `FileInv`) and that a
shard which has not loaded yet is empty; and what the loop of load_entries makes of the entries is found by induction over them.

**`CollectionsProofs`** (`CollectionsAssumption`): every set of keys, elements, fields, numbers and indices.

- `NeverEmpty`: `ColSpec => []NoEmptyCollection`.
- `AlwaysInStep`: `ColSpec => []ZSetInStep`. The two maps of a sorted set without NaN agree.

No proof uses the bounds (`MaxList`, `MaxScore` and so on, `Alone`) that `ColNext` has for TLC: the lemmas are about each
handler and any value. The invariant `ColInv` strengthens both: a list is a sequence, and the scores of a sorted set whose key
never got a NaN are no NaN. The lemmas for the sorted set show that the search of the BTreeMap finds the one place where the entries
before it are smaller and those behind it are not, as long as entries are in order; with this, insert and remove keep the order and change one
entry. Each loop is then an induction over its rounds: that of LREM, which collects indices from the end and removes at each,
needs that the indices fall and stay within the list.

**Induction over data.** The induction theorems of the library take an operator as a parameter, which the installed provers cannot
instantiate. The proofs above use an equivalent that has none, a lemma `NatSetInduction` about sets of numbers (a non-empty set has a
least element, from well-foundedness of `<`), and existence lemmas for the recursive functions.

**Only model-checked.**

- Liveness under fairness (`ExpiredReclaimed`, `EveryRequestAnswered`) and `ENABLED` (`SaveNotStuck`) are out of the
  prover's reach.
- `SweepProgress` does not hold for all constants: `DbSlice_starve` is the counterexample.
- `GlobExact`: `Glob` is written with recursive operators, about which the prover cannot reason.
- `RangesExact`, `ListEditsExact`, `SetOpsExact`, `CountersExact`, `SortedViewsAgree`, `CommandsAsSent` and
  `CodecRoundTrip` compare an algorithm with a reference definition; `DeletionsCounted` sums over connections and shards.
  They are within reach of the induction above and not proved.
- `TypeOK` of `ShardSet`.

## 5. Not modelled

- Text of replies and reply formatting; `reply_builder.rs` is modelled as far as what kind of reply is sent.
- 64-bit lengths and compressed strings in RDB files, which no save of strings under 4 GiB contains, and the
  arithmetic of the checksum, which is taken to differ for different contents and never to be zero. (A stored zero,
  which turns the comparison off, is modelled.)
- `MainService::dispatch` and the legacy connection handlers. Nothing calls them; their handlers repeat those
  of `shard_thread.rs`, except for SAVE, which `Persistence` models.
- `Segment::insert`, `split` and others that only tests call.
- SCAN with COUNT 0, and commands with more arguments than an `i16` counts.
- Wall-clock steps backwards, memory exhaustion, socket errors other than a client that left.
- Transactions, intent locks and the transaction queue, whose files are empty.

## 6. Plan

In order of importance:

1. `CodecRoundTrip` and `CommandsAsSent` for inputs of every length, by the induction of `PersistenceProofs`.
2. `DeletionsCounted` and `TypeOK` of `ShardSet`.
3. `SortedViewsAgree` from the invariant of `CollectionsProofs`, and the list edits against their reference definitions.
4. Deadlines in `ShardSet`: expiry while a fanned-out command is on its way.
