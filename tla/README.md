# CereDB in TLA+

CereDB is an embedded key-value store in Rust: a write-ahead log (WAL), a
memtable, SSTables in levels, and a manifest (`KV2`); a variant that keeps the
values in the retained WAL (`ExperimentalEngine`); a full text index, a Raft
front end and a command line on top. This directory models the storage engines
in TLA+, checks small instances with TLC, and proves the durability of the write
path with TLAPS. Paths below are relative to the repository.

## The system and its parts

A call of `put`, `delete` or `write_batch` enters the **admission queue**
(`writemanager/admission.rs`), which bounds requests and bytes. One runner task
drains groups of requests into one WAL append and one `sync_data`
(`writemanager/write.rs`), puts the records into the memtable and answers the
callers. When the memtable is large the caller **flushes** it: table file,
manifest entry, WAL rotation, checkpoint entries, reclamation of WAL segments.
A worker **compacts** levels in the background and publishes one manifest entry
per compaction. **Reads** look in the memtable, then in level 0 by LSN, then in
the first level that has the key, through a cache of file handles. On **open**
(`kv2.rs`) the manifest is replayed, tables are validated and the WAL is
replayed from the recovery checkpoint. **ExperimentalEngine**
(`experimental.rs`) runs a KV2 index of references over the WAL of a generation;
`CURRENT` names the generation and `clean()` moves the live records to a new one.

Writes take `&mut self`, reads `&self`: reads run beside each other and beside
the compaction worker, never beside a write or a flush of the same engine.
Futures may be dropped at every `await`.

| Part | Sources (`src/src/storage/` unless given) | Module | Status |
|---|---|---|---|
| admission queue | `writemanager/admission.rs`, `write.rs` | Admission | modelled |
| write path, flush, checkpoint, reopen | `writemanager/write.rs`, `kv2.rs`, `manifest_codec.rs` | Engine, EngineRefinement, KVStore | partly |
| WAL | `recovermanager/wal.rs` | WAL, DurableLog | partly |
| compaction | `compactionmanager/compaction.rs`, `manifest_codec.rs` | Compaction | partly |
| SSTable building and reading | `writemanager/block.rs`, `sstable_codec.rs`, `readmanager/read.rs`, `kv2.rs` | SSTable | partly |
| handle cache and concurrent reads | `manifest_codec.rs`, `read.rs` | TableRead | partly |
| experimental engine | `experimental.rs` | Generations | partly |
| Raft log store | `raft/log_store.rs` | none yet | planned |
| full text index | `../fts/mod.rs` | none yet | planned |
| Raft state machine and network, CLI, REPL, configuration | `raft/`, `../main.rs`, `../repl.rs`, `../command.rs`, ... | none | not modelled |

`PROJECT.json` lists every component, every hazard with its line, and maps every
definition that models code to the lines it models.

## The modules

**DurableLog** and **KVStore** are abstract. DurableLog is what a WAL promises:
an acknowledged group of transactions is in the log, an interrupted one leaves a
prefix of whole transactions. KVStore is what an engine promises: a map updated
atomically and in order by batches.

**Admission.** `requests`, `running`, `next`, `completed` are the fields of
`State`; `slots` and `bytes` are the two semaphores, `slotWait` and `byteWait`
their FIFO wait queues. A client goes through `Submit`, `AcquireSlot`,
`AcquireBytes`, `Enqueue` and may `Cancel` anywhere; a runner repeats
`DrainReady`, `AppendGroup`, `Complete`, `Notify`; a barrier is a flush or
`await_pending_writes` (`BarrierStart`, `BarrierEnable`, `BarrierCheck`,
`BarrierWake`, `BarrierFinish`), whose registration for the notification, look
at the ticket and wait are separate steps. A batch is its byte estimate.

**Engine.** The log is a DurableLog (`log`, `limbo`); the manifest is `tables` in
memory and `diskTables`, `diskSeq` in its file. The holder of the writer lock is
in `phase`: `Write`, `WriteOk`, `WriteFail`, or the steps of `flush_inner` in
their order `FlushFile`, `RegisterSstable`, `RotateWalFile`, `MarkCheckpoint`,
`TrustedRecoveryPosition`, `PublishCheckpoint`, `FlushFinish`. `FlushAbort` is an
error or a cancelled caller at any of them, with what the interrupted manifest
append may have left: nothing, the entry, or a torn one. A torn manifest is
refused by `open`, so a behaviour may end there (deadlock is not checked).
`RawMark`, `RawWrite`, `RawOk`, `RawFail` are callers of `KV2::wal_manager()`
who write to the log and not to the memtable; `raw` keeps the checkpoint from
covering them.

**WAL.** Files are sequences of a header and frames with a synced prefix, perhaps
ending in an incomplete unit. An append is planned, written (in full or in part),
synced and acknowledged in separate steps, a rotation seals, creates, writes and
syncs the header and then the directory; open scans, repairs the tail of the last
segment and picks the append segment. A kill leaves what was written. A power
loss leaves what was synced and any prefix of the rest. Segment sizes are counted
in units.

**Compaction.** Tables are sets of records with a level and an id. The worker
selects inputs with their overlap closure, merges with the reclamation of
tombstones outside the protected ranges, writes partitioned outputs, publishes if
no level of the manifest has changed since its snapshot, and removes the files. Beside it run writes,
flushes, a read under the lease, failures and crashes. Byte thresholds decide when
a level is compacted and where outputs are cut: both are left open, so the model
does more compactions than the code. Records not yet flushed survive a crash, as
Engine shows.

**SSTable.** The records of a flush or compaction go through `BlockBuilder`
(`AddRecord`, `Build`); lookups, scans and the validation at open are operators on
the result, compared with the records that went in. The Bloom filter is a set that
may contain more keys than were inserted. A key is its rank, 0 is the empty key;
lengths are compared with the block size.

**TableRead.** `handles`, `order` are the fields of `LruFileCache`; a handle is an
open file description, whose position all of its clones share. Readers take the
lease, get a handle per table, and seek to and read one section after another, and in
a scan block after block (the blocks of a table are not told apart). A compaction
publishes, evicts and removes under the publication lease. `clear_file_cache` and
`remove_sstable`, which only tests call, are left out.

**Generations.** The root directory is `touched`, `current`, `marker`, `next`,
`dirs`; a generation is the set of records that its WAL recovers and its seal.
`Preflight` reads the root, `Lock` acts on what it read, `Bootstrap`,
`BootstrapCurrent`, `WriteMarker`, `Recover`, `RemoveAbandoned`, `OpenDone` finish
the open; `clean()` is `Reserve`, `CreateGeneration`, `Copy`, `Seal`, `WriteTemp`,
`Commit`, `Adopt`, `Reclaim`, `CleanDone`, with `CleanFail` at any of them.
Replacing a file is one step (rename of a synced file, directory synced).

The modules meet at their abstractions: WAL implements DurableLog, Engine is built
on DurableLog and implements KVStore (EngineRefinement has the mapping: the map that
reads answer from, and the batches of the group in flight), Compaction takes from Engine that unflushed
records survive.

## The runs

| Run | Checks | Instance | Result |
|---|---|---|---|
| admission | permits, tickets, single runner, acknowledgements, barriers; every admitted write and every barrier ends | 2 clients, 2 runner names, 1 barrier, 3 tickets, batches below and above both byte limits | 226,776 states |
| engine | durability, sequence numbers, read paths, file ids, refinement of KVStore | 2 keys, 1 raw key, 3 sequence numbers, 3 transactions, 2 tables | 831,700 states |
| wal | recovery of what was acknowledged; every directory opens; a healthy log reads back | 2 commands, 3 segments, 6 LSNs, segments of 4 units, kills and power losses | 431,535 states |
| wal_refines | refinement of DurableLog | as above, power losses only, no transaction of two updates | 92,656 states |
| compaction | reads, reads after a reopen, scans, disjoint levels, files, tombstones against tables flushed meanwhile | 2 keys, 3 writes, 3 levels, 5 files, 1 fault | 1,094,410 states |
| sstable | lookup, scan, validation and building | all tables over 4 keys with records of 1, 2 or 4 thirds of a block | 3,222 states |
| table_read | cache consistency, no missing file | 2 readers, 4 tables, cache of 2 | 274,961 states |
| generations | survival, sequence floor, fresh ids, reopening, switch | 1 process, 2 keys, 3 writes, 3 generations, 3 faults | 2,644,957 states |
| wal_repeat, compaction_diverging, table_read_shared, generations_stale | four statements of the repository that the code does not keep | smallest that show it | violated |

**Bounds.** They are chosen so that the interesting cases happen. Three tickets and
two runner names let a runner retire while another starts; a weight of 3 exceeds both
the byte budget and the drain limit of 2. Three sequence numbers allow a group of two
batches beside a flush; two tables allow a flush after a failed flush. Four units per
segment make an append rotate or not. Five files and three levels allow two
compactions with an output each and a flush between. The symmetry of table_read is
sound because readers and tables are only compared, and its VIEW drops only the
positions that are set before they are read again.

**Fairness.** Only the admission run has liveness. It assumes weak fairness of each
client's, runner's and barrier's own steps: these are spawned tasks and futures that a
caller polls, tokio runs a task that is ready, and its semaphores and mutex are
first-in first-out. Cancelling is never required. Nothing assumes that a WAL append
succeeds: it ends, with or without an error.

**Deadlock** is checked except where the system may stop: engine (torn manifest),
sstable (a build ends), generations (bounds and refused roots).

**Mutants.** For each property of a passing run `PROJECT.json` names a plausible bug
(a definition "Mutant of ..." in the module) that violates it.

## Where code and documentation disagree

* **wal_repeat.** Open serves frames that a killed process had written and not
  synced, without syncing them (`wal.rs:1575` syncs only a truncated segment). A power
  loss takes them back, although `recovermanager/README.md:47` says that repeating
  recovery returns the same commands. This is why wal_refines has power losses only:
  with a kill followed by a power loss the log does not implement DurableLog. What was
  acknowledged is safe in both (AckedRecoverable). In ExperimentalEngine the floor of
  CURRENT may by then count such a frame, and the next open is refused; `OpensAgain`
  excepts that case (`lost`).
* **compaction_diverging.** `append_manifest_entry` may end without success after its
  entry is in the file: a `put` is cancelled while `register_sstable` syncs the entry, or
  the sync fails under `publish_compaction`. Memory then does not know a table that the
  file names. A compaction may drop a tombstone over it, and a reopen brings the deleted
  key back. The passing run compaction uses `Spec`, which leaves both steps out;
  `DivergingSpec` has `RegisterCancelled` and `PublishFails`. One of them is enough: TLC
  stops at the shorter behaviour, with `RegisterCancelled`, and finds one of 14 states
  with `PublishFails` when that step is taken out of `DivergingSpec`.
* **table_read_shared.** `try_clone` shares the file position, contrary to the comment
  at `read.rs:266`: two concurrent reads of one table can read each other's sections.
* **generations_stale.** `open_with_config` inspects the root before it holds the lock
  (`experimental.rs:528`). If another engine bootstraps, cleans and closes in between,
  the stale result overwrites CURRENT or revives a removed generation, and the current
  generation is removed as abandoned. The passing run has one process.

Another limit is stated inside a property: a table whose only key is empty cannot be
built (`last_key` stays unset and `build` unwraps it); `BuildSucceeds` excepts it.

## The proofs

`EngineProofs` proves for every set of keys, values and batches and all bounds, from
`EngineAssumption` (keys of raw writers differ from the engine's, the tombstone is no
value, bounds are naturals):

* `TypeCorrect`: TypeOK is invariant;
* `AckedNeverLost`: AckedDurable is invariant, that is, each acknowledged record or a
  newer one of its key is in the replayed log or in a registered table;
* `SequenceNeverBehind`: SequenceAhead is invariant;
* `InductiveInvariant`: the invariant IInv that they follow from.

AckedDurable is not inductive: a checkpoint cuts the log, and only the history of the
flush says that the tables hold what is cut. IInv adds who may be in the WAL
(LogInUse), that without raw writers memtable and tables hold the whole log
(LogInMemory), how far the flush is (FlushProgress: its table covers the memtable as a
file, then as a registered table, then the tables cover the log up to the cut), and
that the sequence number can be recovered from checkpoint or log
(SequenceRecoverable). Lemmas about concatenating and cutting logs and about `Covers`
(transitive, monotone, kept by taking the newest record of each key) carry the steps;
each conjunct has its own step lemma with one case per action.

Only model-checked: the refinements (KVStore's fold over batches needs an induction
over data), liveness, and every module but Engine.

## Not modelled

Byte formats, checksums and sizes in bytes (an incomplete unit is recognised as such);
version-one WAL segments; reads of values by reference; failing removals of files
beyond what a crash does; the compaction worker's channel and shutdown; two engines of
one process over one KV2 directory; `apply_replicated_command` and `lock_memtable`;
Raft (its state machine does not apply entries yet); the command line.

## Plan

1. **RaftLogStore**: append, truncate, purge, vote and their files against the contract
   of the consensus library (indexes after a purge, unsynced temporary files).
2. **FtsIndex**: documents, postings, frequencies and statistics over KVStore, with
   cancelled and repeated updates.
3. **Manifest**: torn appends, and memory and file apart after failing ones, for
   registration, checkpoints and compactions together.
4. **Worker**: the trigger channel, cancellation and shutdown of KV2.
5. **System**: Admission over WAL over Engine, with a cancelled write in flight while
   the engine is reopened; replicated commands.
6. **Proofs**: SingleRunner and TicketsContiguous of Admission; FilesPresent and
   LevelsDisjoint of Compaction; GenerationsFresh, ServesCurrent and
   SequenceNeverReused of Generations; AckedRecoverable of WAL.
