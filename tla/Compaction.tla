----------------------------- MODULE Compaction -----------------------------
(***************************************************************************)
(* Leveled compaction (compaction.rs) beside flushes and reads: selection  *)
(* of overlapping tables to a fixed point, the merge with its reclamation  *)
(* of tombstones, partitioned outputs, publication of one manifest entry   *)
(* (publish_compaction) and removal of the inputs.  The worker runs        *)
(* concurrently with the engine's writes, flushes and reads; only its      *)
(* publication excludes readers.                                           *)
(*                                                                         *)
(* Records are kept by key and LSN; a value is identified with the LSN of  *)
(* its put.  The unflushed records are those the WAL replays (see Engine), *)
(* so a crash does not lose them.  When a level is due for compaction, and *)
(* how the outputs are cut, depends on byte sizes: both are left open.     *)
(***************************************************************************)
EXTENDS Integers, FiniteSets, Sequences

CONSTANTS
  MaxKey,    \* keys are 1..MaxKey
  MaxSeq,    \* bound on sequence numbers
  MaxLevel,  \* bound on levels
  MaxFile,   \* bound on file ids
  MaxFaults  \* bound on failures, cancellations and crashes

VARIABLES
  levels,    \* ManifestState::levels: the registered tables
  disk,      \* the tables that a replay of the manifest file finds
  files,     \* SSTable files present: <<level, id>>
  nextFile,  \* ManifestState::next_file_id
  diskNext,  \* and the one a replay of the manifest file finds
  mem,       \* the unflushed records: the memtable, backed by the WAL
  seq,       \* the last sequence number
  truth,     \* the LSN of the last put per key, 0 if it was deleted since (history)
  flushing,  \* the table being flushed, or NoTable
  wpc,       \* the worker: how far it is,
  snap,      \*   the levels it has seen,
  inputs,    \*   the tables it merges,
  target,    \*   the level it merges them to,
  todo,      \*   the outputs still to be written,
  outputs,   \*   and those written
  reader,    \* the tables a read works on, under the read lease
  reading,   \* a read holds the read lease
  faults     \* failures, cancellations and crashes so far

Keys == 1..MaxKey
Record == [key : Keys, lsn : 1..MaxSeq, del : BOOLEAN]
NoTable == [id |-> 0, level |-> 0, recs |-> {}]

workerVars == <<wpc, snap, inputs, target, todo, outputs>>
readVars == <<reader, reading>>
engineVars == <<mem, seq, truth, flushing>>
vars == <<levels, disk, files, nextFile, diskNext, engineVars, workerVars, readVars, faults>>

WorkerStops ==
  /\ wpc' = "idle" /\ snap' = {} /\ inputs' = {} /\ target' = 0 /\ todo' = <<>> /\ outputs' = {}

Init ==
  /\ levels = {} /\ disk = {} /\ files = {} /\ nextFile = 1 /\ diskNext = 1
  /\ mem = {} /\ seq = 0 /\ truth = [k \in Keys |-> 0] /\ flushing = NoTable
  /\ wpc = "idle" /\ snap = {} /\ inputs = {} /\ target = 0 /\ todo = <<>> /\ outputs = {}
  /\ reader = {} /\ reading = FALSE /\ faults = 0

-----------------------------------------------------------------------------
(* Tables, ranges and the merge                                            *)

NewestPerKey(recs) == {r \in recs : \A s \in recs : s.key = r.key => s.lsn <= r.lsn}
RecordsOf(tables) == UNION {t.recs : t \in tables}

\* The keys from the smallest to the largest key of some tables.
Span(tables) ==
  {k \in Keys : \E r, s \in RecordsOf(tables) : r.key <= k /\ k <= s.key}

AtLevel(tables, n) == {t \in tables : t.level = n}

\* The oldest n files of the level.
Oldest(tables, n) == {t \in tables : Cardinality({u \in tables : u.id <= t.id}) <= n}

\* The tables that are not among some selected ones: told apart by their file id alone.
Unselected(tables, selected) == {t \in tables : \A u \in selected : u.id # t.id}

\* Mutant of Closure: the range is not widened by the tables it selects.
ClosureOnePass(seed, candidates) ==
  seed \cup {t \in Unselected(candidates, seed) : Span({t}) \cap Span(seed) # {}}

\* Tables of the level and the next that overlap the selection are added until none
\* does.
Closure(seed, candidates) ==
  LET grow[n \in 0..Cardinality(candidates)] ==
        IF n = 0 THEN seed
        ELSE grow[n - 1] \cup {t \in Unselected(candidates, grow[n - 1]) :
                                Span({t}) \cap Span(grow[n - 1]) # {}}
  IN  grow[Cardinality(candidates)]

\* Mutant of Merge: every winning tombstone is dropped.
MergeDropsDeletes(merged, others) == {r \in NewestPerKey(RecordsOf(merged)) : ~r.del}

\* Mutant of Merge: older records of a key are kept beside the winner.
MergeKeepsOlder(merged, others) ==
  {r \in RecordsOf(merged) : r.del => \E t \in others : r.key \in Span({t})}

\* merge_files_with_reclamation: a winning tombstone is dropped if no table outside
\* the merge has its key in range.
Merge(merged, others) ==
  {r \in NewestPerKey(RecordsOf(merged)) : r.del => \E t \in others : r.key \in Span({t})}

\* partition_output: the records in key order, cut before the keys in cuts.
Partition(recs, cuts) ==
  LET part(r) == Cardinality({k \in cuts : k <= r.key})
      parts   == {part(r) : r \in recs}
      nth(n)  == CHOOSE p \in parts : Cardinality({q \in parts : q <= p}) = n
  IN  [n \in 1..Cardinality(parts) |-> {r \in recs : part(r) = nth(n)}]

-----------------------------------------------------------------------------
(* Writes and flushes: KV2 under the exclusive borrow of put and delete    *)

\* A put or delete of key k.  Reads hold a shared borrow of the engine.
Write(k, del) ==
  /\ flushing = NoTable /\ ~reading /\ seq < MaxSeq
  /\ seq' = seq + 1
  /\ mem' = {r \in mem : r.key # k} \cup {[key |-> k, lsn |-> seq + 1, del |-> del]}
  /\ truth' = [truth EXCEPT ![k] = IF del THEN 0 ELSE seq + 1]
  /\ UNCHANGED <<levels, disk, files, nextFile, diskNext, flushing, workerVars, readVars, faults>>

Fault == faults < MaxFaults /\ faults' = faults + 1

Max2(a, b) == IF a >= b THEN a ELSE b

\* The first file id, from nextFile on, whose file does not exist at the level.
FreshId(level, id) ==
  /\ id >= nextFile /\ id <= MaxFile
  /\ <<level, id>> \notin files
  /\ \A j \in nextFile..(id - 1) : <<level, j>> \in files

\* flush_inner up to the synced file.
FlushFile ==
  /\ flushing = NoTable /\ ~reading /\ mem # {}
  /\ \E id \in 1..MaxFile :
       /\ FreshId(0, id)
       /\ flushing' = [id |-> id, level |-> 0, recs |-> mem]
       /\ files' = files \cup {<<0, id>>}
       /\ nextFile' = id + 1
  /\ UNCHANGED <<levels, disk, diskNext, mem, seq, truth, workerVars, readVars, faults>>

\* register_sstable.  The flushed records leave the memtable and the WAL, unless a
\* later step of the flush (see Engine) fails.
Register ==
  /\ flushing # NoTable
  /\ levels' = levels \cup {flushing} /\ disk' = disk \cup {flushing}
  /\ diskNext' = Max2(diskNext, flushing.id + 1)
  /\ \/ mem' = {} /\ UNCHANGED faults
     \/ UNCHANGED mem /\ Fault
  /\ flushing' = NoTable
  /\ UNCHANGED <<files, nextFile, seq, truth, workerVars, readVars>>

\* The flush fails before the manifest entry is written: the memtable stays.
FlushFail ==
  /\ flushing # NoTable /\ Fault
  /\ flushing' = NoTable
  /\ UNCHANGED <<levels, disk, files, nextFile, diskNext, mem, seq, truth, workerVars, readVars>>

\* The put whose maintenance flushes is cancelled while append_manifest_entry syncs
\* the directory: the entry is in the file, but is not applied in memory.
RegisterCancelled ==
  /\ flushing # NoTable /\ Fault
  /\ disk' = disk \cup {flushing} /\ diskNext' = Max2(diskNext, flushing.id + 1)
  /\ flushing' = NoTable
  /\ UNCHANGED <<levels, files, nextFile, mem, seq, truth, workerVars, readVars>>

-----------------------------------------------------------------------------
(* The compaction worker: compaction under the compaction lease            *)

\* Mutant of Select: the newest file and the destination files it overlaps.
SelectNewest(level) ==
  /\ wpc = "idle" /\ AtLevel(levels, level) # {}
  /\ \E t \in AtLevel(levels, level) :
       /\ \A u \in AtLevel(levels, level) : u.id <= t.id
       /\ inputs' = Closure({t}, AtLevel(levels, level + 1))
  /\ wpc' = "merge" /\ snap' = levels /\ target' = level + 1
  /\ UNCHANGED <<levels, disk, files, nextFile, diskNext, engineVars, todo, outputs, readVars,
                 faults>>

\* A snapshot of the levels, the oldest file of the level (at level 0 a few of the
\* oldest), and what overlaps them here and in the next level.
Select(level) ==
  /\ wpc = "idle" /\ AtLevel(levels, level) # {}
  /\ \E n \in 1..(IF level = 0 THEN Cardinality(AtLevel(levels, 0)) ELSE 1) :
       inputs' = Closure(Oldest(AtLevel(levels, level), n),
                         AtLevel(levels, level) \cup AtLevel(levels, level + 1))
  /\ wpc' = "merge" /\ snap' = levels /\ target' = level + 1
  /\ UNCHANGED <<levels, disk, files, nextFile, diskNext, engineVars, todo, outputs, readVars, faults>>

\* The input files are read and merged.
MergeInputs ==
  /\ wpc = "merge"
  /\ \E cuts \in SUBSET Keys : todo' = Partition(Merge(inputs, Unselected(snap, inputs)), cuts)
  /\ wpc' = "write"
  /\ UNCHANGED <<levels, disk, files, nextFile, diskNext, engineVars, snap, inputs, target,
                 outputs, readVars, faults>>

\* write_compaction_output: one synced file.
WriteOutput ==
  /\ wpc = "write" /\ todo # <<>>
  /\ \E id \in 1..MaxFile :
       /\ FreshId(target, id)
       /\ outputs' = outputs \cup {[id |-> id, level |-> target, recs |-> Head(todo)]}
       /\ files' = files \cup {<<target, id>>}
       /\ nextFile' = id + 1
  /\ todo' = Tail(todo)
  /\ UNCHANGED <<levels, disk, diskNext, engineVars, wpc, snap, inputs, target, readVars, faults>>

\* The manifest entry of a compaction: its removals and its additions.
WriteEntry(removals) ==
  /\ disk' = (disk \ removals) \cup outputs
  /\ diskNext' = CHOOSE n \in {diskNext} \cup {t.id + 1 : t \in outputs} :
                   n >= diskNext /\ \A t \in outputs : t.id < n

\* Mutant of Publish: the publication lease is not taken.
PublishBesideReaders ==
  /\ wpc = "write" /\ todo = <<>> /\ levels = snap
  /\ WriteEntry(inputs)
  /\ levels' = (levels \ inputs) \cup outputs
  /\ wpc' = "remove" /\ snap' = {} /\ outputs' = {}
  /\ UNCHANGED <<files, nextFile, engineVars, inputs, target, todo, readVars, faults>>

\* Mutant of Publish: the entry does not remove the inputs of the target level.
PublishRemovesSources ==
  /\ wpc = "write" /\ todo = <<>> /\ levels = snap /\ ~reading
  /\ WriteEntry(AtLevel(inputs, target - 1))
  /\ levels' = (levels \ inputs) \cup outputs
  /\ wpc' = "remove" /\ snap' = {} /\ outputs' = {}
  /\ UNCHANGED <<files, nextFile, engineVars, inputs, target, todo, readVars, faults>>

\* Mutant of Publish: the levels are not compared with the snapshot.
PublishUnchecked ==
  /\ wpc = "write" /\ todo = <<>> /\ ~reading
  /\ WriteEntry(inputs)
  /\ levels' = (levels \ inputs) \cup outputs
  /\ wpc' = "remove" /\ snap' = {} /\ outputs' = {}
  /\ UNCHANGED <<files, nextFile, engineVars, inputs, target, todo, readVars, faults>>

\* publish_compaction under the publication lease: unless the levels have changed,
\* one manifest entry replaces the inputs by the outputs.
Publish ==
  /\ wpc = "write" /\ todo = <<>> /\ levels = snap /\ ~reading
  /\ WriteEntry(inputs)
  /\ levels' = (levels \ inputs) \cup outputs
  /\ wpc' = "remove" /\ snap' = {} /\ outputs' = {}
  /\ UNCHANGED <<files, nextFile, engineVars, inputs, target, todo, readVars, faults>>

\* publish_compaction when append_manifest_entry fails in a sync: the entry is in the file,
\* but is not applied in memory, and the inputs stay.
PublishFails ==
  /\ wpc = "write" /\ todo = <<>> /\ levels = snap /\ ~reading /\ Fault
  /\ WriteEntry(inputs)
  /\ WorkerStops
  /\ UNCHANGED <<levels, files, nextFile, engineVars, readVars>>

\* remove_compacted_files, still under the publication lease; a failure is logged.
RemoveInput ==
  /\ wpc = "remove" /\ inputs # {}
  /\ \E t \in inputs :
       /\ \A u \in inputs : t.id <= u.id
       /\ \/ files' = files \ {<<t.level, t.id>>} /\ UNCHANGED faults
          \/ UNCHANGED files /\ Fault
       /\ inputs' = inputs \ {t}
  /\ UNCHANGED <<levels, disk, nextFile, diskNext, engineVars, wpc, snap, target, todo, outputs,
                 readVars>>

CompactionDone ==
  /\ wpc = "remove" /\ inputs = {}
  /\ WorkerStops
  /\ UNCHANGED <<levels, disk, files, nextFile, diskNext, engineVars, readVars, faults>>

\* Cancelled, failed, or the manifest has changed: the outputs are orphans.
CompactionAbort ==
  /\ wpc \in {"merge", "write"}
  /\ \/ wpc = "write" /\ todo = <<>> /\ levels # snap /\ UNCHANGED faults
     \/ Fault
  /\ WorkerStops
  /\ UNCHANGED <<levels, disk, files, nextFile, diskNext, engineVars, readVars>>

-----------------------------------------------------------------------------
(* Reads: get under the read lease                                         *)

\* The lease is taken, then the manifest snapshot.  The lease waits for a publication.
ReadStart ==
  /\ ~reading /\ flushing = NoTable /\ wpc # "remove"
  /\ reading' = TRUE /\ reader' = levels
  /\ UNCHANGED <<levels, disk, files, nextFile, diskNext, engineVars, workerVars, faults>>

ReadEnd ==
  /\ reading
  /\ reading' = FALSE /\ reader' = {}
  /\ UNCHANGED <<levels, disk, files, nextFile, diskNext, engineVars, workerVars, faults>>

-----------------------------------------------------------------------------
(* Crash and reopen, and the specification                                 *)

\* Mutant of Crash: file ids start over.
CrashRestartsIds ==
  /\ Fault
  /\ levels' = disk /\ nextFile' = 1
  /\ flushing' = NoTable /\ WorkerStops /\ reading' = FALSE /\ reader' = {}
  /\ UNCHANGED <<disk, files, diskNext, mem, seq, truth>>

\* The process ends at any point and the store is opened again: replay_manifest.
Crash ==
  /\ Fault
  /\ levels' = disk /\ nextFile' = diskNext
  /\ flushing' = NoTable /\ WorkerStops /\ reading' = FALSE /\ reader' = {}
  /\ UNCHANGED <<disk, files, diskNext, mem, seq, truth>>

Next ==
  \/ \E k \in Keys, del \in BOOLEAN : Write(k, del)
  \/ FlushFile \/ Register \/ FlushFail
  \/ \E level \in 0..(MaxLevel - 1) : Select(level)
  \/ MergeInputs \/ WriteOutput \/ Publish \/ RemoveInput \/ CompactionDone \/ CompactionAbort
  \/ ReadStart \/ ReadEnd
  \/ Crash

Spec == Init /\ [][Next]_vars

\* With the outcomes of append_manifest_entry that leave its entry in the file only.
DivergingSpec == Init /\ [][Next \/ RegisterCancelled \/ PublishFails]_vars

-----------------------------------------------------------------------------
(* Lookup: get_from_sstable                                                *)

\* Level 0: the highest LSN of all files.  Deeper: the first match, latest file id
\* first.  Levels in order; a tombstone ends the search.
Lookup(tables, k) ==
  LET at(n) == {t \in AtLevel(tables, n) : \E r \in t.recs : r.key = k}
      found == {n \in 0..MaxLevel : at(n) # {}}
      level == CHOOSE n \in found : \A m \in found : n <= m
      hits  == IF level = 0 THEN at(0)
               ELSE {t \in at(level) : \A u \in at(level) : u.id <= t.id}
  IN  IF found = {} THEN {}
      ELSE {r \in NewestPerKey(RecordsOf(hits)) : r.key = k /\ ~r.del}

\* ReadManager::get and scan: the LSN of the value they answer with, 0 for none.
LsnOf(recs) == IF recs = {} THEN 0 ELSE (CHOOSE r \in recs : TRUE).lsn

Get(tables, k) ==
  LsnOf(IF \E r \in mem : r.key = k THEN {r \in mem : r.key = k /\ ~r.del}
        ELSE Lookup(tables, k))

Scan(tables, k) ==
  LsnOf({r \in NewestPerKey(RecordsOf(tables) \cup mem) : r.key = k /\ ~r.del})

-----------------------------------------------------------------------------
(* Properties                                                              *)

Table == [id : 1..MaxFile, level : 0..MaxLevel, recs : SUBSET Record]

\* Every component of the state has its type; tables are not empty and hold one
\* record per key.
TypeOK ==
  /\ \A t \in levels \cup disk \cup outputs \cup inputs :
       t \in Table /\ t.recs # {} /\ NewestPerKey(t.recs) = t.recs
                   /\ \A r, s \in t.recs : r.key = s.key => r = s
  /\ files \subseteq (0..MaxLevel) \X (1..MaxFile)
  /\ nextFile \in 1..(MaxFile + 1) /\ diskNext \in 1..(MaxFile + 1) /\ mem \subseteq Record /\ seq \in 0..MaxSeq
  /\ wpc \in {"idle", "merge", "write", "remove"} /\ target \in 0..MaxLevel
  /\ flushing = NoTable \/ flushing \in Table
  /\ reading \in BOOLEAN /\ faults \in 0..MaxFaults

\* Levels from 1 on hold disjoint ranges ("deeper levels are non-overlapping, first
\* match is correct", read.rs): compaction closes overlaps to a fixed point, and
\* flushes do not disturb it.
LevelsDisjoint ==
  \A t, u \in disk : t.level = u.level /\ t.level > 0 /\ t # u => Span({t}) \cap Span({u}) = {}

\* Every table that the manifest, its replay or a read under way names has its file:
\* compaction removes only what it has replaced, and not under a reader.
FilesPresent ==
  \A t \in levels \cup disk \cup reader : <<t.level, t.id>> \in files

\* A read answers with the last put of the key, or with none if it was deleted since,
\* whatever compactions have moved, dropped or are about to publish.
ReadsLatest == \A k \in Keys : Get(levels, k) = truth[k]

\* The same of a read after a crash at this point: the manifest file and the WAL
\* together always hold the last write of every key, and no deleted one.
RecoveredReadsLatest == \A k \in Keys : Get(disk, k) = truth[k]

\* scan, which takes the highest LSN over all tables, agrees with get, which stops at
\* the first level that has the key: no older record ever sits above a newer one.
ScanAgrees == \A k \in Keys : Scan(levels, k) = Get(levels, k)

\* When a compaction is published, every tombstone it has dropped is outside the range of
\* every table it leaves alone, those flushed since its snapshot included ("A changed
\* manifest aborts publication so concurrent flushes or compactions cannot invalidate the
\* range check", README.md).
RangeCheckHolds ==
  [][wpc = "write" /\ wpc' = "remove" =>
       \A r \in NewestPerKey(RecordsOf(inputs)) \ RecordsOf(outputs) :
         \A t \in Unselected(levels, inputs) : r.key \notin Span({t})]_vars

\* File ids tell the registered tables apart across levels, as the selection of inputs
\* and of protected ranges assumes when it compares ids alone.
IdsUnique == \A t, u \in levels : t.id = u.id => t = u

=============================================================================
