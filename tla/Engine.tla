------------------------------- MODULE Engine -------------------------------
(***************************************************************************)
(* The single-node engine KV2: the write path (write.rs), the flush of the *)
(* memtable with its checkpoint (write.rs flush_active_memtable and        *)
(* flush_inner), the manifest entries it appends (manifest_codec.rs),      *)
(* crash and reopen (kv2.rs open), and reads (read.rs).                    *)
(*                                                                         *)
(* The log is used through its abstract specification DurableLog: its      *)
(* transactions are sets of records, its positions stand for segments and  *)
(* physical LSNs.  The writer lock makes the write path and the flush      *)
(* mutually exclusive; raw writers of KV2::wal_manager() interleave with   *)
(* both.  A failed or cancelled step, and a crash, can come anywhere.      *)
(* Compaction of the tables is the subject of Compaction.                  *)
(***************************************************************************)
EXTENDS Integers, FiniteSets, Sequences, Functions

CONSTANTS
  Keys,       \* keys written through the engine
  RawKeys,    \* keys written through the raw WAL API
  Vals, Tombstone,
  Batches,    \* groups of batches the admission runner may drain together
  RawRecords, \* records raw callers write
  MaxSeq,     \* bound on sequence numbers
  MaxLog,     \* bound on the transactions in the log
  MaxFile     \* bound on SSTable file ids

ASSUME EngineAssumption ==
  /\ Keys \cap RawKeys = {}
  /\ Tombstone \notin Vals
  /\ RawRecords \subseteq [key : RawKeys, lsn : 1..MaxSeq, val : Vals \cup {Tombstone}]
  /\ MaxSeq \in Nat
  /\ MaxLog \in Nat
  /\ MaxFile \in Nat
  /\ Batches \subseteq Seq(Seq([key : Keys, val : Vals \cup {Tombstone}]))

VARIABLES
  (* on disk *)
  log, limbo,   \* the WAL from the replay floor on: see DurableLog
  diskTables,   \* tables registered by the manifest file
  diskSeq,      \* committed_sequence of the last recovery checkpoint, 0 if none
  torn,         \* the manifest file ends in or contains an incomplete entry
  files,        \* SSTable file ids present in the level-0 directory
  (* in memory *)
  up,           \* the engine is open
  memtable,     \* WriteComponent::memtable
  sequence,     \* WriteComponent::sequence_number
  tables,       \* ManifestState::levels
  nextFile,     \* ManifestState::next_file_id
  walUser,      \* who is inside WALManager::append_transactions
  poisoned,     \* WriterState::poisoned
  raw,          \* WALManager::raw_writes
  phase,        \* what the holder of the writer lock is doing
  newTable,     \* the table flush_inner has written
  cut,          \* the log position of the recovery checkpoint being published
  (* history *)
  acked         \* records of acknowledged writes

logVars == <<log, limbo>>
manifestVars == <<diskTables, diskSeq, torn, tables>>
flushVars == <<phase, newTable, cut>>
vars == <<logVars, manifestVars, files, up, memtable, sequence, nextFile, walUser,
          poisoned, raw, flushVars, acked>>

Log == INSTANCE DurableLog WITH Groups <- {}

Record == [key : Keys \cup RawKeys, lsn : Nat, val : Vals \cup {Tombstone}]
NoTable == [id |-> 0, recs |-> {}]

RecordsOf(transactions) == UNION Range(transactions)
TableRecords(ts) == UNION {t.recs : t \in ts}

Init ==
  /\ Log!Init
  /\ diskTables = {} /\ diskSeq = 0 /\ torn = FALSE /\ files = {}
  /\ up = TRUE
  /\ memtable = {} /\ sequence = 0 /\ tables = {} /\ nextFile = 1
  /\ walUser = "none" /\ poisoned = FALSE /\ raw = FALSE
  /\ phase = "idle" /\ newTable = NoTable /\ cut = 0
  /\ acked = {}

-----------------------------------------------------------------------------
(* Writes: run_write_admission under the writer lock                       *)

\* The commands of the group: consecutive sequence numbers over all its batches,
\* end[n] being the last one of batch n.
Transactions(group, end) ==
  [n \in 1..Len(group) |->
     {[key |-> group[n][i].key, lsn |-> end[n - 1] + i, val |-> group[n][i].val]
        : i \in 1..Len(group[n])}]

\* One append for the whole group; the WAL is poisoned while it lasts.
Write(group) ==
  /\ up /\ phase = "idle" /\ walUser = "none" /\ ~poisoned
  /\ \E end \in [0..Len(group) -> sequence..MaxSeq] :
       /\ end[0] = sequence
       /\ \A n \in 1..Len(group) : end[n] = end[n - 1] + Len(group[n])
       /\ Log!Begin(Transactions(group, end))
  /\ phase' = "write" /\ walUser' = "engine" /\ poisoned' = TRUE
  /\ UNCHANGED <<manifestVars, files, up, memtable, sequence, nextFile, raw, newTable, cut,
                 acked>>

\* sync_data returned: the records enter the memtable, then the sequence number
\* is stored and the callers are answered.
WriteOk ==
  /\ phase = "write"
  /\ Log!Acknowledge
  /\ memtable' = memtable \cup RecordsOf(limbo)
  /\ sequence' \in {r.lsn : r \in RecordsOf(limbo)}
  /\ \A r \in RecordsOf(limbo) : r.lsn <= sequence'
  /\ acked' = acked \cup RecordsOf(limbo)
  /\ phase' = "idle" /\ walUser' = "none" /\ poisoned' = FALSE
  /\ UNCHANGED <<manifestVars, files, up, nextFile, raw, newTable, cut>>

\* The append failed somewhere: the callers get the error, the outcome is open
\* until the log is reopened.
WriteFail ==
  /\ phase = "write"
  /\ phase' = "idle" /\ walUser' = "none"
  /\ UNCHANGED <<logVars, manifestVars, files, up, memtable, sequence, nextFile, poisoned,
                 raw, newTable, cut, acked>>

-----------------------------------------------------------------------------
(* Raw writes: WALManager::write_transaction on the handle of wal_manager() *)

\* raw_writes is set before the caller queues for the WAL, and stays set.
RawMark ==
  /\ up /\ ~raw
  /\ raw' = TRUE
  /\ UNCHANGED <<logVars, manifestVars, files, up, memtable, sequence, nextFile, walUser,
                 poisoned, flushVars, acked>>

\* The caller chooses the sequence number of its record.
RawWrite(r) ==
  /\ up /\ raw /\ walUser = "none" /\ ~poisoned
  /\ Len(log) < MaxLog
  /\ Log!Begin(<<{r}>>)
  /\ walUser' = "raw" /\ poisoned' = TRUE
  /\ UNCHANGED <<manifestVars, files, up, memtable, sequence, nextFile, raw, flushVars, acked>>

RawOk ==
  /\ walUser = "raw"
  /\ Log!Acknowledge
  /\ acked' = acked \cup RecordsOf(limbo)
  /\ walUser' = "none" /\ poisoned' = FALSE
  /\ UNCHANGED <<manifestVars, files, up, memtable, sequence, nextFile, raw, flushVars>>

\* The append failed or its future was dropped.
RawFail ==
  /\ walUser = "raw"
  /\ walUser' = "none"
  /\ UNCHANGED <<logVars, manifestVars, files, up, memtable, sequence, nextFile, poisoned,
                 raw, flushVars, acked>>

-----------------------------------------------------------------------------
(* Flush: flush_active_memtable and flush_inner under the writer lock      *)

\* The newest record of each key of the memtable: valid_records.
NewestPerKey(recs) ==
  {r \in recs : \A s \in recs : s.key = r.key => s.lsn <= r.lsn}

\* Mutant of FlushFile: the id is the number of registered tables, and the file is
\* not created exclusively.
FlushCountsTables ==
  /\ up /\ phase = "idle" /\ memtable # {}
  /\ LET id == Cardinality(tables) + 1
     IN  /\ id <= MaxFile
         /\ files' = files \cup {id}
         /\ nextFile' = id + 1
         /\ newTable' = [id |-> id, recs |-> NewestPerKey(memtable)]
  /\ phase' = "register"
  /\ UNCHANGED <<logVars, manifestVars, up, memtable, sequence, walUser, poisoned, raw, cut,
                 acked>>

\* The SSTable is written to the first unused file name and synced with its
\* directory.  The file is an orphan until it is registered.
FlushFile ==
  /\ up /\ phase = "idle" /\ memtable # {}
  /\ \E id \in nextFile..MaxFile :
       /\ id \notin files
       /\ nextFile..(id - 1) \subseteq files
       /\ files' = files \cup {id}
       /\ nextFile' = id + 1
       /\ newTable' = [id |-> id, recs |-> NewestPerKey(memtable)]
  /\ phase' = "register"
  /\ UNCHANGED <<logVars, manifestVars, up, memtable, sequence, walUser, poisoned, raw, cut,
                 acked>>

\* register_sstable: the ADD entry is on disk and applied in memory.
RegisterSstable ==
  /\ phase = "register"
  /\ diskTables' = diskTables \cup {newTable}
  /\ tables' = tables \cup {newTable}
  /\ phase' = "rotate"
  /\ UNCHANGED <<logVars, diskSeq, torn, files, up, memtable, sequence, nextFile, walUser,
                 poisoned, raw, newTable, cut, acked>>

\* rotate_wal_file: new records go to a new segment.
RotateWalFile ==
  /\ phase = "rotate" /\ walUser = "none" /\ ~poisoned
  /\ phase' = "mark"
  /\ UNCHANGED <<logVars, manifestVars, files, up, memtable, sequence, nextFile, walUser,
                 poisoned, raw, newTable, cut, acked>>

\* mark_checkpoint: an informational manifest entry.
MarkCheckpoint ==
  /\ phase = "mark"
  /\ phase' = "trust"
  /\ UNCHANGED <<logVars, manifestVars, files, up, memtable, sequence, nextFile, walUser,
                 poisoned, raw, newTable, cut, acked>>

\* Mutant of TrustedRecoveryPosition: the raw_writes flag is not consulted.
TrustIgnoresRaw ==
  /\ phase = "trust" /\ walUser = "none" /\ ~poisoned
  /\ phase' = "publish" /\ cut' = Len(log)
  /\ UNCHANGED <<logVars, manifestVars, files, up, memtable, sequence, nextFile, walUser,
                 poisoned, raw, newTable, acked>>

\* trusted_recovery_position: no position once anybody wrote to the log past the
\* engine.
TrustedRecoveryPosition ==
  /\ phase = "trust" /\ walUser = "none" /\ ~poisoned
  /\ IF raw THEN phase' = "finish" /\ UNCHANGED cut
            ELSE phase' = "publish" /\ cut' = Len(log)
  /\ UNCHANGED <<logVars, manifestVars, files, up, memtable, sequence, nextFile, walUser,
                 poisoned, raw, newTable, acked>>

\* publish_recovery_checkpoint: recovery starts at the cut from now on.  The
\* unlinking of the covered segments only frees space: see WAL.
PublishCheckpoint ==
  /\ phase = "publish"
  /\ Log!Truncate(cut)
  /\ diskSeq' = sequence
  /\ phase' = "finish"
  /\ UNCHANGED <<diskTables, torn, tables, files, up, memtable, sequence, nextFile, walUser,
                 poisoned, raw, newTable, cut, acked>>

\* The flushed entries leave the memtable.
FlushFinish ==
  /\ phase = "finish"
  /\ memtable' = {}
  /\ phase' = "idle" /\ newTable' = NoTable /\ cut' = 0
  /\ UNCHANGED <<logVars, manifestVars, files, up, sequence, nextFile, walUser, poisoned, raw,
                 acked>>

\* Mutant of FlushAbort: the memtable is given up although the flush failed.
AbortDropsMemtable ==
  /\ phase \in {"register", "rotate", "mark", "trust", "publish", "finish"}
  /\ phase' = "idle" /\ newTable' = NoTable /\ cut' = 0
  /\ memtable' = {}
  /\ UNCHANGED <<logVars, manifestVars, files, up, sequence, nextFile, walUser, poisoned, raw,
                 acked>>

\* A step of the flush fails or the future is dropped: the flush ends and the
\* memtable stays.  A manifest entry can be missing, incomplete or complete on
\* disk but not applied in memory; a rotation leaves the WAL poisoned.
FlushAbort ==
  /\ phase \in {"register", "rotate", "mark", "trust", "publish", "finish"}
  /\ phase' = "idle" /\ newTable' = NoTable /\ cut' = 0
  /\ torn' \in (IF phase \in {"register", "mark", "publish"} THEN {torn, TRUE} ELSE {torn})
  /\ diskTables' \in (IF phase = "register" /\ ~torn'
                        THEN {diskTables, diskTables \cup {newTable}} ELSE {diskTables})
  /\ \/ UNCHANGED <<log, diskSeq>>
     \/ /\ phase = "publish" /\ ~torn'
        /\ log' = SubSeq(log, cut + 1, Len(log))
        /\ diskSeq' = sequence
  /\ poisoned' \in (IF phase = "rotate" /\ walUser = "none" THEN {poisoned, TRUE} ELSE {poisoned})
  /\ UNCHANGED <<limbo, tables, files, up, memtable, sequence, nextFile, walUser, raw, acked>>

-----------------------------------------------------------------------------
(* Crash and reopen                                                        *)

Crash ==
  /\ up
  /\ Log!Reopen
  /\ up' = FALSE
  /\ memtable' = {} /\ sequence' = 0 /\ tables' = {} /\ nextFile' = 1
  /\ walUser' = "none" /\ poisoned' = FALSE /\ raw' = FALSE
  /\ phase' = "idle" /\ newTable' = NoTable /\ cut' = 0
  /\ UNCHANGED <<diskTables, diskSeq, torn, files, acked>>

\* Mutant of IsRecoveredSequence: the checkpoint's committed_sequence is forgotten.
SequenceFromWalOnly(s) ==
  /\ \A r \in RecordsOf(log) : r.lsn <= s
  /\ s = 0 \/ \E r \in RecordsOf(log) : r.lsn = s

\* recovered_sequence: the larger of the WAL's and the checkpoint's.
IsRecoveredSequence(s) ==
  /\ diskSeq <= s
  /\ \A r \in RecordsOf(log) : r.lsn <= s
  /\ s = diskSeq \/ \E r \in RecordsOf(log) : r.lsn = s

\* Mutant of IsNextFileId: ids start at 0 in a manifest without tables.
NextFileIdFromZero(n) ==
  /\ \A t \in diskTables : t.id < n
  /\ n = 0 \/ \E t \in diskTables : t.id + 1 = n

\* next_file_id after replay_manifest: one past the largest registered id.
IsNextFileId(n) ==
  /\ n >= 1
  /\ \A t \in diskTables : t.id < n
  /\ n = 1 \/ \E t \in diskTables : t.id + 1 = n

\* A manifest with an incomplete entry, and a registered table that is missing,
\* fail the open.
Open ==
  /\ ~up
  /\ ~torn
  /\ \A t \in diskTables : t.id \in files
  /\ tables' = diskTables
  /\ memtable' = RecordsOf(log)
  /\ \E s \in 0..MaxSeq : IsRecoveredSequence(s) /\ sequence' = s
  /\ \E n \in 0..(MaxFile + 1) : IsNextFileId(n) /\ nextFile' = n
  /\ up' = TRUE
  /\ UNCHANGED <<logVars, diskTables, diskSeq, torn, files, walUser, poisoned, raw, flushVars,
                 acked>>

-----------------------------------------------------------------------------
Next ==
  \/ \E group \in Batches : Write(group)
  \/ WriteOk \/ WriteFail
  \/ RawMark
  \/ \E r \in RawRecords : RawWrite(r)
  \/ RawOk \/ RawFail
  \/ FlushFile \/ RegisterSstable \/ RotateWalFile \/ MarkCheckpoint
  \/ TrustedRecoveryPosition \/ PublishCheckpoint \/ FlushFinish \/ FlushAbort
  \/ Crash \/ Open

Spec == Init /\ [][Next]_vars

-----------------------------------------------------------------------------
(* Reads                                                                   *)

\* The newest of a set of records of one key, as a set of at most one.
Newest(recs) == {r \in recs : \A s \in recs : s.lsn <= r.lsn}
ValueOf(recs) == IF recs = {} THEN Tombstone ELSE (CHOOSE r \in recs : TRUE).val

\* Mutant of Get: the comparison between level-0 tables is the wrong way round.
GetOldestTable(k, mem, ts, seq) ==
  LET inMem   == {r \in mem : r.key = k /\ r.lsn <= seq}
      inTable == {r \in TableRecords(ts) : r.key = k}
  IN  ValueOf(IF inMem # {} THEN Newest(inMem)
              ELSE {r \in inTable : \A s \in inTable : s.lsn >= r.lsn})

\* ReadManager::get: the memtable up to the sequence number first, then the
\* level-0 tables, whose records are not filtered.
Get(k, mem, ts, seq) ==
  LET inMem   == {r \in mem : r.key = k /\ r.lsn <= seq}
      inTable == {r \in TableRecords(ts) : r.key = k}
  IN  ValueOf(Newest(IF inMem # {} THEN inMem ELSE inTable))

\* ReadManager::scan_records_range: the newest of all sources up to the sequence
\* number.
Scan(k, mem, ts, seq) ==
  ValueOf(Newest({r \in mem \cup TableRecords(ts) : r.key = k /\ r.lsn <= seq}))

-----------------------------------------------------------------------------
(* Properties                                                              *)

Phases == {"idle", "write", "register", "rotate", "mark", "trust", "publish", "finish"}
Table == [id : 0..MaxFile, recs : SUBSET Record]

\* Every component of the state has its type.
TypeOK ==
  /\ log \in Seq(SUBSET Record) /\ limbo \in Seq(SUBSET Record)
  /\ diskTables \subseteq Table /\ diskSeq \in Nat /\ torn \in BOOLEAN
  /\ files \subseteq 1..MaxFile
  /\ up \in BOOLEAN
  /\ memtable \subseteq Record /\ sequence \in Nat /\ tables \subseteq Table
  /\ nextFile \in 1..(MaxFile + 1)
  /\ walUser \in {"none", "engine", "raw"} /\ poisoned \in BOOLEAN /\ raw \in BOOLEAN
  /\ phase \in Phases /\ newTable \in Table /\ cut \in Nat
  /\ acked \subseteq Record

\* What stays of the data when the process is gone.
Durable == RecordsOf(log) \cup TableRecords(diskTables)

\* recs has a record of each key of olds at least as new as theirs.
Covers(recs, olds) ==
  \A r \in olds : \E s \in recs : s.key = r.key /\ s.lsn >= r.lsn

\* No acknowledged write is ever lost: whatever a flush, a checkpoint, a failed
\* step of either, a raw writer and a crash do between them, each acknowledged
\* record or a newer one of its key is in the replayed log or a registered table.
AckedDurable == Covers(Durable, acked)

\* A new write is newer than everything stored: the sequence number recovered by
\* open and advanced by run_write_admission is never below a stored record's, so
\* the level-0 rule "highest LSN wins" cannot prefer an old record.
SequenceAhead ==
  up => \A r \in memtable \cup TableRecords(diskTables) : r.lsn <= sequence

\* get and scan answer alike: the memtable-first shortcut of get and its unfiltered
\* table lookup agree with the merge of scan_records_range.
ReadPathsAgree ==
  up => \A k \in Keys : Get(k, memtable, tables, sequence) = Scan(k, memtable, tables, sequence)

\* A file id is never used for two tables, whether a flush failed between creating
\* the file and registering it or not: the new table's file is no registered one's.
FileIdsFresh ==
  /\ \A t1, t2 \in diskTables : t1.id = t2.id => t1 = t2
  /\ \A t \in diskTables : t.id \in files
  /\ phase = "register" => \A t \in diskTables : t.id # newTable.id

-----------------------------------------------------------------------------
(* The inductive invariant behind AckedDurable and SequenceAhead           *)

\* Who may be inside the WAL, and what a closed engine looks like.
LogInUse ==
  /\ ~up => limbo = <<>> /\ walUser = "none" /\ ~poisoned /\ ~raw /\ phase = "idle"
  /\ limbo # <<>> => poisoned
  /\ phase = "write" <=> walUser = "engine"
  /\ walUser = "raw" => raw
  /\ phase = "write" => \A r \in RecordsOf(limbo) : r.lsn > sequence

\* Without raw writers the memtable and the tables hold the whole log.
LogInMemory ==
  up /\ ~raw => Covers(memtable \cup TableRecords(diskTables), RecordsOf(log))

\* How far the flush has come: its table covers the memtable, first as a file, then
\* as a registered table, and at last the tables cover the log up to the cut.
FlushProgress ==
  /\ phase \notin {"idle", "write"} => newTable.recs \subseteq memtable
  /\ phase = "register" => Covers(newTable.recs, memtable)
  /\ phase \in {"rotate", "mark", "trust", "publish", "finish"} =>
       Covers(TableRecords(diskTables), memtable)
  /\ phase = "publish" =>
       /\ cut <= Len(log)
       /\ Covers(TableRecords(diskTables), RecordsOf(SubSeq(log, 1, cut)))

\* The sequence number that recovery finds is not below any stored record's.
SequenceRecoverable ==
  /\ up => diskSeq <= sequence
  /\ \A r \in memtable \cup TableRecords(diskTables) :
       r.lsn <= diskSeq \/ \E s \in RecordsOf(log) : r.lsn <= s.lsn

IInv ==
  /\ TypeOK /\ LogInUse /\ LogInMemory /\ FlushProgress /\ SequenceRecoverable
  /\ AckedDurable /\ SequenceAhead

=============================================================================
