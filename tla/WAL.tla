-------------------------------- MODULE WAL --------------------------------
(***************************************************************************)
(* The segmented write-ahead log on its file system: WALManager (wal.rs),  *)
(* with the position of the recovery checkpoint that the manifest holds    *)
(* (publish_recovery_checkpoint) and the flush steps that move it.         *)
(*                                                                         *)
(* A file is a sequence of units, its header and then one unit per frame,  *)
(* perhaps followed by an incomplete unit.  Bytes, checksums and sizes are *)
(* abstracted: an incomplete unit is what the length and checksum tests    *)
(* recognise.  A file has a synced prefix, a directory entry is synced or  *)
(* not; a kill of the process leaves the files as written, a power loss    *)
(* keeps what was synced and any prefix of the rest.  Legacy version-one   *)
(* segments are not modelled.                                              *)
(***************************************************************************)
EXTENDS Integers, Sequences, Functions

CONSTANTS
  Groups,    \* groups of transactions, each a nonempty sequence of commands
  Commit,    \* the commit record
  Header,    \* the segment header
  Crashes,   \* the kinds of crash: a subset of {"kill", "power"}
  MaxSize,   \* max_segment_size, in units
  MaxLsn,    \* bound on physical LSNs
  MaxSegment \* bound on segment ids

VARIABLES
  segs,      \* the files of the WAL directory, by segment id
  ckpt,      \* the recovery checkpoint in the manifest
  up,        \* a WALManager is open
  segId,     \* WriterState::segment_id
  nextLsn,   \* WriterState::next_lsn
  poisoned,  \* WriterState::poisoned
  memCkpt,   \* WriterState::checkpoint
  raw,       \* raw_writes
  op, pc,    \* what the holder of the state lock does, and how far it is
  group,     \* the group being appended, or whose append failed
  flush,     \* how far the flush is: it holds the engine's writer lock
  pos,       \* the position that the flush will publish
  acked      \* history: acknowledged transactions

vars == <<segs, ckpt, up, segId, nextLsn, poisoned, memCkpt, raw, op, pc, group, flush, pos,
          acked>>

NoCheckpoint == [seg |-> 0, lsn |-> 0]
EmptyFile == [data |-> <<>>, torn |-> FALSE, synced |-> 0, entry |-> "new"]

Init ==
  /\ segs = <<>> /\ ckpt = NoCheckpoint
  /\ up = FALSE /\ segId = 0 /\ nextLsn = 1 /\ poisoned = FALSE /\ memCkpt = NoCheckpoint
  /\ raw = FALSE /\ op = "none" /\ pc = "none" /\ group = <<>>
  /\ flush = "no" /\ pos = NoCheckpoint
  /\ acked = {}

-----------------------------------------------------------------------------
(* Frames                                                                  *)

\* The frames of one transaction: its updates and the commit, chained by prev.  The
\* transaction id is its first LSN.
TransactionFrames(t, first) ==
  [i \in 1..Len(t) + 1 |->
     [lsn  |-> first + i - 1,
      tx   |-> first,
      prev |-> IF i = 1 THEN 0 ELSE first + i - 2,
      cmd  |-> IF i <= Len(t) THEN t[i] ELSE Commit]]

\* The frames of a group, from LSN lsn on: the planning loop of append_transactions.
GroupFrames(g, lsn) ==
  LET upTo[n \in 0..Len(g)] ==
        IF n = 0 THEN <<>>
        ELSE upTo[n - 1] \o TransactionFrames(g[n], lsn + Len(upTo[n - 1]))
  IN  upTo[Len(g)]

\* The segment ids in the directory, from the replay floor on: segment_paths.
Live == {i \in DOMAIN segs : segs[i].entry # "removed"}
FromFloor(ck) == {i \in Live : i >= ck.seg}
Newest == CHOOSE i \in Live : \A j \in Live : j <= i

FramesOf(i) == SubSeq(segs[i].data, 2, Len(segs[i].data))
FramesFrom(ck) ==
  LET floor == FromFloor(ck)
      upTo[i \in -1..MaxSegment] ==
        IF i = -1 THEN <<>>
        ELSE upTo[i - 1] \o (IF i \in floor THEN FramesOf(i) ELSE <<>>)
  IN  upTo[MaxSegment]

\* Analysis::accept over all frames: LSNs are consecutive, a transaction is chained,
\* and closed by its commit.
ChainAccepted(frames, ck) ==
  \A n \in 1..Len(frames) :
    LET f == frames[n]
        earlier == {m \in 1..(n - 1) : frames[m].tx = f.tx}
    IN  /\ f.lsn = (IF ck = NoCheckpoint THEN 1 ELSE ck.lsn) + n - 1
        /\ \A m \in earlier : frames[m].cmd # Commit
        /\ f.prev = IF earlier = {} THEN 0
                    ELSE frames[CHOOSE m \in earlier : \A k \in earlier : k <= m].lsn
        /\ f.cmd = Commit => f.prev # 0

\* What an open or a recovery accepts: the floor segment is there, no segment is
\* missing, only the newest may end in an incomplete unit, and the chain holds.
Accepted(ck, lastMayBeTorn) ==
  /\ ck # NoCheckpoint => ck.seg \in Live
  /\ \A i, j \in FromFloor(ck) : i..j \subseteq FromFloor(ck)
  /\ \A i \in FromFloor(ck) :
       (lastMayBeTorn /\ i = Newest) \/ (segs[i].data # <<>> /\ ~segs[i].torn)
  /\ ChainAccepted(FramesFrom(ck), ck)

\* Analysis::redo: the committed transactions in physical order.
Redo(frames) ==
  LET commits == SelectSeq(frames, LAMBDA f : f.cmd = Commit)
  IN  [n \in 1..Len(commits) |->
         LET own == SelectSeq(frames, LAMBDA f : f.tx = commits[n].tx /\ f.cmd # Commit)
         IN  [id |-> commits[n].tx, cmds |-> [i \in 1..Len(own) |-> own[i].cmd]]]

-----------------------------------------------------------------------------
(* Appends: append_transactions under the state lock                       *)

Unlocked == up /\ op = "none" /\ ~poisoned
Size == Len(segs[segId].data)

\* The group is planned, the writer poisoned until the end, and the segment rotated
\* first if the group would exceed its size and it is not empty.
AppendPlan(g) ==
  LET size == Len(GroupFrames(g, nextLsn))
      full == Size > 1 /\ Size + size > MaxSize
  IN  /\ Unlocked
      /\ nextLsn + size <= MaxLsn + 1
      /\ full => segId < MaxSegment
      /\ op' = "append" /\ group' = g /\ poisoned' = TRUE
      /\ pc' = IF full THEN "seal" ELSE "write"
      /\ UNCHANGED <<segs, ckpt, up, segId, nextLsn, memCkpt, raw, flush, pos, acked>>

\* write_engine_transactions: the flush excludes the engine's own writes.
EngineAppend(g) == flush = "no" /\ AppendPlan(g)

\* write_transaction: the flag is set before the state lock is awaited.
RawMark ==
  /\ up /\ ~raw
  /\ raw' = TRUE
  /\ UNCHANGED <<segs, ckpt, up, segId, nextLsn, poisoned, memCkpt, op, pc, group, flush, pos,
                 acked>>

RawAppend(g) == raw /\ AppendPlan(g)

\* The segment that the current operation creates, completes or writes.
Target ==
  CASE op = "open" -> IF Live = {} THEN 0 ELSE Newest
    [] pc \in {"create", "header", "headerSync", "dirSync"} -> segId + 1
    [] OTHER -> segId

\* write_all of all units.  A header completes an incomplete one.
WriteUnits(units, next) ==
  /\ segs' = [segs EXCEPT ![Target].data = @ \o units, ![Target].torn = @ /\ pc # "header"]
  /\ pc' = next
  /\ UNCHANGED <<ckpt, up, segId, nextLsn, poisoned, memCkpt, raw, op, group, flush, pos, acked>>

\* write_all is interrupted: some units and perhaps a part of the next one.
WriteSome(units) ==
  /\ \E n \in 0..(Len(units) - 1), t \in BOOLEAN :
       segs' = [segs EXCEPT ![Target].data = @ \o SubSeq(units, 1, n), ![Target].torn = t]
  /\ pc' = "failed"
  /\ UNCHANGED <<ckpt, up, segId, nextLsn, poisoned, memCkpt, raw, op, group, flush, pos, acked>>

Write == pc = "write" /\ WriteUnits(GroupFrames(group, nextLsn), "sync")
WriteInterrupted == pc = "write" /\ WriteSome(GroupFrames(group, nextLsn))

\* Mutant of SyncData: the caller is answered before sync_data.
AckBeforeSync ==
  /\ pc = "sync"
  /\ nextLsn' = nextLsn + Len(GroupFrames(group, nextLsn))
  /\ acked' = acked \cup Range(Redo(GroupFrames(group, nextLsn)))
  /\ op' = "none" /\ pc' = "none" /\ group' = <<>> /\ poisoned' = FALSE
  /\ UNCHANGED <<segs, ckpt, up, segId, memCkpt, raw, flush, pos>>

\* sync_data returned: the LSNs are taken, the writer is healthy, the caller answered.
SyncData ==
  /\ pc = "sync"
  /\ segs' = [segs EXCEPT ![segId].synced = Len(segs[segId].data)]
  /\ nextLsn' = nextLsn + Len(GroupFrames(group, nextLsn))
  /\ acked' = acked \cup Range(Redo(GroupFrames(group, nextLsn)))
  /\ op' = "none" /\ pc' = "none" /\ group' = <<>> /\ poisoned' = FALSE
  /\ UNCHANGED <<ckpt, up, segId, memCkpt, raw, flush, pos>>

\* An operation fails or its future is dropped: a write or rotation leaves the
\* writer poisoned.
Fail ==
  /\ op \in {"append", "rotate", "reclaim"}
  /\ op' = "none" /\ pc' = "none"
  /\ flush' = IF op = "rotate" THEN "no" ELSE flush
  /\ UNCHANGED <<segs, ckpt, up, segId, nextLsn, poisoned, memCkpt, raw, group, pos, acked>>

-----------------------------------------------------------------------------
(* Rotation: rotate_locked and create_segment                              *)

Seal ==
  /\ pc = "seal"
  /\ segs' = [segs EXCEPT ![segId].synced = Len(segs[segId].data)]
  /\ pc' = "create"
  /\ UNCHANGED <<ckpt, up, segId, nextLsn, poisoned, memCkpt, raw, op, group, flush, pos, acked>>

\* Mutant of CreateFile: no header is written.
CreateWithoutHeader ==
  /\ pc = "create"
  /\ Target \notin Live
  /\ segs' = [i \in DOMAIN segs \cup {Target} |-> IF i = Target THEN EmptyFile ELSE segs[i]]
  /\ pc' = "dirSync"
  /\ UNCHANGED <<ckpt, up, segId, nextLsn, poisoned, memCkpt, raw, op, group, flush, pos, acked>>

\* create_new fails if the file exists.
CreateFile ==
  /\ pc = "create"
  /\ Target \notin Live
  /\ segs' = [i \in DOMAIN segs \cup {Target} |-> IF i = Target THEN EmptyFile ELSE segs[i]]
  /\ pc' = "header"
  /\ UNCHANGED <<ckpt, up, segId, nextLsn, poisoned, memCkpt, raw, op, group, flush, pos, acked>>

WriteHeader == pc = "header" /\ WriteUnits(<<Header>>, "headerSync")
HeaderInterrupted == pc = "header" /\ WriteSome(<<Header>>)

SyncHeader ==
  /\ pc = "headerSync"
  /\ segs' = [segs EXCEPT ![Target].synced = 1]
  /\ pc' = "dirSync"
  /\ UNCHANGED <<ckpt, up, segId, nextLsn, poisoned, memCkpt, raw, op, group, flush, pos, acked>>

\* The directory is synced: its entries stay, removed ones are gone for good.
DirectorySynced == [i \in Live |-> [segs[i] EXCEPT !.entry = "kept"]]

\* The new segment is the current one from here on.
SyncDirectory ==
  /\ pc = "dirSync"
  /\ segs' = DirectorySynced
  /\ segId' = Target
  /\ pc' = IF op = "append" THEN "write" ELSE "done"
  /\ UNCHANGED <<ckpt, up, nextLsn, poisoned, memCkpt, raw, op, group, flush, pos, acked>>

-----------------------------------------------------------------------------
(* The flush: rotate_wal_file, trusted_recovery_position,                  *)
(* publish_recovery_checkpoint, reclaim_checkpointed_segments              *)

RotateWalFile ==
  /\ Unlocked /\ flush = "no" /\ segId < MaxSegment
  /\ op' = "rotate" /\ pc' = "seal" /\ poisoned' = TRUE /\ flush' = "rotate"
  /\ UNCHANGED <<segs, ckpt, up, segId, nextLsn, memCkpt, raw, group, pos, acked>>

RotateDone ==
  /\ op = "rotate" /\ pc = "done"
  /\ op' = "none" /\ pc' = "none" /\ poisoned' = FALSE /\ flush' = "rotated"
  /\ UNCHANGED <<segs, ckpt, up, segId, nextLsn, memCkpt, raw, group, pos, acked>>

\* Mutant of TrustedRecoveryPosition: raw_writes is not consulted.
TrustAlways ==
  /\ Unlocked /\ flush = "rotated"
  /\ flush' = "trusted" /\ pos' = [seg |-> segId, lsn |-> nextLsn]
  /\ UNCHANGED <<segs, ckpt, up, segId, nextLsn, poisoned, memCkpt, raw, op, pc, group, acked>>

TrustedRecoveryPosition ==
  /\ Unlocked /\ flush = "rotated"
  /\ IF raw THEN flush' = "no" /\ UNCHANGED pos
            ELSE flush' = "trusted" /\ pos' = [seg |-> segId, lsn |-> nextLsn]
  /\ UNCHANGED <<segs, ckpt, up, segId, nextLsn, poisoned, memCkpt, raw, op, pc, group, acked>>

\* The manifest entry is written and synced.
PublishCheckpoint ==
  /\ flush = "trusted"
  /\ ckpt' = pos /\ flush' = "published"
  /\ UNCHANGED <<segs, up, segId, nextLsn, poisoned, memCkpt, raw, op, pc, group, pos, acked>>

\* A step of the flush fails: in particular because the writer is poisoned.
FlushAbandon ==
  /\ flush \in {"rotated", "trusted", "published"}
  /\ flush' = "no"
  /\ UNCHANGED <<segs, ckpt, up, segId, nextLsn, poisoned, memCkpt, raw, op, pc, group, pos,
                 acked>>

Reclaim ==
  /\ Unlocked /\ flush = "published"
  /\ ckpt.seg <= segId /\ ckpt.lsn <= nextLsn
  /\ memCkpt' = ckpt /\ op' = "reclaim" /\ pc' = "remove" /\ flush' = "no"
  /\ UNCHANGED <<segs, ckpt, up, segId, nextLsn, poisoned, raw, group, pos, acked>>

Covered == {i \in Live : i < memCkpt.seg}

\* The covered segments are unlinked in order.
RemoveSegment ==
  /\ pc \in {"remove", "removing"} /\ Covered # {}
  /\ LET i == CHOOSE i \in Covered : \A j \in Covered : i <= j
     IN  segs' = [segs EXCEPT ![i].entry = "removed"]
  /\ pc' = "removing"
  /\ UNCHANGED <<ckpt, up, segId, nextLsn, poisoned, memCkpt, raw, op, group, flush, pos, acked>>

\* All are unlinked, or one could not be: the directory is synced if any was.
ReclaimDone ==
  /\ \/ pc = "remove" /\ UNCHANGED segs
     \/ pc = "removing" /\ segs' = DirectorySynced
  /\ op' = "none" /\ pc' = "none"
  /\ UNCHANGED <<ckpt, up, segId, nextLsn, poisoned, memCkpt, raw, group, flush, pos, acked>>

-----------------------------------------------------------------------------
(* Open: new_inner and scan_segment_with_tail_handling                     *)

\* create_dir_all_durable syncs the WAL directory itself.
OpenDirectory ==
  /\ ~up /\ op = "none"
  /\ segs' = DirectorySynced
  /\ op' = "open" /\ pc' = "scan"
  /\ UNCHANGED <<ckpt, up, segId, nextLsn, poisoned, memCkpt, raw, group, flush, pos, acked>>

\* Mutant of OpenScan: an incomplete tail is not truncated.
ScanKeepsTail ==
  /\ pc = "scan"
  /\ Accepted(ckpt, TRUE)
  /\ pc' = IF Live = {} THEN "create" ELSE IF segs[Newest].data = <<>> THEN "header" ELSE "done"
  /\ UNCHANGED <<segs, ckpt, up, segId, nextLsn, poisoned, memCkpt, raw, op, group, flush, pos,
                 acked>>

\* An incomplete header is completed, an incomplete frame truncated and the file
\* synced; a complete tail is left alone.
OpenScan ==
  /\ pc = "scan"
  /\ Accepted(ckpt, TRUE)
  /\ \/ Live = {} /\ pc' = "create" /\ UNCHANGED segs
     \/ /\ Live # {} /\ segs[Newest].data = <<>>
        /\ pc' = "header" /\ UNCHANGED segs
     \/ /\ Live # {} /\ segs[Newest].data # <<>>
        /\ segs' = IF segs[Newest].torn
                     THEN [segs EXCEPT ![Newest].torn = FALSE,
                                       ![Newest].synced = Len(segs[Newest].data)]
                     ELSE segs
        /\ pc' = "done"
  /\ UNCHANGED <<ckpt, up, segId, nextLsn, poisoned, memCkpt, raw, op, group, flush, pos, acked>>

\* Mutant of OpenDone: the writer continues in the first segment.
OpenFirstSegment ==
  /\ op = "open" /\ pc = "done"
  /\ up' = TRUE
  /\ segId' \in FromFloor(ckpt) /\ \A i \in FromFloor(ckpt) : segId' <= i
  /\ nextLsn' = (IF ckpt = NoCheckpoint THEN 1 ELSE ckpt.lsn) + Len(FramesFrom(ckpt))
  /\ memCkpt' = ckpt
  /\ IF ckpt = NoCheckpoint THEN op' = "none" /\ pc' = "none"
                            ELSE op' = "reclaim" /\ pc' = "remove"
  /\ UNCHANGED <<segs, ckpt, poisoned, raw, group, flush, pos, acked>>

\* The writer continues after the last frame, committed or not.  KV2 reclaims what
\* the checkpoint covers once recovery has succeeded.
OpenDone ==
  /\ op = "open" /\ pc = "done"
  /\ up' = TRUE
  /\ segId' = Newest
  /\ nextLsn' = (IF ckpt = NoCheckpoint THEN 1 ELSE ckpt.lsn) + Len(FramesFrom(ckpt))
  /\ memCkpt' = ckpt
  /\ IF ckpt = NoCheckpoint THEN op' = "none" /\ pc' = "none"
                            ELSE op' = "reclaim" /\ pc' = "remove"
  /\ UNCHANGED <<segs, ckpt, poisoned, raw, group, flush, pos, acked>>

-----------------------------------------------------------------------------
(* Crashes                                                                 *)

ProcessGone ==
  /\ up' = FALSE /\ segId' = 0 /\ nextLsn' = 1 /\ poisoned' = FALSE /\ memCkpt' = NoCheckpoint
  /\ raw' = FALSE /\ op' = "none" /\ pc' = "none" /\ group' = <<>>
  /\ flush' = "no" /\ pos' = NoCheckpoint
  /\ UNCHANGED <<ckpt, acked>>

\* The process is killed, or the manager dropped: the files stay as written.
Kill ==
  /\ "kill" \in Crashes /\ (up \/ op = "open")
  /\ ProcessGone
  /\ UNCHANGED segs

\* What a power loss can leave of a file.
Survivors(f) ==
  {g \in {[data |-> SubSeq(f.data, 1, n), torn |-> t, synced |-> n, entry |-> "kept"]
            : n \in f.synced..Len(f.data), t \in BOOLEAN} :
     g.torn => f.torn \/ g.data # f.data}

\* Every file keeps one of its survivors: one that is synced and whole is itself.
PowerLoss ==
  /\ "power" \in Crashes
  /\ ProcessGone
  /\ \E kept \in SUBSET DOMAIN segs :
       LET left == [i \in kept |-> Survivors(segs[i])]
           open == {i \in kept : segs[i].torn \/ segs[i].synced < Len(segs[i].data)}
       IN  /\ \A i \in DOMAIN segs \ kept : segs[i].entry # "kept"
           /\ \E f \in [open -> UNION {left[i] : i \in open}] :
                /\ \A i \in open : f[i] \in left[i]
                /\ segs' = [i \in kept |-> IF i \in open THEN f[i]
                                           ELSE [segs[i] EXCEPT !.entry = "kept"]]

-----------------------------------------------------------------------------
Next ==
  \/ \E g \in Groups : EngineAppend(g) \/ RawAppend(g)
  \/ RawMark
  \/ Write \/ WriteInterrupted \/ SyncData \/ Fail
  \/ Seal \/ CreateFile \/ WriteHeader \/ HeaderInterrupted \/ SyncHeader \/ SyncDirectory
  \/ RotateWalFile \/ RotateDone \/ TrustedRecoveryPosition \/ PublishCheckpoint
  \/ FlushAbandon \/ Reclaim \/ RemoveSegment \/ ReclaimDone
  \/ OpenDirectory \/ OpenScan \/ OpenDone
  \/ Kill \/ PowerLoss

Spec == Init /\ [][Next]_vars

-----------------------------------------------------------------------------
(* Properties                                                              *)

\* What a recovery would return now.
Recoverable == Redo(FramesFrom(ckpt))

Frame == [lsn : 1..MaxLsn, tx : 1..MaxLsn, prev : 0..MaxLsn,
          cmd : UNION {Range(t) : t \in UNION {Range(g) : g \in Groups}} \cup {Commit}]
Position == [seg : 0..MaxSegment, lsn : 0..(MaxLsn + 1)]

\* Every component of the state has its type; a file starts with its header and
\* nothing but frames follows; what is synced has been written.
TypeOK ==
  /\ DOMAIN segs \subseteq 0..MaxSegment
  /\ \A i \in DOMAIN segs :
       /\ segs[i].data # <<>> => segs[i].data[1] = Header
       /\ Range(FramesOf(i)) \subseteq Frame
       /\ segs[i].synced \in 0..Len(segs[i].data)
       /\ segs[i].torn \in BOOLEAN /\ segs[i].entry \in {"new", "kept", "removed"}
  /\ ckpt \in Position /\ memCkpt \in Position /\ pos \in Position
  /\ segId \in 0..MaxSegment /\ nextLsn \in 1..(MaxLsn + 1)
  /\ up \in BOOLEAN /\ poisoned \in BOOLEAN /\ raw \in BOOLEAN
  /\ flush \in {"no", "rotate", "rotated", "trusted", "published"}
  /\ group \in Groups \cup {<<>>}

\* An acknowledged transaction is recovered whole after any mixture of kills and
\* power losses, until a checkpoint of the flush covers it: sync_data comes before
\* the answer, and rotation syncs what it seals.
AckedRecoverable ==
  LET recovered == Range(Recoverable)
  IN  \A t \in acked : t.id < ckpt.lsn \/ t \in recovered

\* No crash leaves a directory that open refuses: neither an interrupted append,
\* rotation, segment creation, repair or reclamation, nor a crash during open.
OpenAccepts == pc = "scan" => Accepted(ckpt, TRUE)

\* A healthy manager can be read at any time (recover_records): its sealed segments
\* and its own checkpoint stay consistent with the directory while segments are
\* reclaimed, and it finds exactly what it has acknowledged or recovered.
RecoverRecordsWorks ==
  Unlocked => /\ Accepted(memCkpt, FALSE)
              /\ Len(FramesFrom(memCkpt)) + (IF memCkpt = NoCheckpoint THEN 1 ELSE memCkpt.lsn)
                   = nextLsn

\* create_new never meets an existing file: segment ids are not reused, also when a
\* crash interrupted an earlier rotation to the same id.
SegmentIdsFresh == pc = "create" => Target \notin Live

\* "Repeating recovery returns the same committed commands": a crash of a healthy
\* log, with no append under way, changes nothing of what recovery returns.
RecoveryRepeats ==
  [][up /\ op = "none" /\ ~poisoned /\ ~up' => Recoverable' = Recoverable]_vars

\* What the users of the log see: while it is open, the frames it has acknowledged
\* or recovered; while it is closed, what the next recovery returns.
LogView ==
  LET redo == Redo(IF up THEN SelectSeq(FramesFrom(ckpt), LAMBDA f : f.lsn < nextLsn)
                         ELSE FramesFrom(ckpt))
  IN  [n \in 1..Len(redo) |-> redo[n].cmds]

DL == INSTANCE DurableLog WITH log <- LogView, limbo <- group

\* The segmented log is a DurableLog: rotation, torn writes, repair, checkpoints and
\* reclamation are invisible but for the prefix of whole transactions that an
\* interrupted group may leave.
ImplementsDurableLog == DL!Spec

=============================================================================
