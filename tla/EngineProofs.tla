---------------------------- MODULE EngineProofs ----------------------------
(***************************************************************************)
(* Proofs about Engine: its type invariant, and that no acknowledged write *)
(* is lost and new writes are newest, for every set of keys, values and    *)
(* batches and every bound.  The inductive invariant IInv and its parts    *)
(* are defined in Engine.                                                  *)
(***************************************************************************)
EXTENDS Engine, SequenceTheorems, WellFoundedInduction, TLAPS

-----------------------------------------------------------------------------
(* Facts about the records of a log                                        *)

\* The records of a concatenation are those of its parts.
LEMMA RecordsOfConcat ==
  ASSUME NEW S, NEW s \in Seq(S), NEW t \in Seq(S)
  PROVE  RecordsOf(s \o t) = RecordsOf(s) \cup RecordsOf(t)
<1>1. Range(s \o t) = Range(s) \cup Range(t)
  <2>1. ASSUME NEW x \in Range(s \o t) PROVE x \in Range(s) \cup Range(t)
    BY ConcatProperties, LenProperties DEF Range
  <2>2. ASSUME NEW x \in Range(s) PROVE x \in Range(s \o t)
    BY ConcatProperties, LenProperties DEF Range
  <2>3. ASSUME NEW x \in Range(t) PROVE x \in Range(s \o t)
    <3>1. PICK j \in 1..Len(t) : x = t[j]
      BY LenProperties DEF Range
    <3>2. Len(s) + j \in 1..(Len(s) + Len(t)) /\ (s \o t)[Len(s) + j] = t[j]
      BY ConcatProperties, LenProperties
    <3> QED BY <3>1, <3>2, ConcatProperties, LenProperties DEF Range
  <2> QED BY <2>1, <2>2, <2>3
<1> QED BY <1>1 DEF RecordsOf

\* A log of sets of records has only records.
LEMMA RecordsOfType ==
  ASSUME NEW s \in Seq(SUBSET Record)
  PROVE  RecordsOf(s) \subseteq Record
BY LenProperties DEF RecordsOf, Range

\* Cutting a log in two divides its records.
LEMMA RecordsOfSplit ==
  ASSUME NEW S, NEW s \in Seq(S), NEW n \in Nat, n <= Len(s)
  PROVE  /\ SubSeq(s, 1, n) \in Seq(S)
         /\ SubSeq(s, n + 1, Len(s)) \in Seq(S)
         /\ RecordsOf(s) = RecordsOf(SubSeq(s, 1, n)) \cup RecordsOf(SubSeq(s, n + 1, Len(s)))
<1>0. Len(s) \in Nat
  BY LenProperties
<1>1. SubSeq(s, 1, n) \in Seq(S)
  BY <1>0, SubSeqProperties, ElementOfSeq
<1>2. SubSeq(s, n + 1, Len(s)) \in Seq(S)
  BY <1>0, SubSeqProperties, ElementOfSeq
<1>3. SubSeq(s, 1, n) \o SubSeq(s, n + 1, Len(s)) = s
  <2>1. 1 \in 1..Len(s) + 1 /\ n \in (1 - 1)..Len(s) /\ Len(s) \in n..Len(s)
    BY <1>0
  <2>2. SubSeq(s, 1, n) \o SubSeq(s, n + 1, Len(s)) = SubSeq(s, 1, Len(s))
    BY <2>1, ConcatAdjacentSubSeq
  <2> QED BY <2>2, SubSeqFull
<1>4. RecordsOf(SubSeq(s, 1, n) \o SubSeq(s, n + 1, Len(s)))
        = RecordsOf(SubSeq(s, 1, n)) \cup RecordsOf(SubSeq(s, n + 1, Len(s)))
  <2> DEFINE before == SubSeq(s, 1, n)
             after  == SubSeq(s, n + 1, Len(s))
  <2>1. before \in Seq(S) /\ after \in Seq(S)
    BY <1>1, <1>2
  <2> HIDE DEF before, after
  <2>2. RecordsOf(before \o after) = RecordsOf(before) \cup RecordsOf(after)
    BY <2>1, RecordsOfConcat
  <2> QED BY <2>2 DEF before, after
<1> QED BY <1>1, <1>2, <1>3, <1>4, Zenon

-----------------------------------------------------------------------------
(* Facts about coverage                                                    *)

\* The fields of a record have their types.
LEMMA RecordFields ==
  ASSUME NEW r \in Record
  PROVE  r.lsn \in Nat
BY DEF Record

\* Coverage is transitive.
LEMMA CoversTrans ==
  ASSUME NEW a \in SUBSET Record, NEW b \in SUBSET Record, NEW c \in SUBSET Record,
         Covers(a, b), Covers(b, c)
  PROVE  Covers(a, c)
<1> SUFFICES ASSUME NEW r \in c
             PROVE  \E s \in a : s.key = r.key /\ s.lsn >= r.lsn
  BY DEF Covers
<1>1. PICK t \in b : t.key = r.key /\ t.lsn >= r.lsn
  BY DEF Covers
<1>2. PICK s \in a : s.key = t.key /\ s.lsn >= t.lsn
  BY DEF Covers
<1> QED BY <1>1, <1>2, RecordFields

\* More records cover more, and fewer are covered sooner.
LEMMA CoversMono ==
  ASSUME NEW a, NEW b, NEW c, NEW d, Covers(a, b), a \subseteq c, d \subseteq b
  PROVE  Covers(c, d)
BY DEF Covers

\* A set covers itself, and the union of what its parts cover.
LEMMA CoversUnion ==
  ASSUME NEW a, NEW b, NEW c, Covers(a, b), Covers(a, c)
  PROVE  Covers(a, b \cup c)
BY DEF Covers

\* A set of records covers itself.
LEMMA CoversSelf ==
  ASSUME NEW a \in SUBSET Record
  PROVE  Covers(a, a)
BY RecordFields DEF Covers

\* A nonempty set of naturals has a least element.
LEMMA LeastNatural ==
  ASSUME NEW D \in SUBSET Nat, D # {}
  PROVE  \E m \in D : \A d \in D : m <= d
<1> DEFINE R == OpToRel(<, Nat)
<1>1. \A d, e \in Nat : d < e => <<d, e>> \in R
  BY DEF OpToRel
<1>2. IsWellFoundedOn(R, Nat)
  BY NatLessThanWellFounded
<1> HIDE DEF R
<1>3. PICK m \in D : \A d \in D : ~(<<d, m>> \in R)
  BY <1>2, WFMin
<1>4. \A d \in D : d \in Nat /\ m \in Nat /\ ~(d < m)
  BY <1>1, <1>3, Zenon
<1> QED BY <1>4

\* The newest record of each key covers all records, if their sequence numbers
\* are bounded: what a flushed table has of its memtable.
LEMMA NewestCovers ==
  ASSUME NEW recs \in SUBSET Record, NEW bound \in Nat, \A r \in recs : r.lsn <= bound
  PROVE  Covers(NewestPerKey(recs), recs)
<1> SUFFICES ASSUME NEW r \in recs
             PROVE  \E s \in NewestPerKey(recs) : s.key = r.key /\ s.lsn >= r.lsn
  BY DEF Covers
<1> DEFINE Distance(s) == bound - s.lsn
           D == {Distance(s) : s \in {t \in recs : t.key = r.key}}
<1>1. D \subseteq Nat /\ D # {}
  BY RecordFields
<1>3. PICK m \in D : \A d \in D : m <= d
  <2> HIDE DEF D
  <2> QED BY <1>1, LeastNatural
<1>4. PICK s \in recs : s.key = r.key /\ m = Distance(s)
  BY <1>3
<1>5. \A t \in recs : t.key = r.key => t.lsn <= s.lsn
  BY <1>3, <1>4, RecordFields
<1> QED BY <1>4, <1>5 DEF NewestPerKey

-----------------------------------------------------------------------------
(* Type correctness                                                        *)

\* A function on 1..n is a sequence.
LEMMA FunctionIsSeq ==
  ASSUME NEW S, NEW n \in Nat, NEW f \in [1..n -> S]
  PROVE  f \in Seq(S)
BY SeqDef, Zenon

\* The placeholder for no table has the type of a table.
LEMMA NoTableType == NoTable \in Table
BY EngineAssumption DEF NoTable, Table

\* The transactions of a group are sets of records numbered above the sequence
\* number.
LEMMA TransactionsType ==
  ASSUME sequence \in Nat, NEW group \in Batches,
         NEW end \in [0..Len(group) -> sequence..MaxSeq]
  PROVE  /\ Transactions(group, end) \in Seq(SUBSET Record)
         /\ \A r \in RecordsOf(Transactions(group, end)) : r.lsn > sequence
<1> DEFINE Op == [key : Keys, val : Vals \cup {Tombstone}]
           Tx(n) == {[key |-> group[n][i].key, lsn |-> end[n - 1] + i, val |-> group[n][i].val]
                       : i \in 1..Len(group[n])}
<1>1. group \in Seq(Seq(Op)) /\ Len(group) \in Nat
  BY EngineAssumption, LenProperties
<1>2. ASSUME NEW n \in 1..Len(group)
      PROVE  Tx(n) \in SUBSET Record /\ \A r \in Tx(n) : r.lsn > sequence
  <2>1. group[n] \in Seq(Op) /\ Len(group[n]) \in Nat
    BY <1>1, ElementOfSeq, LenProperties
  <2>2. end[n - 1] \in Nat /\ end[n - 1] >= sequence
    <3>1. n - 1 \in 0..Len(group)
      BY <1>1
    <3>2. end[n - 1] \in sequence..MaxSeq
      BY <3>1
    <3> QED BY <3>2, EngineAssumption
  <2>3. ASSUME NEW i \in 1..Len(group[n])
        PROVE  /\ group[n][i] \in Op
               /\ end[n - 1] + i \in Nat
               /\ end[n - 1] + i > sequence
    <3>1. group[n][i] \in Op
      BY <2>1, ElementOfSeq
    <3>2. i \in Nat /\ i > 0
      BY <2>1
    <3> QED BY <3>1, <3>2, <2>2
  <2>4. ASSUME NEW i \in 1..Len(group[n])
        PROVE  [key |-> group[n][i].key, lsn |-> end[n - 1] + i, val |-> group[n][i].val]
                 \in Record
    BY <2>3 DEF Record
  <2> QED BY <2>3, <2>4
<1>3. Transactions(group, end) = [n \in 1..Len(group) |-> Tx(n)]
  BY DEF Transactions
<1> HIDE DEF Tx
<1>4. Transactions(group, end) \in [1..Len(group) -> SUBSET Record]
  BY <1>2, <1>3
<1>5. Transactions(group, end) \in Seq(SUBSET Record)
  BY <1>1, <1>4, FunctionIsSeq
<1>6. \A r \in RecordsOf(Transactions(group, end)) : r.lsn > sequence
  <2> SUFFICES ASSUME NEW r \in RecordsOf(Transactions(group, end))
               PROVE  r.lsn > sequence
    OBVIOUS
  <2>1. PICK n \in 1..Len(group) : r \in Tx(n)
    BY <1>3 DEF RecordsOf, Range
  <2> QED BY <1>2, <2>1
<1> QED BY <1>5, <1>6

\* Every step keeps the type invariant.
LEMMA TypeStep ==
  ASSUME TypeOK, [Next]_vars
  PROVE  TypeOK'
<1> USE EngineAssumption DEF TypeOK, Table, Phases, logVars, manifestVars, flushVars
<1>1. ASSUME NEW group \in Batches, Write(group) PROVE TypeOK'
  BY <1>1, TransactionsType DEF Write, Log!Begin
<1>2. CASE WriteOk
  <2>1. log' \in Seq(SUBSET Record) /\ RecordsOf(limbo) \subseteq Record
    BY <1>2, ConcatProperties, RecordsOfType DEF WriteOk, Log!Acknowledge
  <2>2. sequence' \in Nat
    BY <1>2, <2>1, RecordFields DEF WriteOk
  <2> QED BY <1>2, <2>1, <2>2, EmptySeq DEF WriteOk, Log!Acknowledge
<1>3. CASE WriteFail
  BY <1>3 DEF WriteFail
<1>4. CASE RawMark
  BY <1>4 DEF RawMark
<1>5. ASSUME NEW r \in RawRecords, RawWrite(r) PROVE TypeOK'
  <2>1. {r} \in SUBSET Record
    BY DEF Record
  <2>2. <<{r}>> \in Seq(SUBSET Record)
    BY <2>1
  <2> QED BY <1>5, <2>2 DEF RawWrite, Log!Begin
<1>6. CASE RawOk
  <2>1. log' \in Seq(SUBSET Record) /\ RecordsOf(limbo) \subseteq Record
    BY <1>6, ConcatProperties, RecordsOfType DEF RawOk, Log!Acknowledge
  <2> QED BY <1>6, <2>1, EmptySeq DEF RawOk, Log!Acknowledge
<1>7. CASE RawFail
  BY <1>7 DEF RawFail
<1>8. CASE FlushFile
  BY <1>8 DEF FlushFile, NewestPerKey
<1>9. CASE RegisterSstable
  BY <1>9 DEF RegisterSstable
<1>10. CASE RotateWalFile
  BY <1>10 DEF RotateWalFile
<1>11. CASE MarkCheckpoint
  BY <1>11 DEF MarkCheckpoint
<1>12. CASE TrustedRecoveryPosition
  BY <1>12, LenProperties DEF TrustedRecoveryPosition
<1>13. SubSeq(log, cut + 1, Len(log)) \in Seq(SUBSET Record)
  <2>1. Len(log) \in Int /\ cut + 1 \in Int
    BY LenProperties
  <2>2. \A i \in (cut + 1)..Len(log) : log[i] \in SUBSET Record
    BY <2>1, ElementOfSeq
  <2> QED BY <2>1, <2>2, SubSeqProperties
<1>14. CASE PublishCheckpoint
  BY <1>13, <1>14 DEF PublishCheckpoint, Log!Truncate
<1>15. CASE FlushFinish
  BY <1>15, NoTableType DEF FlushFinish
<1>16. CASE FlushAbort
  <2>1. torn' \in BOOLEAN /\ poisoned' \in BOOLEAN /\ phase' = "idle"
    BY <1>16 DEF FlushAbort
  <2>2. diskTables' \subseteq Table
    BY <1>16 DEF FlushAbort
  <2>3. log' \in Seq(SUBSET Record) /\ diskSeq' \in Nat
    BY <1>13, <1>16 DEF FlushAbort
  <2>4. newTable' \in Table /\ cut' \in Nat
    BY <1>16, NoTableType DEF FlushAbort
  <2> QED BY <1>16, <2>1, <2>2, <2>3, <2>4 DEF FlushAbort
<1>17. CASE Crash
  <2>1. log' \in Seq(SUBSET Record) /\ limbo' = <<>>
    <3>1. PICK n \in 0..Len(limbo) : log' = log \o SubSeq(limbo, 1, n) /\ limbo' = <<>>
      BY <1>17 DEF Crash, Log!Reopen
    <3>2. SubSeq(limbo, 1, n) \in Seq(SUBSET Record)
      <4>1. n \in Nat /\ n <= Len(limbo)
        BY LenProperties
      <4> QED BY <4>1, RecordsOfSplit
    <3> QED BY <3>1, <3>2, ConcatProperties
  <2>2. limbo' \in Seq(SUBSET Record) /\ newTable' \in Table
    BY <1>17, <2>1, EmptySeq, NoTableType DEF Crash
  <2>3. up' \in BOOLEAN /\ torn' \in BOOLEAN /\ poisoned' \in BOOLEAN /\ raw' \in BOOLEAN
    BY <1>17 DEF Crash
  <2>4. sequence' \in Nat /\ nextFile' \in 1..(MaxFile + 1) /\ cut' \in Nat
    BY <1>17 DEF Crash
  <2>5. memtable' \subseteq Record /\ tables' \subseteq Table
    BY <1>17 DEF Crash
  <2> QED BY <1>17, <2>1, <2>2, <2>3, <2>4, <2>5 DEF Crash
<1>18. CASE Open
  BY <1>18, RecordsOfType DEF Open, IsNextFileId
<1>19. CASE UNCHANGED vars
  BY <1>19 DEF vars
<1> HIDE DEF TypeOK, Table, Phases, logVars, manifestVars, flushVars
<1> QED
  BY <1>1, <1>2, <1>3, <1>4, <1>5, <1>6, <1>7, <1>8, <1>9, <1>10, <1>11, <1>12, <1>14, <1>15,
     <1>16, <1>17, <1>18, <1>19 DEF Next

\* The empty engine has its type.
LEMMA TypeInit ==
  ASSUME Init
  PROVE  TypeOK
<1>1. log \in Seq(SUBSET Record) /\ limbo \in Seq(SUBSET Record) /\ newTable \in Table
  BY EmptySeq, NoTableType DEF Init, Log!Init
<1>2. nextFile \in 1..(MaxFile + 1)
  BY EngineAssumption DEF Init
<1> QED BY <1>1, <1>2 DEF Init, TypeOK, Phases

\* The engine's state always has its type: in particular the sequence number and
\* the file ids stay in their ranges, whatever fails in between.
THEOREM TypeCorrect == Spec => []TypeOK
<1>1. Init => TypeOK
  BY TypeInit
<1>2. TypeOK /\ [Next]_vars => TypeOK'
  BY TypeStep
<1> QED BY <1>1, <1>2, PTL DEF Spec

-----------------------------------------------------------------------------
(* How the steps change what is durable                                    *)

\* The records of registered tables are records.
LEMMA TableRecordsType ==
  ASSUME NEW ts \in SUBSET Table
  PROVE  TableRecords(ts) \in SUBSET Record
BY DEF TableRecords, Table

\* Registering a table adds its records (register_sstable).
LEMMA TableRecordsAdd ==
  ASSUME NEW ts, NEW t
  PROVE  TableRecords(ts \cup {t}) = TableRecords(ts) \cup t.recs
BY DEF TableRecords

\* An acknowledgement puts the records in limbo into the log.
LEMMA AcknowledgeAdds ==
  ASSUME TypeOK, Log!Acknowledge
  PROVE  /\ RecordsOf(log') = RecordsOf(log) \cup RecordsOf(limbo)
         /\ RecordsOf(limbo) \in SUBSET Record
BY RecordsOfConcat, RecordsOfType DEF TypeOK, Log!Acknowledge

\* A crash takes nothing out of the log.
LEMMA CrashKeeps ==
  ASSUME TypeOK, Log!Reopen
  PROVE  RecordsOf(log) \subseteq RecordsOf(log')
<1>1. PICK n \in 0..Len(limbo) : log' = log \o SubSeq(limbo, 1, n)
  BY DEF Log!Reopen
<1>2. SubSeq(limbo, 1, n) \in Seq(SUBSET Record)
  <2>1. n \in Nat /\ n <= Len(limbo) /\ limbo \in Seq(SUBSET Record)
    BY LenProperties DEF TypeOK
  <2> QED BY <2>1, RecordsOfSplit
<1>3. log \in Seq(SUBSET Record)
  BY DEF TypeOK
<1>4. RecordsOf(log \o SubSeq(limbo, 1, n)) = RecordsOf(log) \cup RecordsOf(SubSeq(limbo, 1, n))
  <2> DEFINE survived == SubSeq(limbo, 1, n)
  <2>1. survived \in Seq(SUBSET Record)
    BY <1>2
  <2> HIDE DEF survived
  <2>2. RecordsOf(log \o survived) = RecordsOf(log) \cup RecordsOf(survived)
    BY <1>3, <2>1, RecordsOfConcat
  <2> QED BY <2>2 DEF survived
<1> QED BY <1>1, <1>4

\* What a checkpoint cuts off the log is covered by the tables.
LEMMA TruncateCovered ==
  ASSUME TypeOK, FlushProgress, phase = "publish", log' = SubSeq(log, cut + 1, Len(log))
  PROVE  /\ RecordsOf(log') \subseteq RecordsOf(log)
         /\ Covers(RecordsOf(log') \cup TableRecords(diskTables), RecordsOf(log))
<1> DEFINE prefix == RecordsOf(SubSeq(log, 1, cut))
<1>1. log \in Seq(SUBSET Record) /\ cut \in Nat /\ cut <= Len(log)
  BY DEF TypeOK, FlushProgress
<1>2. RecordsOf(log) = prefix \cup RecordsOf(log') /\ log' \in Seq(SUBSET Record)
  BY <1>1, RecordsOfSplit
<1>3. Covers(TableRecords(diskTables), prefix)
  BY DEF FlushProgress
<1>4. Covers(RecordsOf(log'), RecordsOf(log'))
  BY <1>2, RecordsOfType, CoversSelf
<1> HIDE DEF prefix
<1>5. Covers(RecordsOf(log') \cup TableRecords(diskTables), prefix)
  BY <1>3, CoversMono
<1>6. Covers(RecordsOf(log') \cup TableRecords(diskTables), RecordsOf(log'))
  BY <1>4, CoversMono
<1> QED BY <1>2, <1>5, <1>6, CoversUnion

\* Every step covers what was durable: the heart of AckedDurable.
LEMMA DurableStep ==
  ASSUME TypeOK, FlushProgress, [Next]_vars
  PROVE  Covers(Durable', Durable)
<1>0. Durable \in SUBSET Record
  BY RecordsOfType, TableRecordsType DEF Durable, TypeOK
<1>10. Covers(TableRecords(diskTables), TableRecords(diskTables))
  BY TableRecordsType, CoversSelf DEF TypeOK
<1> SUFFICES ASSUME ~(Durable \subseteq Durable')
             PROVE  Covers(Durable', Durable)
  BY <1>0, CoversSelf, CoversMono
<1> USE DEF Durable, logVars, manifestVars
<1>1. ASSUME NEW group \in Batches, Write(group) PROVE FALSE
  BY <1>1 DEF Write, Log!Begin
<1>2. CASE WriteOk
  BY <1>2, AcknowledgeAdds DEF WriteOk
<1>3. CASE WriteFail \/ RawMark \/ RawFail \/ FlushFile \/ RotateWalFile \/ MarkCheckpoint
             \/ TrustedRecoveryPosition \/ FlushFinish \/ Open \/ UNCHANGED vars
  BY <1>3 DEF WriteFail, RawMark, RawFail, FlushFile, RotateWalFile, MarkCheckpoint,
              TrustedRecoveryPosition, FlushFinish, Open, vars
<1>4. ASSUME NEW r \in RawRecords, RawWrite(r) PROVE FALSE
  BY <1>4 DEF RawWrite, Log!Begin
<1>5. CASE RawOk
  BY <1>5, AcknowledgeAdds DEF RawOk
<1>6. CASE RegisterSstable
  BY <1>6, TableRecordsAdd DEF RegisterSstable
<1>7. CASE PublishCheckpoint
  <2>1. log' = SubSeq(log, cut + 1, Len(log)) /\ phase = "publish" /\ diskTables' = diskTables
    BY <1>7 DEF PublishCheckpoint, Log!Truncate
  <2>2. Covers(Durable', RecordsOf(log))
    BY <2>1, TruncateCovered
  <2>3. Covers(Durable', TableRecords(diskTables))
    BY <1>10, <2>1, CoversMono
  <2> QED BY <2>2, <2>3, CoversUnion
<1>8. CASE FlushAbort
  <2>1. TableRecords(diskTables) \subseteq TableRecords(diskTables')
    BY <1>8, TableRecordsAdd DEF FlushAbort
  <2>2. phase = "publish" /\ log' = SubSeq(log, cut + 1, Len(log)) /\ diskTables' = diskTables
    BY <1>8, <2>1 DEF FlushAbort
  <2>3. Covers(Durable', RecordsOf(log))
    BY <2>2, TruncateCovered
  <2>4. Covers(Durable', TableRecords(diskTables))
    BY <1>10, <2>2, CoversMono
  <2> QED BY <2>3, <2>4, CoversUnion
<1>9. CASE Crash
  BY <1>9, CrashKeeps DEF Crash
<1> HIDE DEF Durable, logVars, manifestVars
<1> QED BY <1>1, <1>2, <1>3, <1>4, <1>5, <1>6, <1>7, <1>8, <1>9 DEF Next

\* Acknowledged records are durable from the moment of their acknowledgement.
LEMMA AckedStep ==
  ASSUME TypeOK, TypeOK', FlushProgress, AckedDurable, [Next]_vars
  PROVE  AckedDurable'
<1>1. Covers(Durable', Durable)
  BY DurableStep
<1>2. Durable \in SUBSET Record /\ Durable' \in SUBSET Record /\ acked \in SUBSET Record
  BY RecordsOfType, TableRecordsType DEF Durable, TypeOK
<1>3. Covers(Durable', acked)
  BY <1>1, <1>2, CoversTrans DEF AckedDurable
<1>4. CASE acked' = acked
  BY <1>3, <1>4 DEF AckedDurable
<1>5. CASE WriteOk \/ RawOk
  <2>1. Log!Acknowledge /\ acked' = acked \cup RecordsOf(limbo)
    BY <1>5 DEF WriteOk, RawOk
  <2>2. RecordsOf(limbo) \subseteq Durable' /\ RecordsOf(limbo) \in SUBSET Record
    BY <2>1, AcknowledgeAdds DEF Durable
  <2>3. Covers(RecordsOf(limbo), RecordsOf(limbo))
    BY <2>2, CoversSelf
  <2>4. Covers(Durable', RecordsOf(limbo))
    BY <2>2, <2>3 DEF Covers
  <2> QED BY <1>3, <2>1, <2>4, CoversUnion DEF AckedDurable
<1>6. acked' = acked \/ WriteOk \/ RawOk
  BY DEF Next, vars, Write, WriteFail, RawMark, RawWrite, RawFail, FlushFile, RegisterSstable,
         RotateWalFile, MarkCheckpoint, TrustedRecoveryPosition, PublishCheckpoint, FlushFinish,
         FlushAbort, Crash, Open
<1> QED BY <1>4, <1>5, <1>6

-----------------------------------------------------------------------------
(* The parts of the inductive invariant                                    *)

\* Only the holder of the WAL lock has an append under way, and a closed engine none.
LEMMA LogInUseStep ==
  ASSUME TypeOK, LogInUse, [Next]_vars
  PROVE  LogInUse'
<1> USE DEF LogInUse
<1>1. ASSUME NEW group \in Batches, Write(group) PROVE LogInUse'
  <2>1. PICK end \in [0..Len(group) -> sequence..MaxSeq] : limbo' = Transactions(group, end)
    BY <1>1 DEF Write, Log!Begin
  <2>2. \A r \in RecordsOf(limbo') : r.lsn > sequence
    BY <2>1, TransactionsType, SMTT(20) DEF TypeOK
  <2> QED BY <1>1, <2>2 DEF Write
<1>2. CASE WriteOk
  BY <1>2 DEF WriteOk, Log!Acknowledge
<1>3. CASE WriteFail \/ RawMark
  BY <1>3 DEF WriteFail, RawMark, logVars, flushVars
<1>4. ASSUME NEW r \in RawRecords, RawWrite(r) PROVE LogInUse'
  BY <1>4 DEF RawWrite, flushVars
<1>5. CASE RawOk
  BY <1>5 DEF RawOk, Log!Acknowledge, flushVars
<1>6. CASE RawFail
  BY <1>6 DEF RawFail, logVars, flushVars
<1>7. CASE FlushFile
  BY <1>7 DEF FlushFile, logVars
<1>8. CASE RegisterSstable \/ RotateWalFile \/ MarkCheckpoint
  BY <1>8 DEF RegisterSstable, RotateWalFile, MarkCheckpoint, logVars
<1>9. CASE TrustedRecoveryPosition
  BY <1>9 DEF TrustedRecoveryPosition, logVars
<1>10. CASE PublishCheckpoint \/ FlushFinish
  BY <1>10 DEF PublishCheckpoint, FlushFinish, Log!Truncate, logVars
<1>11. CASE FlushAbort
  BY <1>11 DEF FlushAbort
<1>12. CASE Crash
  BY <1>12 DEF Crash, Log!Reopen
<1>13. CASE Open
  BY <1>13 DEF Open, logVars, flushVars
<1>14. CASE UNCHANGED vars
  BY <1>14 DEF vars, logVars, flushVars
<1> HIDE DEF LogInUse
<1> QED
  BY <1>1, <1>2, <1>3, <1>4, <1>5, <1>6, <1>7, <1>8, <1>9, <1>10, <1>11, <1>12, <1>13, <1>14
     DEF Next

\* Unless someone wrote past the engine, it has the whole log in memory or in tables.
LEMMA LogInMemoryStep ==
  ASSUME TypeOK, TypeOK', LogInUse, LogInMemory, FlushProgress, [Next]_vars
  PROVE  LogInMemory'
<1> DEFINE Held == memtable \cup TableRecords(diskTables)
<1> SUFFICES ASSUME up', ~raw'
             PROVE  Covers(Held', RecordsOf(log'))
  BY DEF LogInMemory
<1>0. /\ memtable \in SUBSET Record
      /\ TableRecords(diskTables) \in SUBSET Record
      /\ RecordsOf(log) \in SUBSET Record
  BY RecordsOfType, TableRecordsType DEF TypeOK
<1>1. ASSUME up, ~raw, Held \subseteq Held', RecordsOf(log') \subseteq RecordsOf(log)
      PROVE  Covers(Held', RecordsOf(log'))
  BY <1>1, CoversMono DEF LogInMemory
<1> USE DEF logVars, manifestVars
<1>2. ASSUME NEW group \in Batches, Write(group) PROVE Covers(Held', RecordsOf(log'))
  BY <1>1, <1>2 DEF Write, Log!Begin
<1>3. CASE WriteOk
  <2>1. up /\ ~raw /\ diskTables' = diskTables /\ memtable' = memtable \cup RecordsOf(limbo)
    BY <1>3 DEF WriteOk
  <2>2. /\ RecordsOf(log') = RecordsOf(log) \cup RecordsOf(limbo)
        /\ RecordsOf(limbo) \in SUBSET Record
    BY <1>3, AcknowledgeAdds DEF WriteOk
  <2>3. Covers(Held', RecordsOf(log))
    BY <2>1, CoversMono DEF LogInMemory
  <2>4. Covers(Held', RecordsOf(limbo))
    BY <2>1, <2>2, CoversSelf, CoversMono
  <2> QED BY <2>2, <2>3, <2>4, CoversUnion
<1>4. CASE WriteFail \/ RawFail \/ FlushFile \/ RotateWalFile \/ MarkCheckpoint
             \/ TrustedRecoveryPosition \/ UNCHANGED vars
  <2>1. UNCHANGED <<up, raw, log, memtable, diskTables>>
    BY <1>4 DEF WriteFail, RawFail, FlushFile, RotateWalFile, MarkCheckpoint,
                TrustedRecoveryPosition, vars
  <2> QED BY <1>1, <2>1
<1>5. ASSUME NEW r \in RawRecords, RawWrite(r) PROVE FALSE
  BY <1>5 DEF RawWrite
<1>6. ~RawMark /\ ~RawOk /\ ~Crash
  BY DEF RawMark, RawOk, Crash, LogInUse
<1>7. CASE RegisterSstable
  BY <1>1, <1>7, TableRecordsAdd DEF RegisterSstable
<1>8. CASE PublishCheckpoint
  BY <1>1, <1>8, TruncateCovered DEF PublishCheckpoint, Log!Truncate
<1>9. CASE FlushFinish
  <2>1. up /\ ~raw /\ log' = log /\ memtable' = {} /\ diskTables' = diskTables
    BY <1>9 DEF FlushFinish, LogInUse
  <2>2. Covers(TableRecords(diskTables), memtable)
    BY <1>9 DEF FlushFinish, FlushProgress
  <2>3. Covers(TableRecords(diskTables), Held)
    BY <1>0, <2>2, CoversSelf, CoversUnion
  <2>4. Covers(Held, RecordsOf(log))
    BY <2>1 DEF LogInMemory
  <2>5. Covers(TableRecords(diskTables), RecordsOf(log))
    <3> HIDE DEF Held
    <3>1. Held \in SUBSET Record
      BY <1>0 DEF Held
    <3> QED BY <1>0, <2>3, <2>4, <3>1, CoversTrans
  <2> QED BY <2>1, <2>5
<1>10. CASE FlushAbort
  <2>1. Held \subseteq Held'
    BY <1>10, TableRecordsAdd DEF FlushAbort
  <2>2. RecordsOf(log') \subseteq RecordsOf(log)
    BY <1>10, TruncateCovered DEF FlushAbort
  <2> QED BY <1>1, <1>10, <2>1, <2>2 DEF FlushAbort
<1>11. CASE Open
  <2>1. memtable' = RecordsOf(log) /\ log' = log
    BY <1>11 DEF Open
  <2> QED BY <1>0, <2>1, CoversSelf, CoversMono
<1> HIDE DEF Held, logVars, manifestVars
<1> QED BY <1>2, <1>3, <1>4, <1>5, <1>6, <1>7, <1>8, <1>9, <1>10, <1>11 DEF Next

\* An append does not change a prefix.
LEMMA PrefixOfConcat ==
  ASSUME NEW S, NEW s \in Seq(S), NEW t \in Seq(S), NEW n \in Nat, n <= Len(s)
  PROVE  n <= Len(s \o t) /\ SubSeq(s \o t, 1, n) = SubSeq(s, 1, n)
<1>1. n <= Len(s \o t)
  BY ConcatProperties, LenProperties
<1>2. CASE n = 0
  BY <1>1, <1>2, SubSeqEmpty
<1>3. CASE n # 0
  <2>1. 1 \in 1..Len(s) /\ n \in 1..Len(s)
    BY <1>3, LenProperties
  <2> QED BY <1>1, <2>1, SubSeqOfConcat1
<1> QED BY <1>2, <1>3

\* Each step of flush_inner keeps what the earlier ones established.
LEMMA FlushProgressStep ==
  ASSUME TypeOK, LogInUse, LogInMemory, FlushProgress, SequenceAhead, [Next]_vars
  PROVE  FlushProgress'
<1> DEFINE T == TableRecords(diskTables)
<1>0. /\ memtable \in SUBSET Record /\ T \in SUBSET Record
      /\ RecordsOf(log) \in SUBSET Record
      /\ log \in Seq(SUBSET Record) /\ limbo \in Seq(SUBSET Record)
      /\ cut \in Nat /\ sequence \in Nat
  BY RecordsOfType, TableRecordsType DEF TypeOK
<1>1. ASSUME NEW group \in Batches, Write(group) PROVE FlushProgress'
  BY <1>1 DEF Write, FlushProgress
<1>2. CASE WriteOk \/ WriteFail \/ FlushFinish \/ FlushAbort \/ Crash
  <2>1. phase' = "idle"
    BY <1>2 DEF WriteOk, WriteFail, FlushFinish, FlushAbort, Crash
  <2> QED BY <2>1 DEF FlushProgress
<1>3. ASSUME UNCHANGED <<phase, newTable, cut, memtable, diskTables, log>> PROVE FlushProgress'
  BY <1>3 DEF FlushProgress
<1>4. CASE RawMark \/ RawFail \/ UNCHANGED vars
  <2>1. UNCHANGED <<phase, newTable, cut, memtable, diskTables, log>>
    BY <1>4 DEF RawMark, RawFail, vars, logVars, manifestVars, flushVars
  <2> QED BY <1>3, <2>1
<1>5. ASSUME NEW r \in RawRecords, RawWrite(r) PROVE FlushProgress'
  <2>1. UNCHANGED <<phase, newTable, cut, memtable, diskTables, log>>
    BY <1>5 DEF RawWrite, Log!Begin, manifestVars, flushVars
  <2> QED BY <1>3, <2>1
<1>6. CASE RawOk
  <2>1. UNCHANGED <<phase, newTable, cut, memtable, diskTables>> /\ log' = log \o limbo
    BY <1>6 DEF RawOk, Log!Acknowledge, manifestVars, flushVars
  <2>2. cut <= Len(log) =>
          cut <= Len(log') /\ SubSeq(log', 1, cut) = SubSeq(log, 1, cut)
    BY <1>0, <2>1, PrefixOfConcat
  <2> QED BY <2>1, <2>2 DEF FlushProgress
<1>7. CASE FlushFile
  <2>1. memtable' = memtable /\ newTable'.recs = NewestPerKey(memtable) /\ phase' = "register"
    BY <1>7 DEF FlushFile
  <2>2. \A r \in memtable : r.lsn <= sequence
    BY <1>7 DEF FlushFile, SequenceAhead
  <2>3. Covers(NewestPerKey(memtable), memtable)
    BY <1>0, <2>2, NewestCovers
  <2>4. NewestPerKey(memtable) \subseteq memtable
    BY DEF NewestPerKey
  <2> QED BY <2>1, <2>3, <2>4 DEF FlushProgress
<1>8. CASE RegisterSstable
  <2>1. /\ UNCHANGED <<newTable, memtable>> /\ phase = "register" /\ phase' = "rotate"
        /\ T' = T \cup newTable.recs
    BY <1>8, TableRecordsAdd DEF RegisterSstable
  <2>2. Covers(newTable.recs, memtable) /\ newTable.recs \subseteq memtable
    BY <2>1 DEF FlushProgress
  <2>3. Covers(T', memtable)
    BY <2>1, <2>2, CoversMono
  <2> QED BY <2>1, <2>2, <2>3 DEF FlushProgress
<1>9. CASE RotateWalFile \/ MarkCheckpoint
  <2>1. /\ UNCHANGED <<newTable, memtable, diskTables>> /\ phase \in {"rotate", "mark"}
        /\ phase' \in {"mark", "trust"}
    BY <1>9 DEF RotateWalFile, MarkCheckpoint, manifestVars
  <2> QED BY <2>1 DEF FlushProgress
<1>10. CASE TrustedRecoveryPosition
  <2>1. UNCHANGED <<newTable, memtable, diskTables, log>> /\ phase = "trust"
    BY <1>10 DEF TrustedRecoveryPosition, manifestVars, logVars
  <2>2. Covers(T, memtable) /\ newTable.recs \subseteq memtable
    BY <2>1 DEF FlushProgress
  <2>3. CASE raw
    <3>1. phase' = "finish"
      BY <1>10, <2>3 DEF TrustedRecoveryPosition
    <3> QED BY <2>1, <2>2, <3>1 DEF FlushProgress
  <2>4. CASE ~raw
    <3>1. phase' = "publish" /\ cut' = Len(log)
      BY <1>10, <2>4 DEF TrustedRecoveryPosition
    <3>2. Covers(memtable \cup T, RecordsOf(log))
      BY <2>1, <2>4 DEF LogInMemory, LogInUse
    <3>3. Covers(T, memtable \cup T)
      BY <1>0, <2>2, CoversSelf, CoversUnion
    <3>4. Covers(T, RecordsOf(log))
      <4> HIDE DEF T
      <4>1. memtable \cup T \in SUBSET Record
        BY <1>0
      <4> QED BY <1>0, <3>2, <3>3, <4>1, CoversTrans
    <3>5. SubSeq(log', 1, cut') = log /\ cut' <= Len(log')
      BY <1>0, <2>1, <3>1, SubSeqFull, LenProperties
    <3> QED BY <2>1, <2>2, <3>1, <3>4, <3>5 DEF FlushProgress
  <2> QED BY <2>3, <2>4
<1>11. CASE PublishCheckpoint
  <2>1. /\ UNCHANGED <<newTable, memtable, diskTables>> /\ phase = "publish"
        /\ phase' = "finish"
    BY <1>11 DEF PublishCheckpoint
  <2> QED BY <2>1 DEF FlushProgress
<1>12. CASE Open
  <2>1. phase' = "idle"
    BY <1>12 DEF Open, LogInUse, flushVars
  <2> QED BY <2>1 DEF FlushProgress
<1> QED
  BY <1>1, <1>2, <1>4, <1>5, <1>6, <1>7, <1>8, <1>9, <1>10, <1>11, <1>12 DEF Next

\* The sequence number stays ahead of the stored records, and recoverable.
LEMMA SequenceStep ==
  ASSUME TypeOK, TypeOK', LogInUse, FlushProgress, SequenceRecoverable, SequenceAhead, [Next]_vars
  PROVE  SequenceRecoverable' /\ SequenceAhead'
<1> DEFINE Stored == memtable \cup TableRecords(diskTables)
           Goal == SequenceRecoverable' /\ SequenceAhead'
<1>0. /\ Stored \in SUBSET Record /\ RecordsOf(log) \in SUBSET Record
      /\ sequence \in Nat /\ diskSeq \in Nat
      /\ \A r \in Stored : r.lsn \in Nat
      /\ \A r \in RecordsOf(log) : r.lsn \in Nat
  BY RecordsOfType, TableRecordsType, RecordFields DEF TypeOK
<1>1. ASSUME Stored' \subseteq Stored, RecordsOf(log) \subseteq RecordsOf(log'),
             diskSeq' = diskSeq, up' => up /\ sequence' = sequence
      PROVE  Goal
  BY <1>0, <1>1 DEF SequenceRecoverable, SequenceAhead
<1>2. ASSUME Stored' \subseteq Stored, diskSeq' = sequence, sequence' = sequence, up
      PROVE  Goal
  BY <1>0, <1>2 DEF SequenceRecoverable, SequenceAhead
<1> USE DEF logVars, manifestVars
<1>3. ASSUME NEW group \in Batches, Write(group) PROVE Goal
  <2>1. UNCHANGED <<memtable, diskTables, log, diskSeq, up, sequence>>
    BY <1>3 DEF Write, Log!Begin
  <2> QED BY <1>1, <2>1
<1>4. CASE WriteOk
  <2>1. /\ UNCHANGED <<diskTables, diskSeq, up>>
        /\ memtable' = memtable \cup RecordsOf(limbo)
        /\ up
    BY <1>4 DEF WriteOk, LogInUse
  <2>2. /\ RecordsOf(log') = RecordsOf(log) \cup RecordsOf(limbo)
        /\ RecordsOf(limbo) \in SUBSET Record
    BY <1>4, AcknowledgeAdds DEF WriteOk
  <2>3. /\ \A r \in RecordsOf(limbo) : r.lsn \in Nat
        /\ sequence' \in Nat
    BY <2>2, RecordFields DEF TypeOK
  <2>4. /\ \A r \in RecordsOf(limbo) : r.lsn <= sequence' /\ r.lsn > sequence
        /\ \E r \in RecordsOf(limbo) : r.lsn = sequence'
    BY <1>4 DEF WriteOk, LogInUse
  <2>5. sequence < sequence'
    BY <1>0, <2>3, <2>4
  <2>6. \A r \in Stored : r.lsn <= sequence
    BY <2>1 DEF SequenceAhead
  <2>7. SequenceAhead'
    BY <1>0, <2>1, <2>3, <2>4, <2>5, <2>6 DEF SequenceAhead
  <2>8. diskSeq' <= sequence'
    BY <1>0, <2>1, <2>3, <2>5 DEF SequenceRecoverable
  <2>9. \A r \in Stored' : r.lsn <= diskSeq' \/ \E s \in RecordsOf(log') : r.lsn <= s.lsn
    <3>1. \A r \in RecordsOf(limbo) : \E s \in RecordsOf(log') : r.lsn <= s.lsn
      BY <2>2, <2>3
    <3>2. \A r \in Stored : r.lsn <= diskSeq' \/ \E s \in RecordsOf(log') : r.lsn <= s.lsn
      BY <2>1, <2>2 DEF SequenceRecoverable
    <3>3. Stored' = Stored \cup RecordsOf(limbo)
      BY <2>1
    <3> HIDE DEF Stored
    <3> QED BY <3>1, <3>2, <3>3
  <2> QED BY <2>7, <2>8, <2>9 DEF SequenceRecoverable
<1>5. CASE WriteFail \/ RawMark \/ RawFail \/ FlushFile \/ RotateWalFile \/ MarkCheckpoint
             \/ TrustedRecoveryPosition \/ UNCHANGED vars
  <2>1. UNCHANGED <<memtable, diskTables, log, diskSeq, up, sequence>>
    BY <1>5 DEF WriteFail, RawMark, RawFail, FlushFile, RotateWalFile, MarkCheckpoint,
                TrustedRecoveryPosition, vars
  <2> QED BY <1>1, <2>1, SMTT(20)
<1>6. ASSUME NEW r \in RawRecords, RawWrite(r) PROVE Goal
  <2>1. UNCHANGED <<memtable, diskTables, log, diskSeq, up, sequence>>
    BY <1>6 DEF RawWrite, Log!Begin
  <2> QED BY <1>1, <2>1
<1>7. CASE RawOk
  <2>1. UNCHANGED <<memtable, diskTables, diskSeq, up, sequence>>
    BY <1>7 DEF RawOk
  <2>2. RecordsOf(log) \subseteq RecordsOf(log')
    BY <1>7, AcknowledgeAdds DEF RawOk
  <2> QED BY <1>1, <2>1, <2>2, SMTT(20)
<1>8. CASE RegisterSstable
  <2>1. /\ UNCHANGED <<memtable, log, diskSeq, up, sequence>>
        /\ diskTables' = diskTables \cup {newTable} /\ phase = "register"
    BY <1>8 DEF RegisterSstable
  <2>2. Stored' \subseteq Stored
    BY <2>1, TableRecordsAdd DEF FlushProgress
  <2> QED BY <1>1, <2>1, <2>2
<1>9. CASE PublishCheckpoint
  <2>1. /\ UNCHANGED <<memtable, diskTables, up, sequence>> /\ diskSeq' = sequence
        /\ phase = "publish"
    BY <1>9 DEF PublishCheckpoint
  <2> QED BY <1>2, <2>1 DEF LogInUse
<1>10. CASE FlushFinish
  <2>1. UNCHANGED <<diskTables, log, diskSeq, up, sequence>> /\ memtable' = {}
    BY <1>10 DEF FlushFinish
  <2> QED BY <1>1, <2>1
<1>11. CASE FlushAbort
  <2>1. UNCHANGED <<memtable, up, sequence>> /\ phase \notin {"idle", "write"}
    BY <1>11 DEF FlushAbort
  <2>2. Stored' \subseteq Stored
    <3>1. diskTables' = diskTables \/ diskTables' = diskTables \cup {newTable}
      BY <1>11 DEF FlushAbort
    <3> QED BY <2>1, <3>1, TableRecordsAdd DEF FlushProgress
  <2>3. (log' = log /\ diskSeq' = diskSeq) \/ diskSeq' = sequence
    BY <1>11 DEF FlushAbort
  <2>4. up
    BY <2>1 DEF LogInUse
  <2>5. CASE log' = log /\ diskSeq' = diskSeq
    BY <1>1, <2>1, <2>2, <2>4, <2>5
  <2>6. CASE diskSeq' = sequence
    BY <1>2, <2>1, <2>2, <2>4, <2>6
  <2> QED BY <2>3, <2>5, <2>6
<1>12. CASE Crash
  <2>1. UNCHANGED <<diskTables, diskSeq>> /\ memtable' = {} /\ ~up'
    BY <1>12 DEF Crash
  <2>2. RecordsOf(log) \subseteq RecordsOf(log')
    BY <1>12, CrashKeeps DEF Crash
  <2> QED BY <1>1, <2>1, <2>2
<1>13. CASE Open
  <2>1. UNCHANGED <<log, diskTables, diskSeq>> /\ memtable' = RecordsOf(log)
    BY <1>13 DEF Open
  <2>2. IsRecoveredSequence(sequence')
    BY <1>13 DEF Open
  <2>3. diskSeq <= sequence' /\ sequence' \in Nat /\ \A r \in RecordsOf(log) : r.lsn <= sequence'
    BY <2>2 DEF IsRecoveredSequence, TypeOK
  <2>4. \A r \in TableRecords(diskTables) : r.lsn <= sequence'
    BY <1>0, <2>3 DEF SequenceRecoverable
  <2>5. SequenceAhead'
    BY <2>1, <2>3, <2>4 DEF SequenceAhead
  <2>6. SequenceRecoverable'
    BY <1>0, <2>1, <2>3 DEF SequenceRecoverable
  <2> QED BY <2>5, <2>6
<1> QED
  BY <1>3, <1>4, <1>5, <1>6, <1>7, <1>8, <1>9, <1>10, <1>11, <1>12, <1>13 DEF Next

-----------------------------------------------------------------------------
(* The theorems                                                            *)

\* The empty engine satisfies the inductive invariant.
LEMMA InvInit ==
  ASSUME Init
  PROVE  IInv
<1> USE DEF Init, Log!Init
<1>1. TypeOK
  BY TypeInit
<1>2. RecordsOf(log) = {} /\ RecordsOf(limbo) = {} /\ TableRecords(diskTables) = {}
  BY DEF RecordsOf, TableRecords, Range
<1>3. LogInUse /\ FlushProgress
  BY <1>2 DEF LogInUse, FlushProgress
<1>4. LogInMemory /\ SequenceRecoverable /\ AckedDurable /\ SequenceAhead
  BY <1>2 DEF LogInMemory, SequenceRecoverable, AckedDurable, SequenceAhead, Covers
<1> QED BY <1>1, <1>3, <1>4 DEF IInv

\* IInv is an invariant of the engine: who may be inside the WAL, what the memtable
\* covers, how far the flush has come and which sequence number recovery would find,
\* after any step of the write path, the flush, a raw writer, a crash or an open.
THEOREM InductiveInvariant == Spec => []IInv
<1>1. Init => IInv
  BY InvInit
<1>2. IInv /\ [Next]_vars => IInv'
  <2> SUFFICES ASSUME IInv, [Next]_vars PROVE IInv'
    OBVIOUS
  <2>1. /\ TypeOK /\ LogInUse /\ LogInMemory /\ FlushProgress /\ SequenceRecoverable
        /\ AckedDurable /\ SequenceAhead
    BY DEF IInv
  <2>2. TypeOK'
    BY <2>1, TypeStep
  <2>3. LogInUse' /\ LogInMemory' /\ FlushProgress'
    BY <2>1, <2>2, LogInUseStep, LogInMemoryStep, FlushProgressStep
  <2>4. SequenceRecoverable' /\ SequenceAhead'
    BY <2>1, <2>2, SequenceStep
  <2>5. AckedDurable'
    BY <2>1, <2>2, AckedStep
  <2> QED BY <2>2, <2>3, <2>4, <2>5 DEF IInv
<1> QED BY <1>1, <1>2, PTL DEF Spec

\* For every choice of keys, batches, raw records and bounds: no acknowledged write
\* is lost, whatever the flush and its checkpoint, a failed step of either, a raw
\* writer and crashes do between the acknowledgement and the next recovery.
THEOREM AckedNeverLost == Spec => []AckedDurable
<1>1. IInv => AckedDurable
  BY DEF IInv
<1> QED BY <1>1, InductiveInvariant, PTL

\* For every choice of the constants: an open engine's sequence number is not below
\* that of any record in its memtable or in a registered table.
THEOREM SequenceNeverBehind == Spec => []SequenceAhead
<1>1. IInv => SequenceAhead
  BY DEF IInv
<1> QED BY <1>1, InductiveInvariant, PTL

=============================================================================
