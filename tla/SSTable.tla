------------------------------ MODULE SSTable -------------------------------
(***************************************************************************)
(* How an SSTable is built and read.  A flush and a compaction feed        *)
(* records in key order to BlockBuilder, which closes a block before the   *)
(* record that would overfill it; the codec writes one index entry per     *)
(* block.  Point lookups (get_from_single_sstable), scans                  *)
(* (scan_single_sstable) and the validation at open                        *)
(* (validate_manifest_sstable) find records through that index.            *)
(*                                                                         *)
(* Keys are numbers in key order, 0 being the empty key; a record is its   *)
(* key and its encoded length.                                             *)
(***************************************************************************)
EXTENDS Integers, Sequences, FiniteSets

CONSTANTS
  Keys,       \* the keys, numbers from 0 on
  Lengths,    \* encoded lengths of records
  BlockSize   \* SSTABLE_BLOCK_SIZE

ASSUME KeysAssumption == Keys \subseteq Nat
ASSUME SizesAssumption == Lengths \subseteq Nat \ {0} /\ BlockSize \in Nat \ {0}

VARIABLES
  writer,   \* who builds the table: "flush" or "compaction"
  input,    \* the records to be written, in key order
  read,     \* how many of them the builder has seen
  builder,  \* BlockBuilder: its records and their length, its first and last key
  blocks,   \* the closed blocks
  bloom,    \* the keys that the Bloom filter answers yes for
  status    \* "adding", "built", "refused" or "panicked"

vars == <<writer, input, read, builder, blocks, bloom, status>>

NoKey == -1
EmptyKey == 0
Empty == [data |-> <<>>, size |-> 0, first |-> NoKey, last |-> NoKey]
KeysOf(records) == {records[i].key : i \in DOMAIN records}

\* flush_inner and merge_files_with_reclamation write at least one record, each key once.
Init ==
  /\ \E ks \in SUBSET Keys \ {{}} : \E length \in [ks -> Lengths] :
       input = [n \in 1..Cardinality(ks) |->
                 LET k == CHOOSE j \in ks : Cardinality({i \in ks : i <= j}) = n
                 IN  [key |-> k, length |-> length[k]]]
  /\ writer \in {"flush", "compaction"}
  /\ read = 0 /\ builder = Empty /\ blocks = <<>> /\ bloom = {} /\ status = "adding"

-----------------------------------------------------------------------------
(* BlockBuilder                                                            *)

\* add_record: a record that does not fit closes the block, unless the block is empty.
Overfills(b, r) == b.data # <<>> /\ b.size + r.length > BlockSize

\* Mutant of Pushed: the last key is the first one pushed.
PushedKeepsLast(b, r) ==
  [data  |-> Append(b.data, r),
   size  |-> b.size + r.length,
   first |-> IF b.first = NoKey THEN r.key ELSE b.first,
   last  |-> IF b.last = NoKey THEN r.key ELSE b.last]

\* add_record, when the record fits.  No last key compares like the empty one.
Pushed(b, r) ==
  [data  |-> Append(b.data, r),
   size  |-> b.size + r.length,
   first |-> IF b.first = NoKey \/ r.key < b.first THEN r.key ELSE b.first,
   last  |-> IF r.key > (IF b.last = NoKey THEN EmptyKey ELSE b.last) THEN r.key ELSE b.last]

\* A block closed by add_record: a missing key becomes the empty one.
Closed(b) ==
  [data |-> b.data, size |-> b.size,
   first |-> IF b.first = NoKey THEN EmptyKey ELSE b.first,
   last  |-> IF b.last = NoKey THEN EmptyKey ELSE b.last]

\* Mutant of AddRecord: the record that closed a block is not added to the next one.
AddRecordOnce ==
  /\ status = "adding" /\ read < Len(input)
  /\ LET r == input[read + 1]
     IN  IF Overfills(builder, r)
         THEN blocks' = Append(blocks, Closed(builder)) /\ builder' = Empty
         ELSE builder' = Pushed(builder, r) /\ UNCHANGED blocks
  /\ read' = read + 1 /\ bloom' = bloom \cup {input[read + 1].key}
  /\ UNCHANGED <<writer, input, status>>

\* One round of the loop over the records: the record that closes a block starts the next.
AddRecord ==
  /\ status = "adding" /\ read < Len(input)
  /\ LET r == input[read + 1]
     IN  IF Overfills(builder, r)
         THEN blocks' = Append(blocks, Closed(builder)) /\ builder' = Pushed(Empty, r)
         ELSE builder' = Pushed(builder, r) /\ UNCHANGED blocks
  /\ read' = read + 1 /\ bloom' = bloom \cup {input[read + 1].key}
  /\ UNCHANGED <<writer, input, status>>

\* The records of some blocks, in order.
Contents(bs) ==
  LET upTo[n \in 0..Len(bs)] == IF n = 0 THEN <<>> ELSE upTo[n - 1] \o bs[n].data
  IN  upTo[Len(bs)]

\* build closes the last block and unwraps both of its keys.  A flush then compares the
\* blocks with its records.  The filter may say yes to more keys than were inserted.
Build ==
  /\ status = "adding" /\ read = Len(input)
  /\ LET all == IF builder.data = <<>> THEN blocks ELSE Append(blocks, builder)
     IN  IF builder.data # <<>> /\ NoKey \in {builder.first, builder.last}
         THEN status' = "panicked" /\ UNCHANGED <<blocks, bloom>>
         ELSE /\ status' = IF writer = "flush" /\ Contents(all) # input
                           THEN "refused" ELSE "built"
              /\ blocks' = all
              /\ \E more \in SUBSET Keys : bloom' = bloom \cup more
  /\ builder' = Empty
  /\ UNCHANGED <<writer, input, read>>

Next == AddRecord \/ Build

Spec == Init /\ [][Next]_vars

-----------------------------------------------------------------------------
(* Reading the table                                                       *)

\* serialize: an index entry per block.
Index == [i \in DOMAIN blocks |->
           [first |-> blocks[i].first, last |-> blocks[i].last, count |-> Len(blocks[i].data)]]

\* get_block: the binary search of the index for the entry whose range holds the key, or
\* else the entry before it.
GetBlock(k) ==
  LET holding == {i \in DOMAIN Index : Index[i].first <= k /\ k <= Index[i].last}
      before  == {i \in DOMAIN Index : Index[i].last < k}
  IN  blocks[CHOOSE i \in (IF holding # {} THEN holding ELSE before) :
               holding # {} \/ \A j \in before : j <= i]

\* get_from_single_sstable: the records with the key that the lookup comes upon first.
Lookup(k) ==
  LET entries == {i \in DOMAIN Index : Index[i].first <= k /\ k <= Index[i].last}
      hits(i) == {r \in {GetBlock(Index[i].first).data[j] :
                          j \in DOMAIN GetBlock(Index[i].first).data} : r.key = k}
      found   == {i \in entries : hits(i) # {}}
  IN  IF k \notin bloom \/ found = {} THEN {}
      ELSE hits(CHOOSE i \in found : \A j \in found : i <= j)

\* Bounds of a scan: none, or a key that is included or excluded.
Bounds == {[kind |-> "unbounded", key |-> EmptyKey]}
            \cup [kind : {"included", "excluded"}, key : Keys]

\* Mutant of RangesOverlap: a table that ends at the start of the range is skipped.
RangesOverlapStrictly(lo, hi, first, last) ==
  /\ hi.kind # "unbounded" => first <= hi.key
  /\ lo.kind # "unbounded" => last > lo.key

\* ranges_overlap takes both bounds as included.
RangesOverlap(lo, hi, first, last) ==
  /\ hi.kind # "unbounded" => first <= hi.key
  /\ lo.kind # "unbounded" => last >= lo.key

KeyInRange(k, lo, hi) ==
  /\ lo.kind = "included" => k >= lo.key
  /\ lo.kind = "excluded" => k > lo.key
  /\ hi.kind = "included" => k <= hi.key
  /\ hi.kind = "excluded" => k < hi.key

\* SSTableMeta: the range that the manifest records, range_from_index.
Smallest == Index[1].first
Largest == Index[Len(Index)].last

\* Its record count: the records of the flush, or those in the blocks of a compaction.
RecordCount == IF writer = "flush" THEN Len(input) ELSE Len(Contents(blocks))

\* scan_single_sstable: the table, then its blocks, then their records are filtered.
ScanRange(lo, hi) ==
  IF ~RangesOverlap(lo, hi, Smallest, Largest) THEN {}
  ELSE UNION {LET found == GetBlock(Index[i].first).data
              IN  {found[j] : j \in {j \in DOMAIN found : KeyInRange(found[j].key, lo, hi)}} :
              i \in {i \in DOMAIN Index : RangesOverlap(lo, hi, Index[i].first, Index[i].last)}}

\* validate_manifest_sstable, for a file that was written in full: index, blocks and the
\* manifest's record count agree.
Validates ==
  LET counted[n \in 0..Len(Index)] == IF n = 0 THEN 0 ELSE counted[n - 1] + Index[n].count
  IN  /\ Index # <<>> /\ counted[Len(Index)] = RecordCount
      /\ \A i \in DOMAIN Index :
           LET found == GetBlock(Index[i].first).data
           IN  /\ Len(found) = Index[i].count /\ found # <<>>
               /\ found[1].key = Index[i].first /\ found[Len(found)].key = Index[i].last

-----------------------------------------------------------------------------
(* Properties                                                              *)

InputRecords == {input[i] : i \in DOMAIN input}

\* A flush is never refused by its own cross-check, which would keep the memtable from
\* ever being flushed, and the only table that cannot be built is the one whose only key
\* is the empty one.  What is built and registered, the next open accepts.
BuildSucceeds ==
  /\ status # "refused"
  /\ status = "panicked" => KeysOf(input) = {EmptyKey}
  /\ status = "built" => Validates

\* A lookup in a built table finds the record written for the key, and nothing for a key
\* that was not written, whatever else the Bloom filter says yes to.
LookupExact ==
  status = "built" => \A k \in Keys : Lookup(k) = {r \in InputRecords : r.key = k}

\* A scan returns exactly the records in its range: neither the table's range nor a
\* block's, compared with both bounds taken as included, hides one.
ScanExact ==
  status = "built" => \A lo, hi \in Bounds :
    ScanRange(lo, hi) = {r \in InputRecords : KeyInRange(r.key, lo, hi)}

=============================================================================
