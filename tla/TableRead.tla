----------------------------- MODULE TableRead ------------------------------
(***************************************************************************)
(* Concurrent reads of SSTable files through the cache of file handles     *)
(* (LruFileCache), beside compactions that remove files.  get and scan     *)
(* hold the read lease and take a snapshot of the manifest; for each table *)
(* they take the cached handle, or open the file and cache the handle,     *)
(* clone it, and then seek to and read the sections of the file one by     *)
(* one.  A compaction publishes, evicts and removes under the publication  *)
(* lease.                                                                  *)
(*                                                                         *)
(* try_clone duplicates the file descriptor: the clone refers to the open  *)
(* file description of the cached handle, which has one file position.     *)
(***************************************************************************)
EXTENDS Integers, Sequences, FiniteSets

CONSTANTS
  Readers,   \* concurrent calls of get and scan
  Tables,    \* SSTable paths
  Capacity   \* LruFileCache::capacity

ASSUME CapacityAssumption == Capacity \in Nat \ {0}

VARIABLES
  live,      \* the tables of the manifest
  files,     \* the paths that exist
  handles,   \* LruFileCache::handles: an open file description per cached path
  order,     \* LruFileCache::order
  position,  \* the position of each open file description
  rd,        \* the readers
  worker     \* the compaction: idle, or the input it has yet to evict or to remove

vars == <<live, files, handles, order, position, rd, worker>>

\* The sections of a file in their order in it, and in the order of deserialize_sections
\* and get_block.
Block == 1
SparseIndex == 2
Bloom == 3
Footer == 4
ReadOrder == <<Footer, SparseIndex, Bloom, Block>>

\* Open file descriptions: those that the cache or a reader holds.
Descriptions == 1..(Capacity + Cardinality(Readers))
NoDescription == 0

NoTable == "none"
IdleReader == [pc |-> "idle", todo |-> {}, table |-> NoTable, fd |-> NoDescription,
               step |-> 0, got |-> 0]
IdleWorker == [pc |-> "idle", table |-> NoTable]

Init ==
  /\ live \in SUBSET Tables \ {{}} /\ Cardinality(live) = Cardinality(Tables) - 1
  /\ files = live /\ handles = <<>> /\ order = <<>>
  /\ position = [d \in Descriptions |-> Block]
  /\ rd = [r \in Readers |-> IdleReader] /\ worker = IdleWorker

-----------------------------------------------------------------------------
(* Readers                                                                 *)

\* The read lease, and under it a snapshot of the manifest.
ReadStart(r) ==
  /\ rd[r].pc = "idle" /\ worker.pc = "idle"
  /\ rd' = [rd EXCEPT ![r].pc = "next", ![r].todo = live]
  /\ UNCHANGED <<live, files, handles, order, position, worker>>

Held == {handles[t] : t \in DOMAIN handles} \cup {rd[r].fd : r \in Readers}
Without(seq, t) == SelectSeq(seq, LAMBDA u : u # t)
Forget(cached, t) == [u \in DOMAIN cached \ {t} |-> cached[u]]

\* Mutant of Touched: the path is not taken from its old place in the order.
TouchedTwice(seq, t) == Append(seq, t)

\* touch: the path moves to the back of the order.
Touched(seq, t) == Append(Without(seq, t), t)

\* get_or_open and try_clone.  A hit moves the path to the back of the order; a miss opens
\* the file, and evicts the path at the front if the cache is full.
GetOrOpen(r) ==
  /\ rd[r].pc = "next"
  /\ \E t \in rd[r].todo :
       LET free == Descriptions \ Held
           d    == IF t \in DOMAIN handles THEN handles[t]
                   ELSE CHOOSE n \in free : \A m \in free : n <= m
           full == Cardinality(DOMAIN handles) >= Capacity
           kept == IF full THEN Forget(handles, Head(order)) ELSE handles
       IN  IF t \in DOMAIN handles
           THEN /\ order' = Touched(order, t)
                /\ rd' = [rd EXCEPT ![r].pc = "open", ![r].table = t, ![r].fd = d]
                /\ UNCHANGED <<handles, position>>
           ELSE IF t \in files
           THEN /\ handles' = [u \in DOMAIN kept \cup {t} |-> IF u = t THEN d ELSE kept[u]]
                /\ order' = Append(IF full THEN Tail(order) ELSE order, t)
                /\ position' = [position EXCEPT ![d] = Block]
                /\ rd' = [rd EXCEPT ![r].pc = "open", ![r].table = t, ![r].fd = d]
           ELSE /\ rd' = [rd EXCEPT ![r].pc = "missing", ![r].table = t]
                /\ UNCHANGED <<handles, order, position>>
  /\ UNCHANGED <<live, files, worker>>

\* The seek to the next section, or from a block to another one: a scan reads several.
Seek(r) ==
  /\ rd[r].pc \in {"open", "got"}
  /\ LET next == IF rd[r].step < Len(ReadOrder) THEN rd[r].step + 1 ELSE Len(ReadOrder)
     IN  /\ position' = [position EXCEPT ![rd[r].fd] = ReadOrder[next]]
         /\ rd' = [rd EXCEPT ![r].pc = "read", ![r].step = next, ![r].got = 0]
  /\ UNCHANGED <<live, files, handles, order, worker>>

\* The read at the position of the open file description, which moves it on.
Read(r) ==
  /\ rd[r].pc = "read"
  /\ rd' = [rd EXCEPT ![r].pc = "got", ![r].got = position[rd[r].fd]]
  /\ position' = [position EXCEPT ![rd[r].fd] = IF @ < Footer THEN @ + 1 ELSE @]
  /\ UNCHANGED <<live, files, handles, order, worker>>

\* The filter or the index rules the key out, or the block was read: on to the next table.
NextTable(r) ==
  /\ rd[r].pc = "got" /\ ReadOrder[rd[r].step] \in {Bloom, Block}
  /\ rd' = [rd EXCEPT ![r] = [IdleReader EXCEPT !.pc = "next",
                                                !.todo = rd[r].todo \ {rd[r].table}]]
  /\ UNCHANGED <<live, files, handles, order, position, worker>>

\* The call ends, or is cancelled, and its lease with it.
ReadEnd(r) ==
  /\ rd[r].pc \notin {"idle", "missing"}
  /\ rd' = [rd EXCEPT ![r] = IdleReader]
  /\ UNCHANGED <<live, files, handles, order, position, worker>>

-----------------------------------------------------------------------------
(* The compaction                                                          *)

\* Mutant of Publish: without the publication lease.
PublishBesideReaders(t, u) ==
  /\ worker.pc = "idle"
  /\ t \in live /\ u \notin files
  /\ live' = (live \ {t}) \cup {u} /\ files' = files \cup {u}
  /\ worker' = [pc |-> "evict", table |-> t]
  /\ UNCHANGED <<handles, order, position, rd>>

\* publish_compaction under the publication lease: u, written before, replaces t.
Publish(t, u) ==
  /\ worker.pc = "idle" /\ \A r \in Readers : rd[r].pc = "idle"
  /\ t \in live /\ u \notin files
  /\ live' = (live \ {t}) \cup {u} /\ files' = files \cup {u}
  /\ worker' = [pc |-> "evict", table |-> t]
  /\ UNCHANGED <<handles, order, position, rd>>

\* Mutant of Evict: the handle stays cached.
EvictNothing ==
  /\ worker.pc = "evict"
  /\ worker' = [worker EXCEPT !.pc = "remove"]
  /\ UNCHANGED <<live, files, handles, order, position, rd>>

\* remove_compacted_files: evict_file, and then remove_file.
Evict ==
  /\ worker.pc = "evict"
  /\ handles' = Forget(handles, worker.table) /\ order' = Without(order, worker.table)
  /\ worker' = [worker EXCEPT !.pc = "remove"]
  /\ UNCHANGED <<live, files, position, rd>>

Remove ==
  /\ worker.pc = "remove"
  /\ files' = files \ {worker.table}
  /\ worker' = IdleWorker
  /\ UNCHANGED <<live, handles, order, position, rd>>

Next ==
  \/ \E r \in Readers : \/ ReadStart(r) \/ GetOrOpen(r) \/ Seek(r) \/ Read(r)
                        \/ NextTable(r) \/ ReadEnd(r)
  \/ \E t, u \in Tables : Publish(t, u)
  \/ Evict \/ Remove

Spec == Init /\ [][Next]_vars

-----------------------------------------------------------------------------
(* Properties                                                              *)

RangeOf(f) == {f[i] : i \in DOMAIN f}

\* The map and the order of the cache name the same paths, each once, and no more of them
\* than its capacity, after any mix of hits, misses and removals.
TypeOK ==
  /\ live \subseteq Tables /\ files \subseteq Tables
  /\ DOMAIN handles \subseteq Tables /\ RangeOf(handles) \subseteq Descriptions
  /\ RangeOf(order) = DOMAIN handles /\ Len(order) = Cardinality(DOMAIN handles)
  /\ Len(order) <= Capacity
  /\ \A r \in Readers : rd[r].fd \in Descriptions \cup {NoDescription}

\* A cached handle is that of a file that still exists: eviction comes before removal, and
\* no reader can cache the path again in between.
CacheFresh == DOMAIN handles \subseteq files

\* A read never finds a file of its manifest snapshot removed.
NoMissingFile == \A r \in Readers : rd[r].pc # "missing"

\* A read returns the section that its reader has sought, as the comment on try_clone
\* promises ("an independent handle with its own file position").
OwnPosition == \A r \in Readers : rd[r].pc = "got" => rd[r].got = ReadOrder[rd[r].step]

=============================================================================
