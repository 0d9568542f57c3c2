-------------------------- MODULE EngineRefinement --------------------------
(***************************************************************************)
(* Engine implements KVStore: what callers can read is a map that batches  *)
(* update.                                                                 *)
(***************************************************************************)
EXTENDS Engine

\* What callers read while the engine is open, and what they would read after
\* recovery while it is down.
View ==
  [k \in Keys |-> IF up THEN Get(k, memtable, tables, sequence)
                        ELSE Get(k, RecordsOf(log), diskTables, MaxSeq)]

BatchOf(transaction) ==
  [i \in 1..Cardinality(transaction) |->
     LET r == CHOOSE r \in transaction : Cardinality({s \in transaction : s.lsn <= r.lsn}) = i
     IN  [key |-> r.key, val |-> r.val]]

\* A raw writer's transaction is no batch of the store.
BatchesInLimbo ==
  IF \E r \in RecordsOf(limbo) : r.key \in RawKeys THEN <<>>
  ELSE [n \in 1..Len(limbo) |-> BatchOf(limbo[n])]

KV == INSTANCE KVStore WITH Groups <- Batches, Missing <- Tombstone,
                            store <- View, limbo <- BatchesInLimbo

\* The engine is a map updated atomically and in order by batches: group commit,
\* flush, checkpoint, failed steps, crash and recovery are invisible but for the
\* prefix of whole batches that an interrupted group may leave.
ImplementsKVStore == KV!Spec

=============================================================================
