SPECIFICATION Spec
CONSTANTS
  k1 = k1  k2 = k2  rk = rk  v1 = v1  v2 = v2
  Tombstone = Tombstone
  Keys = {k1, k2}
  RawKeys = {rk}
  Vals = {v1, v2}
  Batches <- MCBatches
  RawRecords <- MCRawRecords
  MaxSeq = 3
  MaxLog = 3
  MaxFile = 2
INVARIANTS TypeOK AckedDurable SequenceAhead ReadPathsAgree FileIdsFresh
PROPERTY ImplementsKVStore
CHECK_DEADLOCK FALSE
