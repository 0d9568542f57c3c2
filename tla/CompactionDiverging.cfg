SPECIFICATION DivergingSpec
CONSTANTS
  MaxKey = 2
  MaxSeq = 3
  MaxLevel = 2
  MaxFile = 5
  MaxFaults = 1
INVARIANT RecoveredReadsLatest
