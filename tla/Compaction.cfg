SPECIFICATION Spec
CONSTANTS
  MaxKey = 2
  MaxSeq = 3
  MaxLevel = 2
  MaxFile = 5
  MaxFaults = 1
INVARIANTS TypeOK ReadsLatest RecoveredReadsLatest ScanAgrees LevelsDisjoint FilesPresent IdsUnique
PROPERTY RangeCheckHolds
