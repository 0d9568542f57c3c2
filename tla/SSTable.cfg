SPECIFICATION Spec
CONSTANTS
  Keys = {0, 1, 2, 3}
  Lengths = {1, 2, 4}
  BlockSize = 3
INVARIANTS LookupExact ScanExact BuildSucceeds
CHECK_DEADLOCK FALSE
