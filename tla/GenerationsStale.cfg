SPECIFICATION Spec
CONSTANTS
  Processes = {1, 2}
  Keys = {1}
  MaxSeq = 1
  MaxGen = 2
  MaxFaults = 0
INVARIANTS AckedSurvives
CHECK_DEADLOCK FALSE
