SPECIFICATION Spec
CONSTANTS
  Processes = {1}
  Keys = {1, 2}
  MaxSeq = 3
  MaxGen = 3
  MaxFaults = 3
INVARIANTS TypeOK AckedSurvives SequenceNeverReused GenerationsFresh OpensAgain ServesCurrent
CHECK_DEADLOCK FALSE
