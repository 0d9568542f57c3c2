SPECIFICATION Spec
CONSTANTS
  a = a
  b = b
  Commit = Commit
  Header = Header
  Groups <- MCGroups
  Crashes = {"kill", "power"}
  MaxSize = 4
  MaxLsn = 6
  MaxSegment = 2
PROPERTY RecoveryRepeats
