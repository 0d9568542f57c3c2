SPECIFICATION Spec
CONSTANTS
  a = a
  b = b
  Commit = Commit
  Header = Header
  Groups <- PowerGroups
  Crashes = {"power"}
  MaxSize = 4
  MaxLsn = 6
  MaxSegment = 2
PROPERTY ImplementsDurableLog
