SPECIFICATION Spec
CONSTANTS
  Readers = {r1, r2}
  Tables = {t1, t2, t3, t4}
  Capacity = 2
VIEW View
SYMMETRY Symmetry
INVARIANTS TypeOK CacheFresh NoMissingFile
