SPECIFICATION Spec
CONSTANTS
  Readers = {r1, r2}
  Tables = {t1, t2}
  Capacity = 1
INVARIANT OwnPosition
