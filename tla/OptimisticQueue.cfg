SPECIFICATION Spec
CONSTANTS
  Threads = {t1, t2}
  MaxPush = 2
  None = None
SYMMETRY Symmetry
INVARIANTS
  PoppedOnce
CHECK_DEADLOCK FALSE
