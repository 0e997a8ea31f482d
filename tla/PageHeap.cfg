CONSTANTS
  Threads = {t1, t2}
  NHeaps = 2
  Cap = 1
  RingMax = 2
  Hold = 2
  MaxCalls = 3
  None = None
SPECIFICATION Spec
SYMMETRY Symmetry
INVARIANTS NoOverlap RecoveredOnce NeverBusy
CHECK_DEADLOCK FALSE
