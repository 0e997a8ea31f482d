CONSTANTS
  Threads = {t1, t2, t3}
  MaxCalls = 4
  Size <- Sizes
  PageSize = 2
  Unit = 2
  Full = 0
  None = None
SPECIFICATION Spec
SYMMETRY Symmetry
INVARIANTS OneSender NothingLeftBehind
PROPERTIES KernelOwnsPages ImplementsStream
CHECK_DEADLOCK FALSE
