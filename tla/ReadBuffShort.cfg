SPECIFICATION Spec
CONSTANTS
  Threads = {t1}
  MaxUnits = 3
  MaxCalls = 1
  PageSize = 2
INVARIANTS
  ShortReadsDelivered
CHECK_DEADLOCK FALSE
