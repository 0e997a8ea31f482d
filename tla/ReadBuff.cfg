SPECIFICATION FairSpec
CONSTANTS
  Threads = {t1, t2}
  MaxUnits = 3
  MaxCalls = 3
  PageSize = 1
INVARIANTS
  StreamInOrder
  NeverDeaf
PROPERTIES
  NothingWaits
CHECK_DEADLOCK FALSE
