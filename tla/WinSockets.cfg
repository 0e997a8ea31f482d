SPECIFICATION Spec
CONSTANTS
  Sockets = {s1, s2, s3, s4}
  Refs = {1, 2}
  Threads = {t1, t2}
  PoolMax = 1
  MaxHandles = 2
  MaxCalls = 5
  MaxConnect = 1
  Wrap = 6
  Attempts = 2
  Retries = 2
  None = None
SYMMETRY Symmetry
INVARIANTS
  OneOwner
  ChainAlive
  WithinLimit
CHECK_DEADLOCK FALSE
