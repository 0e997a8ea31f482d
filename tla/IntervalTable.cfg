CONSTANTS
  Threads = {t1, t2}
  Keys = {k1, k2}
  Ops = {"search", "set", "erase", "insert", "each"}
  MaxOps = 3
  None = None
SPECIFICATION Spec
SYMMETRY Symmetry
INVARIANTS FlagCounts OneNodeWriter SizeCounts
CHECK_DEADLOCK FALSE
