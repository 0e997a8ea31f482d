CONSTANTS
  Users = {t1, t2, t3}
  Objects = {n1, n2, n3}
  MaxRecords = 3
  Lists = {l1, l2}
  ScanAbove = 0
  Null = Null
SPECIFICATION HazardSpec
SYMMETRY Symmetry
INVARIANTS RetiredOnce NoRecordLost LinkedScanCollects NoFreedInUse
CHECK_DEADLOCK FALSE
