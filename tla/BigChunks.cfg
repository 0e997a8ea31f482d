CONSTANTS
  Heaps = {h1}
  Freers = {f1, f2}
  Lengths = {1, 2}
  First = 2
  MaxMem = 12
  MaxAllocs = 6
  Nothing = Nothing
SPECIFICATION BigSpec
SYMMETRY Symmetry
INVARIANTS
  ChunksApart
  NothingLost
CHECK_DEADLOCK FALSE
