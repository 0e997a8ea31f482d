CONSTANTS
  Threads = {t1, t2}
  Nodes = {n1, n2, n3}
  MaxPush = 2
  Width = 8
  None = None
SPECIFICATION FairSpec
INVARIANTS ListIntact NoUseAfterFree SizeSettles
PROPERTIES ImplementsFifo SomeOperationEnds
