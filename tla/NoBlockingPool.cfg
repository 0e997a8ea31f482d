CONSTANTS
  Callers = {t1, t2, t3}
  Items = {x1, x2}
  Count = 2
  Null = Null
SPECIFICATION PoolFairSpec
INVARIANTS OnePlace
PROPERTIES ImplementsPool SomeOperationEnds
