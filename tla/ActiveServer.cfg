CONSTANTS
  Actives = {a1}
  Handles = {h1, h2}
  Workers = {w1, w2}
  Helpers = {d1}
  NThreads = 2
  Posters = {p1, p2}
  MaxEvents = 2
  None = None
SPECIFICATION FairSpec
INVARIANTS TypeOK SerialActive FlagMeansScheduled OneOwner
PROPERTIES StrandsInTwoWays ImplementsMailbox WaitingEventIsHandled StopEndsThreads
CHECK_DEADLOCK FALSE
