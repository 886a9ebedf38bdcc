SPECIFICATION Spec
CONSTANTS
  Id = {1, 2, 3}
  Hit = {1}
  Page <- EveryPage
  Limit = 1
  MaxLoads = 2
  MaxTime = 3
  MaxOther = 1
  None = None
INVARIANTS TypeOK BusyIsWaiting NothingMissed NoRowTwice ShownAsSaved
CHECK_DEADLOCK FALSE
