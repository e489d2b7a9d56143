CONSTANTS
  NoCall = NoCall
  Calls = {c1, c2, c3}
  Paths = {p1, p2}
  MaxTable = 1
SPECIFICATION FairSpec
INVARIANTS IInv MutualExclusion ArrivalOrder
PROPERTIES ImplementsTicketLock EveryCallRuns
CHECK_DEADLOCK FALSE
