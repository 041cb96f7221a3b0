SPECIFICATION FairSpec
CONSTANTS
  NumOrders = 4
  Products = {"book", "pen"}
  InitStock <- ReliableStock
  Demand <- ReliableDemand
  Verdict <- ReliableVerdict
  MaxFaults = 0
INVARIANTS
  FailedIsCompensated
PROPERTIES
  EveryOrderSettles
CHECK_DEADLOCK FALSE
