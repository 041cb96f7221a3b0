SPECIFICATION Spec
CONSTANTS
  NumOrders = 2
  Products = {"book"}
  InitStock <- FaultyStock
  Demand <- FaultyDemand
  Verdict <- DeclinedVerdict
  MaxFaults = 1
INVARIANTS
  FailedHasReleased
CHECK_DEADLOCK FALSE
