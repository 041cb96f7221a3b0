SPECIFICATION Spec
CONSTANTS
  NumOrders = 2
  Products = {"book"}
  InitStock <- FaultyStock
  Demand <- FaultyDemand
  Verdict <- FaultyVerdict
  MaxFaults = 1
INVARIANTS
  CompensationOutlivesRequest
CHECK_DEADLOCK FALSE
