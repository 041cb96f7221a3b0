SPECIFICATION Spec
CONSTANTS
  NumOrders = 4
  Products = {"book", "pen"}
  InitStock <- SmallStock
  Demand <- DistinctDemand
  Lines <- DistinctLines
PROPERTIES
  ImplementsLedger
CHECK_DEADLOCK FALSE
