SPECIFICATION Spec
CONSTANTS
  NumOrders = 3
  Products = {"book", "pen"}
  InitStock <- SmallStock
  Demand <- SmallDemand
  Lines <- SmallLines
  Calls <- DoubleCalls
  Kind <- DoubleKind
  OrderOf <- DoubleOrder
  MaxFaults = 0
INVARIANTS
  StockConserved
CHECK_DEADLOCK FALSE
