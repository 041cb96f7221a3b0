SPECIFICATION Spec
CONSTANTS
  NumOrders = 1
  Products = {"book", "pen"}
  InitStock <- SmallStock
  Demand <- TwiceDemand
  Lines <- TwiceLines
INVARIANTS
  StockNotNegative
CHECK_DEADLOCK FALSE
