SPECIFICATION FairSpec
CONSTANTS
  NumOrders = 2
  Products = {"book"}
  InitStock <- FaultyStock
  Demand <- FaultyDemand
  Verdict <- FaultyVerdict
  MaxFaults = 2
INVARIANTS
  TypeOK
  StockConserved
  CompletedIsBacked
  RollbackFreesStock
  EventsTruthful
  FaultsAreContained
PROPERTIES
  ImplementsBook
  EveryOrderAnswered
CHECK_DEADLOCK FALSE
