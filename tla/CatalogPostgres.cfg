SPECIFICATION FairSpec
CONSTANTS
  NumOrders = 3
  Products = {"book", "pen"}
  InitStock <- SmallStock
  Demand <- SmallDemand
  Lines <- SmallLines
  Calls <- SagaCalls
  Kind <- SagaKind
  OrderOf <- SagaOrder
  MaxFaults = 1
INVARIANTS
  TypeOK
  AnswersHonest
  SomeCallMoves
PROPERTIES
  ImplementsLedger
  EveryCallAnswered
CHECK_DEADLOCK FALSE
