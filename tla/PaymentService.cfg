SPECIFICATION Spec
CONSTANTS
  Calls <- SmallCalls
  Keys = {"order1", "order2"}
  Kind <- SmallKind
  OrderOf <- SmallOrder
  Verdict <- SmallVerdict
  MaxFaults = 2
INVARIANTS
  TypeOK
  CancelHonest
  OneDecision
PROPERTIES
  ImplementsLedger
CHECK_DEADLOCK FALSE
