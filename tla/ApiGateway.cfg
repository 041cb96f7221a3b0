SPECIFICATION GatewaySpec
CONSTANTS
  Calls <- SmallCalls
  Asked <- SmallAsked
  Fields = {"name", "phone"}
  Blank = "blank"
  Arrivals <- SmallArrivals
  MaxFaults = 1
  NumProducts = 5
  PageSizes = {0, 1, 2, 5}
  DefaultSize = 3
INVARIANTS
  TypeOK
  OwnAccount
  OneDefault
  FieldsKept
  EveryProductOnce
  OneChosen
  SomeCallMoves
PROPERTIES
  DefaultKept
  ChosenKept
  EveryCallAnswered
CHECK_DEADLOCK FALSE
