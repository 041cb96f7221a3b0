SPECIFICATION Spec
CONSTANTS
  Senders <- SmallSenders
  Topics <- SmallTopics
  Requests <- SmallRequests
  Keys = {"order1", "order2"}
  NoKey = "nokey"
  Unsendable = "junk"
  KeyOf <- SmallKeyOf
  Workloads <- SmallWorkloads
  MaxRetries = 3
  MaxFaults = 1
INVARIANTS
  TypeOK
  OneMail
  GivenUpInTime
  EventKept
PROPERTIES
  SentIsFinal
  ImplementsMailBook
  EverythingSettles
CHECK_DEADLOCK FALSE
