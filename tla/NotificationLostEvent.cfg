SPECIFICATION Spec
CONSTANTS
  Senders <- SmallSenders
  Topics <- SmallTopics
  Requests <- SmallRequests
  Keys = {"order1", "order2"}
  NoKey = "nokey"
  Unsendable = "junk"
  KeyOf <- SmallKeyOf
  Workloads <- TwoEvents
  MaxRetries = 3
  MaxFaults = 1
INVARIANT NoEventLost
CHECK_DEADLOCK FALSE
