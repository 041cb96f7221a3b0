--------------------------- MODULE MCNotification --------------------------
(***************************************************************************)
(* Three workloads: an event that is in the log twice, with unsendable     *)
(* ones about it; the events of two orders; and two gRPC requests that     *)
(* fall on the same key.                                                   *)
(***************************************************************************)
EXTENDS NotificationConsumer

SmallTopics == {"completed", "failed"}
SmallRequests == {"ask", "askAgain"}
SmallSenders == SmallTopics \cup SmallRequests
SmallKeyOf == [r \in SmallRequests |-> "order1"]

Workload(completed, failed, requests) ==
  [log |-> [t \in SmallTopics |-> IF t = "completed" THEN completed ELSE failed],
   requests |-> requests]

SmallWorkloads == {
  Workload(<<"order1", "junk", "order1">>, <<"junk">>, {}),
  Workload(<<"order1", "order2">>, << >>, {}),
  Workload(<< >>, << >>, SmallRequests)}

TwoEvents == {Workload(<<"order1", "order2">>, << >>, {})}
=============================================================================
