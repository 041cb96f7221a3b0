----------------------------- MODULE OrderBook -----------------------------
(***************************************************************************)
(* What the order service promises to its customers, with nothing of how   *)
(* it is done: every order is open until it becomes COMPLETED or FAILED,   *)
(* once and for all, and all COMPLETED orders together fit into the stock  *)
(* there was at the start.  No service, message or reservation appears.    *)
(***************************************************************************)
EXTENDS Sums

CONSTANTS
  NumOrders, Products,
  InitStock,    \* InitStock[p]: units of p for sale
  Demand        \* Demand[o][p]: units of p that order o asks for

VARIABLE outcome    \* outcome[o]: "open", "COMPLETED" or "FAILED"

Init == outcome = [o \in 1..NumOrders |-> "open"]

(* The units of p in completed orders.                                     *)
Sold(p) ==
  SumTo([o \in 1..NumOrders |-> IF outcome[o] = "COMPLETED" THEN Demand[o][p] ELSE 0], NumOrders)

Complete(o) ==
  /\ outcome[o] = "open"
  /\ \A p \in Products : Sold(p) + Demand[o][p] <= InitStock[p]
  /\ outcome' = [outcome EXCEPT ![o] = "COMPLETED"]

Fail(o) ==
  /\ outcome[o] = "open"
  /\ outcome' = [outcome EXCEPT ![o] = "FAILED"]

Next == \E o \in 1..NumOrders : Complete(o) \/ Fail(o)

Spec == Init /\ [][Next]_outcome

(* All COMPLETED orders together fit into the initial stock.               *)
NeverOversold == \A p \in Products : Sold(p) <= InitStock[p]
=============================================================================
