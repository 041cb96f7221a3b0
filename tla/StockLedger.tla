---------------------------- MODULE StockLedger ----------------------------
(***************************************************************************)
(* What the catalog service promises to the saga: ReserveStock takes the   *)
(* whole order out of the stock or nothing, ReleaseStock puts back exactly *)
(* what the order holds and forgets it, and each is atomic.  Both          *)
(* repositories of the catalog are meant to implement it, and the saga is  *)
(* built on it.                                                            *)
(*                                                                         *)
(* An order is a number of 1..NumOrders so that holdings can be summed.    *)
(* Demand[o][p] is the quantity of product p in order o, 0 when it has no  *)
(* line for p; an order holds all zeros when it has no reservation.        *)
(***************************************************************************)
EXTENDS Sums

CONSTANTS
  NumOrders,    \* how many orders are placed
  Products,     \* the products of the catalog
  InitStock,    \* InitStock[p]: units of p on the shelf at the start
  Demand        \* Demand[o][p]: units of p that order o asks for

Orders == 1..NumOrders

ASSUME LedgerAssumption ==
  /\ NumOrders \in Nat
  /\ InitStock \in [Products -> Nat]
  /\ Demand \in [Orders -> [Products -> Nat]]

VARIABLES
  stock,    \* products.stock
  held      \* stock_reservations: held[o][p]

ledger == <<stock, held>>

NoHold == [p \in Products |-> 0]

Holds(o) == held[o] # NoHold

(* Mutant of Sufficient: the comparison lets one unit too many through.    *)
SufficientOffByOne(o) == \A p \in Products : Demand[o][p] <= stock[p] + 1

(* Every line of the order can be served from the shelf.                   *)
Sufficient(o) == \A p \in Products : Demand[o][p] <= stock[p]

LedgerInit ==
  /\ stock = InitStock
  /\ held = [o \in Orders |-> NoHold]

-----------------------------------------------------------------------------
(* ReserveStock that takes effect: no reservation yet, enough stock.       *)
Reserve(o) ==
  /\ ~ Holds(o)
  /\ Sufficient(o)
  /\ stock' = [p \in Products |-> stock[p] - Demand[o][p]]
  /\ held' = [held EXCEPT ![o] = Demand[o]]

(* ReleaseStock that takes effect: the recorded quantities, not those of   *)
(* the request, go back to the shelf.                                      *)
Release(o) ==
  /\ Holds(o)
  /\ stock' = [p \in Products |-> stock[p] + held[o][p]]
  /\ held' = [held EXCEPT ![o] = NoHold]

LedgerNext == \E o \in Orders : Reserve(o) \/ Release(o)

LedgerSpec == LedgerInit /\ [][LedgerNext]_ledger

-----------------------------------------------------------------------------
LedgerTypeOK ==
  /\ stock \in [Products -> Nat]
  /\ held \in [Orders -> [Products -> Nat]]

(* The units of product p that orders hold.                                *)
HeldUnits(p) == SumTo([o \in Orders |-> held[o][p]], NumOrders)

(* No unit is created or lost: what is on the shelf and what the orders    *)
(* hold is the initial stock.  A restore without its delete, a deduction   *)
(* without its record, or a restore of the wrong quantities breaks it.     *)
StockConserved == \A p \in Products : stock[p] + HeldUnits(p) = InitStock[p]

(* An order holds all it asked for or nothing: no partial reservation      *)
(* survives a ReserveStock that stopped at one of its lines.               *)
AllOrNothing == \A o \in Orders : held[o] \in {NoHold, Demand[o]}
=============================================================================
