---------------------------- MODULE CatalogMemory ---------------------------
(***************************************************************************)
(* The catalog's in-memory repository, which the service falls back to     *)
(* when Postgres is out of reach.  Every operation runs under the mutex,   *)
(* so it is one step.  ReserveStock verifies the lines of the request one  *)
(* by one and deducts them afterwards.                                     *)
(***************************************************************************)
EXTENDS StockLedger, Sequences

CONSTANT Lines      \* Lines[o]: the lines of order o, [product, quantity]

(* Units of product p over all lines of order o.                           *)
Ordered(o, p) ==
  SumTo([i \in 1..Len(Lines[o]) |-> IF Lines[o][i].product = p THEN Lines[o][i].quantity ELSE 0],
        Len(Lines[o]))

ASSUME MemoryAssumption ==
  /\ Lines \in [Orders -> Seq([product : Products, quantity : Nat \ {0}])]
  /\ \A o \in Orders, p \in Products : Demand[o][p] = Ordered(o, p)

VARIABLE answer     \* answer[o]: what the last ReserveStock of order o returned

vars == <<stock, held, answer>>

Init == LedgerInit /\ answer = [o \in Orders |-> "none"]

Returns(o, result) == answer' = [answer EXCEPT ![o] = result]

(* The check of the first loop, against the stock before any deduction.    *)
Verified(o) == \A i \in 1..Len(Lines[o]) : Lines[o][i].quantity <= stock[Lines[o][i].product]

(* Mutant of RefuseReservation: lines are deducted while they are checked. *)
RefuseHalfWay(o) ==
  /\ ~ Holds(o)
  /\ ~ Verified(o)
  /\ Returns(o, "refused")
  /\ \E i \in 1..Len(Lines[o]) :
       /\ Lines[o][i].quantity > stock[Lines[o][i].product]
       /\ stock' = [p \in Products |-> IF \E j \in 1..i - 1 : Lines[o][j].product = p
                                          THEN stock[p] - Demand[o][p] ELSE stock[p]]
  /\ UNCHANGED held

RefuseReservation(o) ==
  /\ ~ Holds(o)
  /\ ~ Verified(o)
  /\ Returns(o, "refused")
  /\ UNCHANGED ledger

(* The second loop, then the lines become the order's reservation.         *)
ReserveStock(o) ==
  /\ ~ Holds(o)
  /\ Verified(o)
  /\ stock' = [p \in Products |-> stock[p] - Demand[o][p]]
  /\ held' = [held EXCEPT ![o] = Demand[o]]
  /\ Returns(o, "reserved")

AlreadyReserved(o) ==
  /\ Holds(o)
  /\ Returns(o, "reserved")
  /\ UNCHANGED ledger

(* Of an order without a reservation it changes nothing.                   *)
ReleaseStock(o) ==
  /\ Release(o)
  /\ UNCHANGED answer

Next ==
  \E o \in Orders :
    RefuseReservation(o) \/ ReserveStock(o) \/ AlreadyReserved(o) \/ ReleaseStock(o)

Spec == Init /\ [][Next]_vars

-----------------------------------------------------------------------------
(* When no order lists a product twice, checking the lines one by one is   *)
(* as good as checking the order, and the repository is the ledger.        *)
ImplementsLedger == LedgerSpec

(* The products table demands CHECK (stock >= 0), the in-memory products   *)
(* stand in for it.  Two lines of one product are each checked against the *)
(* whole stock, and both are deducted.                                     *)
StockNotNegative == \A p \in Products : stock[p] >= 0
=============================================================================
