------------------------ MODULE CatalogMemoryProofs ------------------------
(***************************************************************************)
(* The in-memory repository implements the stock ledger when no order      *)
(* lists a product twice: what the lines ask of a product is then what one *)
(* line asks of it, and this line was verified.  When an order does, the   *)
(* shelf may go below zero, but no unit is created or lost.                *)
(***************************************************************************)
EXTENDS CatalogMemory, StockLedgerProofs

(* No order lists a product twice.                                         *)
OncePerOrder ==
  \A o \in Orders : \A i, j \in 1..Len(Lines[o]) :
    Lines[o][i].product = Lines[o][j].product => i = j

LEMMA LinesType ==
  ASSUME NEW o \in Orders
  PROVE  /\ Len(Lines[o]) \in Nat
         /\ \A i \in 1..Len(Lines[o]) : /\ Lines[o][i].product \in Products
                                        /\ Lines[o][i].quantity \in Nat
<1> DEFINE Line == [product : Products, quantity : Nat \ {0}]
<1>1. Lines[o] \in Seq(Line)
  BY MemoryAssumption
<1>2. \A l \in Line : l.product \in Products /\ l.quantity \in Nat
  OBVIOUS
<1> HIDE DEF Line
<1>3. Len(Lines[o]) \in Nat /\ \A i \in 1..Len(Lines[o]) : Lines[o][i] \in Line
  BY <1>1
<1> QED BY <1>2, <1>3

(* What an order asks of a product is the quantity of the one line that    *)
(* lists it.                                                               *)
LEMMA DemandOfLine ==
  ASSUME OncePerOrder, NEW o \in Orders, NEW i \in 1..Len(Lines[o])
  PROVE  Demand[o][Lines[o][i].product] = Lines[o][i].quantity
<1> DEFINE n == Len(Lines[o])
           p == Lines[o][i].product
           units == Lines[o][i].quantity
           zero == [j \in 1..n |-> 0]
           f == [j \in 1..n |-> IF Lines[o][j].product = p THEN Lines[o][j].quantity ELSE 0]
<1>1. n \in Nat /\ p \in Products /\ units \in Int /\ i \in 1..n
  BY LinesType
<1>2. f = [zero EXCEPT ![i] = units]
  BY <1>1 DEF OncePerOrder
<1>3. zero \in [1..n -> Int] /\ zero[i] = 0 /\ SumTo(zero, n) = 0
  BY <1>1, SumToZero
<1>4. Demand[o][p] = SumTo(f, n)
  BY <1>1, MemoryAssumption DEF Ordered
<1> HIDE DEF n, p, units, zero, f
<1>5. SumTo(f, n) = SumTo(zero, n) + units - zero[i]
  BY ONLY <1>1, <1>2, <1>3, SumToUpdate
<1>6. Demand[o][p] = units
  BY <1>1, <1>3, <1>4, <1>5
<1> QED BY <1>6 DEF p, units

LEMMA DemandOfNone ==
  ASSUME NEW o \in Orders, NEW p \in Products,
         \A i \in 1..Len(Lines[o]) : Lines[o][i].product # p
  PROVE  Demand[o][p] = 0
<1>1. [i \in 1..Len(Lines[o]) |-> IF Lines[o][i].product = p THEN Lines[o][i].quantity ELSE 0]
        = [i \in 1..Len(Lines[o]) |-> 0]
  OBVIOUS
<1>2. Demand[o][p] = SumTo([i \in 1..Len(Lines[o]) |-> 0], Len(Lines[o]))
  BY <1>1, MemoryAssumption DEF Ordered
<1> QED BY <1>2, LinesType, SumToZero

(* Verifying the lines one by one verifies the order.                      *)
LEMMA VerifiedIsSufficient ==
  ASSUME OncePerOrder, LedgerTypeOK, NEW o \in Orders, Verified(o)
  PROVE  Sufficient(o)
<1> SUFFICES ASSUME NEW p \in Products PROVE Demand[o][p] <= stock[p]
  BY DEF Sufficient
<1>1. CASE \E i \in 1..Len(Lines[o]) : Lines[o][i].product = p
  BY <1>1, DemandOfLine DEF Verified
<1>2. CASE \A i \in 1..Len(Lines[o]) : Lines[o][i].product # p
  BY <1>2, DemandOfNone DEF LedgerTypeOK
<1> QED BY <1>1, <1>2

LEMMA MemoryStep ==
  ASSUME OncePerOrder, LedgerTypeOK, [Next]_vars
  PROVE  LedgerTypeOK' /\ [LedgerNext]_ledger
<1>1. CASE UNCHANGED ledger
  BY <1>1 DEF ledger, LedgerTypeOK
<1>2. ASSUME NEW o \in Orders, ReserveStock(o) PROVE LedgerTypeOK' /\ [LedgerNext]_ledger
  <2>1. Sufficient(o)
    BY <1>2, VerifiedIsSufficient DEF ReserveStock
  <2>2. Reserve(o)
    BY <1>2, <2>1 DEF ReserveStock, Reserve
  <2>3. LedgerTypeOK'
    <3>1. Demand[o] \in [Products -> Nat]
      BY LedgerAssumption
    <3>2. \A p \in Products : stock[p] - Demand[o][p] \in Nat
      BY <2>1, <3>1 DEF Sufficient, LedgerTypeOK
    <3> QED BY <2>2, <3>1, <3>2 DEF Reserve, LedgerTypeOK
  <2> QED BY <2>2, <2>3 DEF LedgerNext
<1>3. ASSUME NEW o \in Orders, ReleaseStock(o) PROVE LedgerTypeOK' /\ [LedgerNext]_ledger
  <2>1. Release(o)
    BY <1>3 DEF ReleaseStock
  <2>2. LedgerTypeOK'
    BY <2>1 DEF Release, LedgerTypeOK, NoHold
  <2> QED BY <2>1, <2>2 DEF LedgerNext
<1>4. ASSUME NEW o \in Orders, RefuseReservation(o) \/ AlreadyReserved(o) PROVE UNCHANGED ledger
  BY <1>4 DEF RefuseReservation, AlreadyReserved
<1>5. UNCHANGED vars => UNCHANGED ledger
  BY DEF vars, ledger
<1> QED BY <1>1, <1>2, <1>3, <1>4, <1>5 DEF Next

LEMMA MemoryInvariant == OncePerOrder => (Spec => []LedgerTypeOK)
<1> SUFFICES ASSUME OncePerOrder PROVE Spec => []LedgerTypeOK
  OBVIOUS
<1>1. Init => LedgerTypeOK
  BY LedgerAssumption DEF Init, LedgerInit, LedgerTypeOK, NoHold
<1> QED BY <1>1, MemoryStep, PTL DEF Spec

(* ReserveStock and ReleaseStock of the in-memory repository take and give *)
(* back whole orders, like the ledger, provided that no order lists a      *)
(* product twice.                                                          *)
THEOREM MemoryImplementsLedger == OncePerOrder => (Spec => ImplementsLedger)
<1> SUFFICES ASSUME OncePerOrder PROVE Spec => ImplementsLedger
  OBVIOUS
<1>1. Spec => []LedgerTypeOK
  BY MemoryInvariant
<1>2. Init => LedgerInit
  BY DEF Init
<1> QED BY <1>1, <1>2, MemoryStep, PTL DEF Spec, ImplementsLedger, LedgerSpec

(* Nothing but a product listed twice drives the stock below zero.         *)
THEOREM MemoryStockNotNegative == OncePerOrder => (Spec => []StockNotNegative)
<1> SUFFICES ASSUME OncePerOrder PROVE Spec => []StockNotNegative
  OBVIOUS
<1>1. Spec => []LedgerTypeOK
  BY MemoryInvariant
<1>2. LedgerTypeOK => StockNotNegative
  BY DEF LedgerTypeOK, StockNotNegative
<1> QED BY <1>1, <1>2, PTL

-----------------------------------------------------------------------------
(* Orders that list products twice.                                        *)

MemoryInv ==
  /\ stock \in [Products -> Int]
  /\ held \in [Orders -> [Products -> Nat]]
  /\ AllOrNothing /\ StockConserved

(* What an order holds changes to h, and the stock by the difference.      *)
LEMMA UnitsMoved ==
  ASSUME MemoryInv, NEW o \in Orders, NEW h \in {NoHold, Demand[o]},
         held' = [held EXCEPT ![o] = h],
         stock' = [p \in Products |-> stock[p] + held[o][p] - h[p]]
  PROVE  MemoryInv'
<1>1. h \in [Products -> Nat] /\ held[o] \in [Products -> Nat]
  <2>1. NoHold \in [Products -> Nat] /\ Demand[o] \in [Products -> Nat]
    BY LedgerAssumption DEF NoHold
  <2> QED BY <2>1 DEF MemoryInv
<1>2. held' \in [Orders -> [Products -> Nat]] /\ AllOrNothing'
  BY <1>1 DEF MemoryInv, AllOrNothing, NoHold
<1>3. stock' \in [Products -> Int]
  BY <1>1 DEF MemoryInv
<1>4. ASSUME NEW p \in Products PROVE (stock[p] + HeldUnits(p) = InitStock[p])'
  <2>1. HeldUnits(p)' = HeldUnits(p) + h[p] - held[o][p] /\ HeldUnits(p) \in Int
    BY <1>1, HeldUnitsUpdate, HeldUnitsType DEF MemoryInv
  <2>2. /\ h[p] \in Nat /\ held[o][p] \in Nat /\ stock[p] \in Int
        /\ stock[p] + HeldUnits(p) = InitStock[p]
    BY <1>1 DEF MemoryInv, StockConserved
  <2> QED BY <2>1, <2>2
<1> QED BY <1>2, <1>3, <1>4 DEF MemoryInv, StockConserved

(* The in-memory repository moves units between shelf and orders and never *)
(* creates or loses one, also when it oversells a product that an order    *)
(* lists twice: what goes below zero is the shelf, not the sum.            *)
THEOREM MemoryConservesStock == Spec => [](AllOrNothing /\ StockConserved)
<1>1. Init => MemoryInv
  BY InitEstablishes DEF Init, LedgerInv, LedgerTypeOK, MemoryInv
<1>2. MemoryInv /\ [Next]_vars => MemoryInv'
  <2> SUFFICES ASSUME MemoryInv, [Next]_vars PROVE MemoryInv'
    OBVIOUS
  <2>1. CASE UNCHANGED ledger
    BY <2>1 DEF ledger, MemoryInv, AllOrNothing, StockConserved, HeldUnits
  <2>2. ASSUME NEW o \in Orders, ReserveStock(o) PROVE MemoryInv'
    <3>1. /\ Demand[o] \in [Products -> Nat] /\ stock \in [Products -> Int]
          /\ held[o] = NoHold
      BY <2>2, LedgerAssumption DEF ReserveStock, Holds, MemoryInv
    <3>2. stock' = [p \in Products |-> stock[p] + held[o][p] - Demand[o][p]]
      BY <2>2, <3>1 DEF ReserveStock, NoHold
    <3> QED BY <2>2, <3>2, UnitsMoved DEF ReserveStock
  <2>3. ASSUME NEW o \in Orders, ReleaseStock(o) PROVE MemoryInv'
    <3>1. stock \in [Products -> Int] /\ held[o] \in [Products -> Nat]
      BY DEF MemoryInv
    <3>2. stock' = [p \in Products |-> stock[p] + held[o][p] - NoHold[p]]
      BY <2>3, <3>1 DEF ReleaseStock, Release, NoHold
    <3> QED BY <2>3, <3>2, UnitsMoved DEF ReleaseStock, Release
  <2>4. ASSUME NEW o \in Orders, RefuseReservation(o) \/ AlreadyReserved(o) PROVE UNCHANGED ledger
    BY <2>4 DEF RefuseReservation, AlreadyReserved
  <2>5. UNCHANGED vars => UNCHANGED ledger
    BY DEF vars, ledger
  <2> QED BY <2>1, <2>2, <2>3, <2>4, <2>5 DEF Next
<1>3. MemoryInv => AllOrNothing /\ StockConserved
  BY DEF MemoryInv
<1> QED BY <1>1, <1>2, <1>3, PTL DEF Spec
=============================================================================
