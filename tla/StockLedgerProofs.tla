------------------------- MODULE StockLedgerProofs -------------------------
(***************************************************************************)
(* The ledger conserves stock and never splits an order, for any number of *)
(* orders and products and any demand.                                     *)
(*                                                                         *)
(* It rests on facts about SumTo, which come first.  Induction over the    *)
(* natural numbers is obtained from the existence of minimal elements      *)
(* (NatMin), which needs no theorem parameterised by an operator.          *)
(***************************************************************************)
EXTENDS StockLedger, WellFoundedInduction, TLAPS

(* s is the table of the partial sums of f.                                *)
IsPartialSums(s, f, n) ==
  /\ s \in [0..n -> Int]
  /\ s[0] = 0
  /\ \A i \in 1..n : s[i] = s[i - 1] + f[i]

(* A non-empty set of naturals has a least element.                        *)
LEMMA NatMin ==
  ASSUME NEW T \in SUBSET Nat, T # {}
  PROVE  \E x \in T : \A y \in T : x <= y
<1> DEFINE R == {ss \in Nat \X Nat : ss[1] < ss[2]}
<1>1. IsWellFoundedOn(R, Nat)
  BY NatLessThanWellFounded DEF OpToRel
<1>2. \E x \in T : \A y \in T : ~ (<<y, x>> \in R)
  <2> HIDE DEF R
  <2> QED BY <1>1, WFMin
<1>3. ASSUME NEW x \in Nat, NEW y \in Nat, ~ (<<y, x>> \in R)
      PROVE  x <= y
  <2>1. <<y, x>> \in Nat \X Nat
    OBVIOUS
  <2>2. ~ (y < x)
    BY <1>3, <2>1
  <2> QED BY <2>2
<1> HIDE DEF R
<1> QED BY <1>2, <1>3

(* Every integer-valued function has a table of partial sums.              *)
LEMMA PartialSumsExist ==
  ASSUME NEW n \in Nat, NEW f \in [1..n -> Int]
  PROVE  \E s : IsPartialSums(s, f, n)
<1> DEFINE Bad == {k \in 0..n : ~ \E s : IsPartialSums(s, f, k)}
<1>1. Bad = {}
  <2> SUFFICES ASSUME Bad # {} PROVE FALSE
    OBVIOUS
  <2>1. PICK m \in Bad : \A y \in Bad : m <= y
    <3>1. Bad \in SUBSET Nat
      OBVIOUS
    <3> HIDE DEF Bad
    <3> QED BY <3>1, NatMin
  <2>2. m # 0
    <3>1. IsPartialSums([i \in 0..0 |-> 0], f, 0)
      BY DEF IsPartialSums
    <3> QED BY <3>1
  <2>3. m - 1 \in 0..n /\ m - 1 \notin Bad
    BY <2>1, <2>2
  <2>4. PICK s : IsPartialSums(s, f, m - 1)
    BY <2>3
  <2>5. s[m - 1] + f[m] \in Int
    BY <2>2, <2>3, <2>4 DEF IsPartialSums
  <2> DEFINE t == [i \in 0..m |-> IF i = m THEN s[m - 1] + f[m] ELSE s[i]]
  <2>6. t \in [0..m -> Int] /\ t[0] = 0
    BY <2>2, <2>4, <2>5 DEF IsPartialSums
  <2>7. ASSUME NEW i \in 1..m PROVE t[i] = t[i - 1] + f[i]
    <3>1. i \in 0..m /\ i - 1 \in 0..m /\ i - 1 # m
      BY <2>2
    <3>2. t[i - 1] = s[i - 1]
      BY <3>1
    <3>3. CASE i = m
      BY <3>1, <3>2, <3>3
    <3>4. CASE i # m
      <4>1. i \in 1..(m - 1)
        BY <3>4
      <4> QED BY <2>4, <3>1, <3>2, <3>4, <4>1 DEF IsPartialSums
    <3> QED BY <3>3, <3>4
  <2>8. IsPartialSums(t, f, m)
    <3> HIDE DEF t
    <3> QED BY <2>6, <2>7 DEF IsPartialSums
  <2> QED BY <2>8
<1>2. n \in 0..n
  OBVIOUS
<1> QED BY <1>1, <1>2

(* SumTo is the last entry of the table.                                   *)
LEMMA SumToIsLast ==
  ASSUME NEW n \in Nat, NEW f, NEW s, IsPartialSums(s, f, n)
  PROVE  SumTo(f, n) = s[n]
<1> DEFINE Body(g) == [i \in 0..n |-> IF i = 0 THEN 0 ELSE g[i - 1] + f[i]]
           c == CHOOSE g : g = Body(g)
<1>1. s = Body(s)
  BY DEF IsPartialSums
<1>2. c = Body(c)
  <2> HIDE DEF Body
  <2> QED BY <1>1
<1>3. c[0] = 0 /\ \A i \in 1..n : c[i] = c[i - 1] + f[i]
  <2>1. \A g : Body(g)[0] = 0 /\ \A i \in 1..n : Body(g)[i] = g[i - 1] + f[i]
    OBVIOUS
  <2> HIDE DEF Body, c
  <2> QED BY <1>2, <2>1
<1>4. SumTo(f, n) = c[n]
  BY DEF SumTo
<1> HIDE DEF c
<1> DEFINE Bad == {i \in 0..n : s[i] # c[i]}
<1>5. Bad = {}
  <2> SUFFICES ASSUME Bad # {} PROVE FALSE
    OBVIOUS
  <2>1. PICK m \in Bad : \A y \in Bad : m <= y
    <3>1. Bad \in SUBSET Nat
      OBVIOUS
    <3> HIDE DEF Bad
    <3> QED BY <3>1, NatMin
  <2>2. m # 0
    BY <1>3 DEF IsPartialSums
  <2>3. m - 1 \in 0..n /\ m - 1 \notin Bad
    BY <2>1, <2>2
  <2>4. s[m] = s[m - 1] + f[m] /\ c[m] = c[m - 1] + f[m]
    BY <1>3, <2>2 DEF IsPartialSums
  <2> QED BY <2>3, <2>4
<1> QED BY <1>4, <1>5

(* The sum of integers is an integer.                                      *)
LEMMA SumToType ==
  ASSUME NEW n \in Nat, NEW f \in [1..n -> Int]
  PROVE  SumTo(f, n) \in Int
<1>1. PICK s : IsPartialSums(s, f, n)
  BY PartialSumsExist
<1>2. s[n] \in Int
  BY <1>1 DEF IsPartialSums
<1> QED BY <1>1, <1>2, SumToIsLast

(* The sum of zeros is zero.                                               *)
LEMMA SumToZero ==
  ASSUME NEW n \in Nat
  PROVE  SumTo([i \in 1..n |-> 0], n) = 0
<1>1. IsPartialSums([i \in 0..n |-> 0], [i \in 1..n |-> 0], n)
  BY DEF IsPartialSums
<1> QED BY <1>1, SumToIsLast

(* Changing one summand changes the sum by as much.                        *)
LEMMA SumToUpdate ==
  ASSUME NEW n \in Nat, NEW f \in [1..n -> Int],
         NEW k \in 1..n, NEW v \in Int,
         NEW g,
         g = [f EXCEPT ![k] = v]
  PROVE  SumTo(g, n) = SumTo(f, n) + v - f[k]
<1>1. PICK s : IsPartialSums(s, f, n)
  BY PartialSumsExist
<1> DEFINE d == v - f[k]
           t == [i \in 0..n |-> IF i >= k THEN s[i] + d ELSE s[i]]
<1>2. /\ g \in [1..n -> Int]
      /\ d \in Int
      /\ g[k] = f[k] + d
      /\ \A i \in 1..n : i # k => g[i] = f[i]
  OBVIOUS
<1> HIDE DEF d
<1>3. t \in [0..n -> Int] /\ t[0] = 0
  <2>1. s[0] = 0 /\ \A i \in 0..n : s[i] \in Int
    BY <1>1 DEF IsPartialSums
  <2>2. \A i \in 0..n : s[i] + d \in Int
    BY <1>2, <2>1
  <2> QED BY <2>1, <2>2
<1>4. ASSUME NEW i \in 1..n PROVE t[i] = t[i - 1] + g[i]
  <2>1. /\ s[i] = s[i - 1] + f[i]
        /\ i \in 0..n /\ i - 1 \in 0..n
        /\ s[i - 1] \in Int /\ f[i] \in Int
    BY <1>1 DEF IsPartialSums
  <2>2. CASE i < k
    BY <1>2, <2>1, <2>2
  <2>3. CASE i = k
    BY <1>2, <2>1, <2>3
  <2>4. CASE i > k
    <3>1. i - 1 >= k /\ i >= k /\ i # k
      BY <2>4
    <3>2. t[i] = s[i] + d /\ t[i - 1] = s[i - 1] + d
      BY <2>1, <3>1
    <3>3. g[i] = f[i]
      BY <1>2, <3>1
    <3> HIDE DEF t
    <3> QED BY <1>2, <2>1, <3>2, <3>3
  <2> QED BY <2>2, <2>3, <2>4
<1>5. IsPartialSums(t, g, n)
  <2> HIDE DEF t
  <2> QED BY <1>3, <1>4 DEF IsPartialSums
<1>6. SumTo(f, n) = s[n] /\ SumTo(g, n) = t[n]
  <2> HIDE DEF t
  <2> QED BY <1>1, <1>5, SumToIsLast
<1>7. t[n] = s[n] + d
  OBVIOUS
<1> QED BY <1>1, <1>6, <1>7 DEF d, IsPartialSums

(* A sum of smaller summands is smaller.                                   *)
LEMMA SumToMonotone ==
  ASSUME NEW n \in Nat, NEW f \in [1..n -> Int], NEW g \in [1..n -> Int],
         \A i \in 1..n : f[i] <= g[i]
  PROVE  SumTo(f, n) <= SumTo(g, n)
<1>1. PICK s : IsPartialSums(s, f, n)
  BY PartialSumsExist
<1>2. PICK t : IsPartialSums(t, g, n)
  BY PartialSumsExist
<1> DEFINE Bad == {i \in 0..n : ~ (s[i] <= t[i])}
<1>3. Bad = {}
  <2> SUFFICES ASSUME Bad # {} PROVE FALSE
    OBVIOUS
  <2>1. PICK m \in Bad : \A y \in Bad : m <= y
    <3>1. Bad \in SUBSET Nat
      OBVIOUS
    <3> HIDE DEF Bad
    <3> QED BY <3>1, NatMin
  <2>2. m # 0
    BY <1>1, <1>2 DEF IsPartialSums
  <2>3. m - 1 \in 0..n /\ m \in 1..n /\ s[m - 1] <= t[m - 1]
    BY <2>1, <2>2
  <2>4. s[m] = s[m - 1] + f[m] /\ t[m] = t[m - 1] + g[m]
    BY <1>1, <1>2, <2>3 DEF IsPartialSums
  <2>5. /\ s[m - 1] \in Int /\ t[m - 1] \in Int
        /\ f[m] \in Int /\ g[m] \in Int /\ f[m] <= g[m]
    BY <1>1, <1>2, <2>3 DEF IsPartialSums
  <2>6. s[m] <= t[m]
    BY <2>3, <2>4, <2>5
  <2> QED BY <2>1, <2>6
<1>4. s[n] <= t[n]
  BY <1>3
<1> QED BY <1>1, <1>2, <1>4, SumToIsLast

-----------------------------------------------------------------------------
(* The ledger.                                                             *)

LedgerInv == LedgerTypeOK /\ AllOrNothing /\ StockConserved

(* Replacing what order o holds changes the units held by the difference.  *)
LEMMA HeldUnitsUpdate ==
  ASSUME NEW p \in Products, NEW o \in Orders, NEW h \in [Products -> Nat],
         held \in [Orders -> [Products -> Nat]], held' = [held EXCEPT ![o] = h]
  PROVE  HeldUnits(p)' = HeldUnits(p) + h[p] - held[o][p]
<1> DEFINE f == [q \in Orders |-> held[q][p]]
           g == [q \in Orders |-> held'[q][p]]
<1>1. NumOrders \in Nat /\ o \in 1..NumOrders
  BY LedgerAssumption DEF Orders
<1>2. f \in [1..NumOrders -> Int] /\ h[p] \in Int /\ f[o] = held[o][p]
  BY DEF Orders
<1>3. g = [f EXCEPT ![o] = h[p]]
  OBVIOUS
<1>4. HeldUnits(p) = SumTo(f, NumOrders) /\ HeldUnits(p)' = SumTo(g, NumOrders)
  BY DEF HeldUnits
<1> HIDE DEF f, g
<1>5. SumTo(g, NumOrders) = SumTo(f, NumOrders) + h[p] - f[o]
  BY <1>1, <1>2, <1>3, SumToUpdate
<1> QED BY <1>2, <1>4, <1>5

(* The units held are an integer.                                          *)
LEMMA HeldUnitsType ==
  ASSUME NEW p \in Products, held \in [Orders -> [Products -> Nat]]
  PROVE  HeldUnits(p) \in Int
<1>1. [q \in Orders |-> held[q][p]] \in [1..NumOrders -> Int]
  BY DEF Orders
<1> QED BY <1>1, LedgerAssumption, SumToType DEF HeldUnits

(* Nothing is held at the start.                                           *)
LEMMA InitEstablishes == LedgerInit => LedgerInv
<1> SUFFICES ASSUME LedgerInit PROVE LedgerInv
  OBVIOUS
<1>1. LedgerTypeOK /\ AllOrNothing
  BY LedgerAssumption DEF LedgerInit, LedgerTypeOK, AllOrNothing, NoHold
<1>2. ASSUME NEW p \in Products PROVE stock[p] + HeldUnits(p) = InitStock[p]
  <2>1. [o \in Orders |-> held[o][p]] = [o \in 1..NumOrders |-> 0]
    BY <1>2 DEF LedgerInit, NoHold, Orders
  <2>2. HeldUnits(p) = 0
    BY <2>1, SumToZero, LedgerAssumption DEF HeldUnits
  <2> QED BY <2>2, LedgerAssumption DEF LedgerInit
<1> QED BY <1>1, <1>2 DEF LedgerInv, StockConserved

(* A reservation moves the demand from the shelf to the order.             *)
LEMMA ReserveStep ==
  ASSUME LedgerInv, NEW o \in Orders, Reserve(o)
  PROVE  LedgerInv'
<1>1. Demand[o] \in [Products -> Nat]
  BY LedgerAssumption
<1>2. LedgerTypeOK'
  BY <1>1 DEF LedgerInv, LedgerTypeOK, Reserve, Sufficient
<1>3. AllOrNothing'
  BY DEF LedgerInv, LedgerTypeOK, AllOrNothing, Reserve
<1>4. ASSUME NEW p \in Products PROVE (stock[p] + HeldUnits(p) = InitStock[p])'
  <2>1. HeldUnits(p)' = HeldUnits(p) + Demand[o][p] - held[o][p]
    BY <1>1, <1>4, HeldUnitsUpdate DEF LedgerInv, LedgerTypeOK, Reserve
  <2>2. held[o][p] = 0 /\ stock'[p] = stock[p] - Demand[o][p]
    BY DEF Reserve, Holds, NoHold
  <2>3. HeldUnits(p) \in Int /\ stock[p] \in Nat /\ Demand[o][p] \in Nat
    BY <1>1, HeldUnitsType DEF LedgerInv, LedgerTypeOK
  <2>4. stock[p] + HeldUnits(p) = InitStock[p]
    BY DEF LedgerInv, StockConserved
  <2> QED BY <2>1, <2>2, <2>3, <2>4
<1> QED BY <1>2, <1>3, <1>4 DEF LedgerInv, StockConserved

(* A release moves what the order holds back to the shelf.                 *)
LEMMA ReleaseStep ==
  ASSUME LedgerInv, NEW o \in Orders, Release(o)
  PROVE  LedgerInv'
<1>1. NoHold \in [Products -> Nat]
  BY DEF NoHold
<1>2. LedgerTypeOK'
  BY <1>1 DEF LedgerInv, LedgerTypeOK, Release
<1>3. AllOrNothing'
  BY DEF LedgerInv, LedgerTypeOK, AllOrNothing, Release
<1>4. ASSUME NEW p \in Products PROVE (stock[p] + HeldUnits(p) = InitStock[p])'
  <2>1. HeldUnits(p)' = HeldUnits(p) + NoHold[p] - held[o][p]
    BY <1>1, <1>4, HeldUnitsUpdate DEF LedgerInv, LedgerTypeOK, Release
  <2>2. NoHold[p] = 0 /\ stock'[p] = stock[p] + held[o][p]
    BY DEF Release, NoHold
  <2>3. HeldUnits(p) \in Int /\ stock[p] \in Nat /\ held[o][p] \in Nat
    BY HeldUnitsType DEF LedgerInv, LedgerTypeOK
  <2>4. stock[p] + HeldUnits(p) = InitStock[p]
    BY DEF LedgerInv, StockConserved
  <2> QED BY <2>1, <2>2, <2>3, <2>4
<1> QED BY <1>2, <1>3, <1>4 DEF LedgerInv, StockConserved

(* The ledger keeps its invariant.                                         *)
THEOREM LedgerCorrect == LedgerSpec => []LedgerInv
<1>1. LedgerInit => LedgerInv
  BY InitEstablishes
<1>2. LedgerInv /\ [LedgerNext]_ledger => LedgerInv'
  <2> SUFFICES ASSUME LedgerInv, [LedgerNext]_ledger PROVE LedgerInv'
    OBVIOUS
  <2>1. CASE LedgerNext
    BY <2>1, ReserveStep, ReleaseStep DEF LedgerNext
  <2>2. CASE UNCHANGED ledger
    BY <2>2 DEF ledger, LedgerInv, LedgerTypeOK, AllOrNothing, StockConserved, HeldUnits
  <2> QED BY <2>1, <2>2
<1> QED BY <1>1, <1>2, PTL DEF LedgerSpec

(* Stock is conserved in every reachable state of the ledger.              *)
THEOREM LedgerConservesStock == LedgerSpec => []StockConserved
<1>1. LedgerInv => StockConserved
  BY DEF LedgerInv
<1> QED BY <1>1, LedgerCorrect, PTL
=============================================================================
