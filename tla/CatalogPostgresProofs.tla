----------------------- MODULE CatalogPostgresProofs -----------------------
(***************************************************************************)
(* The statements of the Postgres repository implement the stock ledger,   *)
(* for any number of products, orders, calls and errors.                   *)
(*                                                                         *)
(* The argument is the classical one of two-phase locking.  A call that    *)
(* has locked rows has found them unreserved and sufficient, and nobody    *)
(* else can change them before it ends (Reserving); a release that has     *)
(* seen its order's reservation is the only call that can end it           *)
(* (Releasing), which is where OneRelease is needed.                       *)
(***************************************************************************)
EXTENDS CatalogPostgres, StockLedgerProofs, FiniteSetTheorems

(* A product row is locked by one transaction at a time.                   *)
Exclusive == \A c, d \in Calls : c # d => locks[c] \cap locks[d] = {}

(* The rows before the cursor are locked, and nothing outside of "lines".  *)
CursorInv(c) ==
  /\ pc[c] # "lines" => locks[c] = {} /\ next[c] = 1
  /\ \A i \in 1..Len(plan[c]) : i < next[c] => plan[c][i] \in locks[c]

Reserving(c) ==
  Kind[c] = "reserve" =>
    /\ pc[c] # "read"
    /\ pc[c] = "lines" => plan[c] = Lines[OrderOf[c]]
    /\ \A p \in locks[c] :
         /\ 0 < Demand[OrderOf[c]][p] /\ Demand[OrderOf[c]][p] <= stock[p]
         /\ held[OrderOf[c]][p] = 0

(* A release knows the reservation of its order, and plans all of it.      *)
Remembers(c) ==
  /\ Holds(OrderOf[c]) /\ read[c] = held[OrderOf[c]]
  /\ \A p \in Products : read[c][p] > 0 => \E i \in 1..Len(plan[c]) : plan[c][i] = p

Releasing(c) ==
  Kind[c] = "release" =>
    /\ pc[c] \in {"read", "lines"} => Holds(OrderOf[c])
    /\ pc[c] = "lines" => Remembers(c)

(* What holds whoever releases.                                            *)
LockInv ==
  /\ TypeOK
  /\ AllOrNothing
  /\ Exclusive
  /\ \A c \in Calls : CursorInv(c) /\ Reserving(c)
  /\ AnswersHonest

CatalogInv == LockInv /\ \A c \in Calls : Releasing(c)

-----------------------------------------------------------------------------
(* The types of the constants, as the steps below use them.                *)
LEMMA CallType ==
  ASSUME NEW c \in Calls
  PROVE  /\ OrderOf[c] \in Orders
         /\ Kind[c] \in {"reserve", "release"}
         /\ Lines[OrderOf[c]] \in Seq(Products)
         /\ Demand[OrderOf[c]] \in [Products -> Nat]
         /\ \A p \in Products : Demand[OrderOf[c]][p] > 0
              <=> \E i \in 1..Len(Lines[OrderOf[c]]) : Lines[OrderOf[c]][i] = p
  BY CatalogAssumption, LedgerAssumption

(* A listing of a set of products is a sequence that contains all of them. *)
LEMMA ListingType ==
  ASSUME NEW S \in SUBSET Products, NEW s \in Listings(S)
  PROVE  /\ s \in Seq(Products)
         /\ \A p \in S : \E i \in 1..Len(s) : s[i] = p
<1>1. Cardinality(S) \in Nat
  BY CatalogAssumption, FS_Subset, FS_CardinalityType
<1>2. s \in [1..Cardinality(S) -> Products]
  BY DEF Listings
<1>3. s \in Seq(Products) /\ Len(s) = Cardinality(S)
  BY <1>1, <1>2
<1>4. DOMAIN s = 1..Len(s)
  BY <1>3
<1> QED BY <1>3, <1>4 DEF Listings

(* The row at the cursor is a product.                                     *)
LEMMA RowType ==
  ASSUME TypeOK, NEW c \in Calls, AtLine(c)
  PROVE  Row(c) \in Products /\ next[c] \in 1..Len(plan[c])
<1>1. plan[c] \in Seq(Products) /\ next[c] \in Nat \ {0} /\ next[c] <= Len(plan[c])
  BY DEF TypeOK, AtLine
<1>2. next[c] \in 1..Len(plan[c])
  BY <1>1
<1> QED BY <1>1, <1>2 DEF Row

-----------------------------------------------------------------------------
(* The effects of the two transactions.                                    *)

(* At the end of a reserve every line's row is locked.                     *)
LEMMA AllLocked ==
  ASSUME LockInv, NEW c \in Calls, Kind[c] = "reserve", AllLinesDone(c), NEW p \in Products,
         p \notin locks[c]
  PROVE  Demand[OrderOf[c]][p] = 0
<1>1. plan[c] = Lines[OrderOf[c]] /\ next[c] > Len(plan[c]) /\ next[c] \in Nat
  BY DEF LockInv, TypeOK, Reserving, AllLinesDone
<1>2. Len(plan[c]) \in Nat
  BY <1>1, CallType
<1>3. \A i \in 1..Len(plan[c]) : plan[c][i] # p
  BY <1>1, <1>2 DEF LockInv, CursorInv
<1> QED BY <1>1, <1>3, CallType

(* So its commit reserves the order, unless the order is empty.            *)
LEMMA InsertCommits ==
  ASSUME LockInv, NEW c \in Calls, Kind[c] = "reserve", AllLinesDone(c), InsertRecords(c)
  PROVE  /\ Reserve(OrderOf[c]) \/ (locks[c] = {} /\ UNCHANGED ledger)
         /\ held'[OrderOf[c]] = Demand[OrderOf[c]]
         /\ locks[c] # {} => ~ Holds(OrderOf[c])
<1> DEFINE o == OrderOf[c]
<1>1. o \in Orders /\ Demand[o] \in [Products -> Nat] /\ locks[c] \subseteq Products
  BY CallType DEF LockInv, TypeOK
<1>2. LedgerTypeOK /\ held[o] \in {NoHold, Demand[o]}
  BY <1>1 DEF LockInv, TypeOK, AllOrNothing
<1>3. \A p \in locks[c] : 0 < Demand[o][p] /\ Demand[o][p] <= stock[p] /\ held[o][p] = 0
  BY DEF LockInv, Reserving
<1>4. \A p \in Products \ locks[c] : Demand[o][p] = 0
  BY AllLocked
<1>5. CASE locks[c] = {}
  <2>1. Demand[o] = NoHold /\ held[o] = NoHold
    BY <1>1, <1>2, <1>4, <1>5 DEF NoHold
  <2>2. stock' = stock
    BY <1>2, <1>5 DEF InsertRecords, LedgerTypeOK
  <2>3. held' = [held EXCEPT ![o] = held[o]]
    BY <1>1, <1>2, <1>5 DEF InsertRecords, LedgerTypeOK
  <2>4. held' = held
    BY <1>1, <1>2, <2>3 DEF LedgerTypeOK
  <2> QED BY <1>5, <2>1, <2>2, <2>4 DEF ledger
<1>6. CASE locks[c] # {}
  <2>1. PICK p \in locks[c] : TRUE
    BY <1>6
  <2>2. held[o] # Demand[o]
    BY <1>1, <1>3, <2>1
  <2>3. held[o] = NoHold
    BY <1>2, <2>2
  <2>4. Sufficient(o)
    BY <1>1, <1>2, <1>3, <1>4 DEF Sufficient, LedgerTypeOK
  <2>5. stock' = [q \in Products |-> stock[q] - Demand[o][q]]
    BY <1>1, <1>2, <1>4 DEF InsertRecords, LedgerTypeOK
  <2>6. [q \in Products |-> IF q \in locks[c] THEN Demand[o][q] ELSE held[o][q]] = Demand[o]
    BY <1>1, <1>4, <2>3 DEF NoHold
  <2>7. held' = [held EXCEPT ![o] = Demand[o]]
    BY <2>6 DEF InsertRecords
  <2>8. held'[o] = Demand[o]
    BY <1>1, <1>2, <2>7 DEF LedgerTypeOK
  <2> QED BY <1>6, <2>3, <2>4, <2>5, <2>7, <2>8 DEF Reserve, Holds
<1> QED BY <1>5, <1>6

(* The commit of a release that read the reservation gives it back whole.  *)
LEMMA DeleteGivesBack ==
  ASSUME LockInv, NEW c \in Calls, AllLinesDone(c), DeleteRecords(c), Remembers(c)
  PROVE  Release(OrderOf[c])
<1> DEFINE o == OrderOf[c]
<1>1. o \in Orders /\ LedgerTypeOK /\ locks[c] \subseteq Products
  BY CallType DEF LockInv, TypeOK
<1>2. Holds(o) /\ read[c] = held[o]
  BY DEF Remembers
<1>3. ASSUME NEW p \in Products \ locks[c] PROVE held[o][p] = 0
  <2>1. \A i \in 1..Len(plan[c]) : plan[c][i] # p
    <3>1. next[c] > Len(plan[c]) /\ next[c] \in Nat /\ Len(plan[c]) \in Nat
      BY DEF LockInv, TypeOK, AllLinesDone
    <3> QED BY <1>3, <3>1 DEF LockInv, CursorInv
  <2>2. ~ (read[c][p] > 0)
    BY <2>1 DEF Remembers
  <2> QED BY <1>1, <1>2, <2>2 DEF LedgerTypeOK
<1>4. stock' = [p \in Products |-> stock[p] + held[o][p]]
  BY <1>1, <1>2, <1>3 DEF DeleteRecords, LedgerTypeOK
<1> QED BY <1>2, <1>4 DEF Release, DeleteRecords

LEMMA DeleteCommits ==
  ASSUME CatalogInv, NEW c \in Calls, Kind[c] = "release", AllLinesDone(c), DeleteRecords(c)
  PROVE  Release(OrderOf[c])
<1>1. Remembers(c)
  BY DEF CatalogInv, Releasing, Remembers, AllLinesDone
<1> QED BY <1>1, DeleteGivesBack DEF CatalogInv

-----------------------------------------------------------------------------
(* The locking invariant is kept, however many calls release an order.     *)

(* A step that changes no reservation keeps the answers honest when the    *)
(* reserve that it may answer is of an order already reserved.             *)
LEMMA HonestStep ==
  ASSUME AnswersHonest, UNCHANGED held,
         \A d \in Calls : pc'[d] = "start" => pc[d] = "start",
         \A d \in Calls : pc'[d] = "ok" /\ Kind[d] = "reserve"
           => pc[d] = "ok" \/ held[OrderOf[d]] = Demand[OrderOf[d]]
  PROVE  AnswersHonest'
  BY DEF AnswersHonest

(* The end of a call resets its variables and leaves the others alone.     *)
EndedLocally(c) ==
  /\ pc' \in [Calls -> {"start", "read", "lines", "ok", "error"}]
  /\ pc'[c] \in {"ok", "error"} /\ plan'[c] = << >> /\ next'[c] = 1 /\ locks'[c] = {}
  /\ plan' \in [Calls -> Seq(Products)]
  /\ next' \in [Calls -> Nat \ {0}]
  /\ locks' \in [Calls -> SUBSET Products]
  /\ read' \in [Calls -> [Products -> Nat]]
  /\ \A d \in Calls : d # c => /\ pc'[d] = pc[d] /\ plan'[d] = plan[d]
                              /\ next'[d] = next[d] /\ locks'[d] = locks[d]

LEMMA EndsLocally ==
  ASSUME TypeOK, NEW c \in Calls, NEW answer \in {"ok", "error"}, End(c, answer)
  PROVE  EndedLocally(c)
<1>1. NoHold \in [Products -> Nat]
  BY DEF NoHold
<1> QED BY <1>1 DEF EndedLocally, TypeOK, End

(* A call that ends without touching the ledger.                           *)
LEMMA EndStep ==
  ASSUME LockInv, NEW c \in Calls, UNCHANGED ledger, faults' \in 0..MaxFaults,
         NEW answer \in {"ok", "error"}, End(c, answer),
         answer = "ok" /\ Kind[c] = "reserve" => held[OrderOf[c]] = Demand[OrderOf[c]]
  PROVE  LockInv'
<1>0. EndedLocally(c)
  BY EndsLocally DEF LockInv
<1>1. TypeOK'
  BY <1>0 DEF EndedLocally, LockInv, TypeOK, ledger, LedgerTypeOK
<1>2. AllOrNothing'
  BY DEF LockInv, AllOrNothing, ledger
<1>3. Exclusive'
  BY DEF LockInv, TypeOK, Exclusive, End
<1>4. ASSUME NEW d \in Calls PROVE CursorInv(d)' /\ Reserving(d)'
  <2>1. CASE d = c
    BY <1>0, <2>1 DEF EndedLocally, CursorInv, Reserving
  <2>2. CASE d # c
    <3>1. /\ pc'[d] = pc[d] /\ plan'[d] = plan[d] /\ next'[d] = next[d] /\ locks'[d] = locks[d]
          /\ stock' = stock /\ held' = held
      BY <1>0, <2>2 DEF EndedLocally, ledger
    <3> QED BY <3>1 DEF LockInv, CursorInv, Reserving
  <2> QED BY <2>1, <2>2
<1>5. AnswersHonest'
  <2>1. \A d \in Calls : pc'[d] = "start" => pc[d] = "start"
    BY <1>0 DEF EndedLocally
  <2>2. pc'[c] = answer
    BY DEF End, LockInv, TypeOK
  <2>3. \A d \in Calls : pc'[d] = "ok" /\ Kind[d] = "reserve"
          => pc[d] = "ok" \/ held[OrderOf[d]] = Demand[OrderOf[d]]
    BY <1>0, <2>2 DEF EndedLocally
  <2> QED BY <2>1, <2>3, HonestStep DEF LockInv, ledger
<1> QED BY <1>1, <1>2, <1>3, <1>4, <1>5 DEF LockInv

(* A call that goes from one statement to the next without a lock.         *)
LEMMA BeginStep ==
  ASSUME LockInv, NEW c \in Calls, BeginReserve(c) \/ BeginRelease(c) \/ ReadRecords(c)
  PROVE  LockInv'
<1>1. UNCHANGED <<ledger, next, locks, faults>>
  BY DEF BeginReserve, BeginRelease, ReadRecords, cursor
<1>2. /\ pc' \in [Calls -> {"start", "read", "lines", "ok", "error"}]
      /\ \A d \in Calls : d # c => pc'[d] = pc[d] /\ plan'[d] = plan[d]
      /\ pc[c] \in {"start", "read"} /\ pc'[c] \in {"read", "lines"}
      /\ Kind[c] = "reserve" => pc'[c] # "read"
  <2>1. CASE BeginReserve(c)
    BY <2>1 DEF LockInv, TypeOK, BeginReserve
  <2>2. CASE BeginRelease(c)
    BY <2>2 DEF LockInv, TypeOK, BeginRelease, cursor
  <2>3. CASE ReadRecords(c)
    BY <2>3 DEF LockInv, TypeOK, ReadRecords
  <2> QED BY <2>1, <2>2, <2>3
<1>3. /\ plan' \in [Calls -> Seq(Products)] /\ read' \in [Calls -> [Products -> Nat]]
      /\ Kind[c] = "reserve" /\ pc'[c] = "lines" => plan'[c] = Lines[OrderOf[c]]
  <2>1. CASE BeginReserve(c)
    BY <2>1, CallType DEF LockInv, TypeOK, BeginReserve
  <2>2. CASE BeginRelease(c)
    BY <2>2 DEF LockInv, TypeOK, BeginRelease, cursor
  <2>3. CASE ReadRecords(c)
    <3>1. PICK s \in Listings({p \in Products : held[OrderOf[c]][p] > 0}) :
            plan' = [plan EXCEPT ![c] = s]
      BY <2>3 DEF ReadRecords
    <3>2. s \in Seq(Products)
      BY ListingType
    <3>3. Kind[c] # "reserve"
      BY <2>3 DEF ReadRecords, LockInv, Reserving
    <3> QED BY <2>3, <3>1, <3>2, <3>3, CallType
            DEF LockInv, TypeOK, LedgerTypeOK, ReadRecords
  <2> QED BY <2>1, <2>2, <2>3
<1>4. TypeOK' /\ AllOrNothing' /\ Exclusive'
  BY <1>1, <1>2, <1>3 DEF LockInv, TypeOK, LedgerTypeOK, AllOrNothing, Exclusive, ledger
<1>5. locks[c] = {} /\ next[c] = 1
  BY <1>2 DEF LockInv, CursorInv
<1>6. ASSUME NEW d \in Calls PROVE CursorInv(d)' /\ Reserving(d)'
  <2>1. CASE d = c
    BY <1>1, <1>2, <1>3, <1>5, <2>1 DEF CursorInv, Reserving
  <2>2. CASE d # c
    BY <1>1, <1>2, <2>2 DEF LockInv, CursorInv, Reserving, ledger
  <2> QED BY <2>1, <2>2
<1>7. AnswersHonest'
  BY <1>1, <1>2, HonestStep DEF LockInv, ledger
<1> QED BY <1>4, <1>6, <1>7 DEF LockInv

(* A call that locks the row at its cursor.                                *)
LEMMA LockRowStep ==
  ASSUME LockInv, NEW c \in Calls, ReserveLine(c) \/ RestoreLine(c)
  PROVE  LockInv'
<1>1. AtLine(c) /\ ~ Blocked(c) /\ LockRow(c)
  BY DEF ReserveLine, RestoreLine
<1>2. Row(c) \in Products /\ next[c] \in 1..Len(plan[c])
  BY <1>1, RowType DEF LockInv
<1>3. \A d \in Calls : d # c => Row(c) \notin locks[d]
  BY <1>1 DEF Blocked, BlockedBy
<1>4. TypeOK'
  BY <1>1, <1>2 DEF LockInv, TypeOK, LockRow, ledger, LedgerTypeOK
<1>5. AllOrNothing'
  BY <1>1 DEF LockInv, AllOrNothing, LockRow, ledger
<1>6. Exclusive'
  BY <1>1, <1>3 DEF LockInv, TypeOK, Exclusive, LockRow
<1>7. ASSUME NEW d \in Calls PROVE CursorInv(d)'
  <2>1. CASE d = c
    <3>1. locks'[c] = locks[c] \cup {plan[c][next[c]]} /\ next'[c] = next[c] + 1
      BY <1>1 DEF LockInv, TypeOK, LockRow, Row
    <3>2. \A i \in 1..Len(plan[c]) : i < next[c] => plan[c][i] \in locks[c]
      BY DEF LockInv, CursorInv
    <3>3. next[c] \in Nat /\ Len(plan[c]) \in Nat /\ pc[c] = "lines"
      BY <1>1, <1>2 DEF LockInv, TypeOK, AtLine
    <3>4. \A i \in 1..Len(plan[c]) : i < next[c] + 1 => i < next[c] \/ i = next[c]
      BY <3>3
    <3>5. \A i \in 1..Len(plan[c]) : i < next'[c] => plan[c][i] \in locks'[c]
      BY <3>1, <3>2, <3>4
    <3> QED BY <1>1, <2>1, <3>3, <3>5 DEF CursorInv, LockRow
  <2>2. CASE d # c
    BY <1>1, <2>2 DEF LockInv, TypeOK, CursorInv, LockRow
  <2> QED BY <2>1, <2>2
<1>8. ASSUME NEW d \in Calls PROVE Reserving(d)'
  <2>1. CASE d = c /\ Kind[c] = "reserve"
    <3>1. ~ Refused(c)
      BY <2>1 DEF ReserveLine, RestoreLine
    <3>2. pc[c] = "lines" /\ plan[c] = Lines[OrderOf[c]]
      BY <1>1, <2>1 DEF AtLine, LockInv, Reserving
    <3>3. 0 < Demand[OrderOf[c]][Row(c)]
      BY <1>2, <3>2, CallType DEF Row
    <3>4. /\ Demand[OrderOf[c]][Row(c)] <= stock[Row(c)]
          /\ held[OrderOf[c]][Row(c)] = 0
      <4>1. /\ stock[Row(c)] \in Nat /\ held[OrderOf[c]][Row(c)] \in Nat
            /\ Demand[OrderOf[c]][Row(c)] \in Nat
        <5>1. stock \in [Products -> Nat] /\ held \in [Orders -> [Products -> Nat]]
          BY DEF LockInv, TypeOK, LedgerTypeOK
        <5> QED BY <5>1, <1>2, CallType
      <4>2. ~ (stock[Row(c)] < Demand[OrderOf[c]][Row(c)]) /\ ~ (held[OrderOf[c]][Row(c)] > 0)
        BY <3>1 DEF Refused
      <4> QED BY <4>1, <4>2
    <3>5. locks'[c] = locks[c] \cup {Row(c)}
      BY <1>1 DEF LockInv, TypeOK, LockRow
    <3> QED BY <1>1, <2>1, <3>3, <3>4, <3>5 DEF LockInv, Reserving, LockRow, ledger
  <2>2. CASE d = c /\ Kind[c] # "reserve"
    BY <2>2 DEF Reserving
  <2>3. CASE d # c
    BY <1>1, <2>3 DEF LockInv, TypeOK, Reserving, LockRow, ledger
  <2> QED BY <2>1, <2>2, <2>3
<1>9. AnswersHonest'
  BY <1>1, HonestStep DEF LockInv, LockRow, ledger
<1> QED BY <1>4, <1>5, <1>6, <1>7, <1>8, <1>9 DEF LockInv

(* A reserve that commits.                                                 *)
LEMMA InsertStep ==
  ASSUME LockInv, NEW c \in Calls, Kind[c] = "reserve", AllLinesDone(c), InsertRecords(c),
         faults' \in 0..MaxFaults, NEW answer \in {"ok", "error"}, End(c, answer)
  PROVE  LockInv'
<1> DEFINE o == OrderOf[c]
<1>1. EndedLocally(c)
  BY EndsLocally DEF LockInv
<1>2. /\ Reserve(o) \/ (locks[c] = {} /\ UNCHANGED ledger)
      /\ held'[o] = Demand[o]
      /\ locks[c] # {} => ~ Holds(o)
  BY InsertCommits
<1>3. o \in Orders /\ Demand[o] \in [Products -> Nat]
  BY CallType
<1>4. LedgerTypeOK' /\ AllOrNothing'
  <2>1. CASE Reserve(o)
    <3>1. stock' \in [Products -> Nat]
      BY <1>3, <2>1 DEF LockInv, TypeOK, LedgerTypeOK, Reserve, Sufficient
    <3> QED BY <1>3, <2>1, <3>1 DEF LockInv, TypeOK, LedgerTypeOK, AllOrNothing, Reserve
  <2>2. CASE UNCHANGED ledger
    BY <2>2 DEF LockInv, TypeOK, LedgerTypeOK, AllOrNothing, ledger
  <2> QED BY <1>2, <2>1, <2>2
<1>5. TypeOK' /\ Exclusive'
  BY <1>1, <1>4 DEF EndedLocally, LockInv, TypeOK, Exclusive
<1>6. ASSUME NEW d \in Calls PROVE CursorInv(d)'
  <2>1. CASE d = c
    BY <1>1, <2>1 DEF EndedLocally, CursorInv
  <2>2. CASE d # c
    <3>1. pc'[d] = pc[d] /\ plan'[d] = plan[d] /\ next'[d] = next[d] /\ locks'[d] = locks[d]
      BY <1>1, <2>2 DEF EndedLocally
    <3> QED BY <3>1 DEF LockInv, CursorInv
  <2> QED BY <2>1, <2>2
<1>7. ASSUME NEW d \in Calls PROVE Reserving(d)'
  <2>1. CASE d = c
    BY <1>1, <2>1 DEF EndedLocally, Reserving
  <2>2. CASE d # c
    <3>1. ASSUME NEW p \in locks[d]
          PROVE  stock'[p] = stock[p] /\ (Kind[d] = "reserve" => held'[OrderOf[d]][p] = held[OrderOf[d]][p])
      <4>1. p \notin locks[c] /\ p \in Products
        BY <2>2, <3>1 DEF LockInv, Exclusive, TypeOK
      <4>2. held'[o][p] = held[o][p]
        BY <1>3, <4>1 DEF InsertRecords, LockInv, TypeOK, LedgerTypeOK
      <4>3. \A q \in Orders : q # o => held'[q] = held[q]
        BY <1>3 DEF InsertRecords, LockInv, TypeOK, LedgerTypeOK
      <4>4. stock'[p] = stock[p]
        BY <4>1 DEF InsertRecords
      <4> QED BY <4>2, <4>3, <4>4, CallType
    <3> QED BY <1>1, <2>2, <3>1 DEF EndedLocally, LockInv, Reserving
  <2> QED BY <2>1, <2>2
<1>8. AnswersHonest'
  <2> SUFFICES ASSUME NEW d \in Calls, Kind[d] = "reserve", pc'[d] = "ok",
                      \A e \in Calls : Kind[e] = "release" /\ OrderOf[e] = OrderOf[d]
                                         => pc'[e] = "start"
               PROVE  held'[OrderOf[d]] = Demand[OrderOf[d]]
    BY DEF AnswersHonest
  <2>1. CASE OrderOf[d] = o
    BY <1>2, <2>1
  <2>2. CASE OrderOf[d] # o
    <3>1. pc[d] = "ok" /\ \A e \in Calls : pc'[e] = "start" => pc[e] = "start"
      BY <1>1, <2>2 DEF EndedLocally
    <3>2. held[OrderOf[d]] = Demand[OrderOf[d]]
      BY <3>1 DEF LockInv, AnswersHonest
    <3> QED BY <2>2, <3>2, CallType DEF InsertRecords, LockInv, TypeOK, LedgerTypeOK
  <2> QED BY <2>1, <2>2
<1> QED BY <1>4, <1>5, <1>6, <1>7, <1>8 DEF LockInv

(* A release that commits, also one that restores stock a second time.     *)
LEMMA DeleteStep ==
  ASSUME LockInv, NEW c \in Calls, Kind[c] = "release", AllLinesDone(c), DeleteRecords(c),
         faults' \in 0..MaxFaults, NEW answer \in {"ok", "error"}, End(c, answer)
  PROVE  LockInv'
<1> DEFINE o == OrderOf[c]
<1>1. EndedLocally(c)
  BY EndsLocally DEF LockInv
<1>2. o \in Orders /\ NoHold \in [Products -> Nat] /\ read[c] \in [Products -> Nat]
  BY CallType DEF LockInv, TypeOK, NoHold
<1>3. stock' \in [Products -> Nat]
  BY <1>2 DEF DeleteRecords, LockInv, TypeOK, LedgerTypeOK
<1>4. LedgerTypeOK' /\ AllOrNothing'
  BY <1>2, <1>3 DEF DeleteRecords, LockInv, TypeOK, LedgerTypeOK, AllOrNothing
<1>5. TypeOK' /\ Exclusive'
  BY <1>1, <1>4 DEF EndedLocally, LockInv, TypeOK, Exclusive
<1>6. ASSUME NEW d \in Calls PROVE CursorInv(d)'
  <2>1. CASE d = c
    BY <1>1, <2>1 DEF EndedLocally, CursorInv
  <2>2. CASE d # c
    <3>1. pc'[d] = pc[d] /\ plan'[d] = plan[d] /\ next'[d] = next[d] /\ locks'[d] = locks[d]
      BY <1>1, <2>2 DEF EndedLocally
    <3> QED BY <3>1 DEF LockInv, CursorInv
  <2> QED BY <2>1, <2>2
<1>7. ASSUME NEW d \in Calls PROVE Reserving(d)'
  <2>1. CASE d = c
    BY <1>1, <2>1 DEF EndedLocally, Reserving
  <2>2. CASE d # c
    <3>1. ASSUME NEW p \in locks[d], Kind[d] = "reserve"
          PROVE  stock'[p] = stock[p] /\ held'[OrderOf[d]][p] = 0
      <4>1. p \notin locks[c] /\ p \in Products
        BY <2>2, <3>1 DEF LockInv, Exclusive, TypeOK
      <4>2. held[OrderOf[d]][p] = 0
        BY <3>1 DEF LockInv, Reserving
      <4> QED BY <1>2, <4>1, <4>2, CallType DEF DeleteRecords, NoHold, LockInv, TypeOK, LedgerTypeOK
    <3> QED BY <1>1, <2>2, <3>1 DEF EndedLocally, LockInv, Reserving
  <2> QED BY <2>1, <2>2
<1>8. AnswersHonest'
  <2> SUFFICES ASSUME NEW d \in Calls, Kind[d] = "reserve", pc'[d] = "ok",
                      \A e \in Calls : Kind[e] = "release" /\ OrderOf[e] = OrderOf[d]
                                         => pc'[e] = "start"
               PROVE  held'[OrderOf[d]] = Demand[OrderOf[d]]
    BY DEF AnswersHonest
  <2>1. OrderOf[d] # o
    BY <1>1 DEF EndedLocally
  <2>2. pc[d] = "ok" /\ \A e \in Calls : pc'[e] = "start" => pc[e] = "start"
    BY <1>1, <2>1 DEF EndedLocally
  <2>3. held[OrderOf[d]] = Demand[OrderOf[d]]
    BY <2>2 DEF LockInv, AnswersHonest
  <2> QED BY <2>1, <2>3, CallType DEF DeleteRecords, LockInv, TypeOK, LedgerTypeOK
<1> QED BY <1>4, <1>5, <1>6, <1>7, <1>8 DEF LockInv

LEMMA LockInit == Init => LockInv
<1> SUFFICES ASSUME Init PROVE LockInv
  OBVIOUS
<1>1. NoHold \in [Products -> Nat] /\ << >> \in Seq(Products)
  BY DEF NoHold
<1>2. TypeOK
  BY <1>1, LedgerAssumption, CatalogAssumption DEF Init, LedgerInit, TypeOK, LedgerTypeOK
<1>3. AllOrNothing
  BY DEF Init, LedgerInit, AllOrNothing
<1>4. Exclusive /\ AnswersHonest
  BY DEF Init, Exclusive, AnswersHonest
<1>5. ASSUME NEW c \in Calls PROVE CursorInv(c) /\ Reserving(c)
  BY DEF Init, CursorInv, Reserving
<1> QED BY <1>2, <1>3, <1>4, <1>5 DEF LockInv

(* The step of one call, by what it does to the ledger.                    *)
LEMMA LockStep == LockInv /\ [Next]_vars => LockInv'
<1> SUFFICES ASSUME LockInv, [Next]_vars PROVE LockInv'
  OBVIOUS
<1>1. CASE UNCHANGED vars
  BY <1>1 DEF LockInv, TypeOK, LedgerTypeOK, AllOrNothing, Exclusive, CursorInv, Reserving,
              AnswersHonest, vars
<1>2. ASSUME NEW c \in Calls, AlreadyDone(c) PROVE LockInv'
  <2>1. Kind[c] = "reserve" => held[OrderOf[c]] = Demand[OrderOf[c]]
    BY <1>2, CallType DEF AlreadyDone, Holds, LockInv, AllOrNothing
  <2>2. UNCHANGED <<stock, held, faults>> /\ End(c, "ok")
    BY <1>2 DEF AlreadyDone, ledger
  <2> QED BY <2>1, <2>2, EndStep DEF LockInv, TypeOK, ledger
<1>3. ASSUME NEW c \in Calls, BeginReserve(c) \/ BeginRelease(c) \/ ReadRecords(c)
      PROVE  LockInv'
  BY <1>3, BeginStep
<1>4. ASSUME NEW c \in Calls, ReserveLine(c) \/ RestoreLine(c) PROVE LockInv'
  BY <1>4, LockRowStep
<1>5. ASSUME NEW c \in Calls, RefuseLine(c) \/ DeadlockVictim(c) \/ DBError(c) PROVE LockInv'
  <2>1. UNCHANGED ledger /\ End(c, "error") /\ faults' \in 0..MaxFaults
    BY <1>5, CatalogAssumption DEF RefuseLine, DeadlockVictim, DBError, ledger, LockInv, TypeOK
  <2> QED BY <2>1, EndStep
<1>6. ASSUME NEW c \in Calls, Commit(c) \/ CommitUnacknowledged(c) PROVE LockInv'
  <2>1. PICK answer \in {"ok", "error"} :
          /\ AllLinesDone(c) /\ End(c, answer) /\ faults' \in 0..MaxFaults
          /\ Effect(c) \/ (UNCHANGED ledger /\ answer = "error")
    BY <1>6, CatalogAssumption DEF Commit, CommitUnacknowledged, LockInv, TypeOK
  <2>2. CASE UNCHANGED ledger /\ answer = "error"
    BY <2>1, <2>2, EndStep
  <2>3. CASE Effect(c) /\ Kind[c] = "reserve"
    BY <2>1, <2>3, InsertStep DEF Effect
  <2>4. CASE Effect(c) /\ Kind[c] = "release"
    BY <2>1, <2>4, DeleteStep DEF Effect
  <2> QED BY <2>1, <2>2, <2>3, <2>4, CallType
<1> QED BY <1>1, <1>2, <1>3, <1>4, <1>5, <1>6 DEF Next, Step

-----------------------------------------------------------------------------
(* A release that has seen its order's reservation keeps it.               *)

(* While the reservations and the other calls stay, so does Releasing.     *)
LEMMA ReleasingKept ==
  ASSUME NEW d \in Calls, Releasing(d), held'[OrderOf[d]] = held[OrderOf[d]],
         pc'[d] = pc[d], plan'[d] = plan[d], read'[d] = read[d]
  PROVE  Releasing(d)'
  BY DEF Releasing, Remembers, Holds, NoHold

LEMMA ReleasingStep ==
  ASSUME OneRelease, CatalogInv, Next, NEW d \in Calls
  PROVE  Releasing(d)'
<1> SUFFICES ASSUME Kind[d] = "release" PROVE Releasing(d)'
  BY DEF Releasing
<1>1. PICK c \in Calls : Step(c) \/ CommitUnacknowledged(c) \/ DBError(c)
  BY DEF Next
<1>2. ASSUME d # c PROVE pc'[d] = pc[d] /\ plan'[d] = plan[d] /\ read'[d] = read[d]
  BY <1>1, <1>2 DEF Step, AlreadyDone, BeginReserve, BeginRelease, ReadRecords, ReserveLine,
       RefuseLine, RestoreLine, LockRow, Commit, DeadlockVictim, CommitUnacknowledged, DBError,
       End, cursor, CatalogInv, LockInv, TypeOK
<1>3. CASE UNCHANGED held /\ d # c
  BY <1>2, <1>3, ReleasingKept DEF CatalogInv
<1>4. CASE pc'[c] \in {"ok", "error"} /\ d = c
  BY <1>4 DEF Releasing
<1>5. CASE BeginReserve(c) \/ BeginRelease(c)
  <2>1. CASE d = c
    <3>1. Holds(OrderOf[d]) /\ held' = held /\ pc'[d] = "read"
      BY <1>5, <2>1 DEF BeginReserve, BeginRelease, ledger, CatalogInv, LockInv, TypeOK
    <3> QED BY <3>1 DEF Releasing, Remembers, Holds, NoHold
  <2>2. CASE d # c
    BY <1>3, <1>5, <2>2 DEF BeginReserve, BeginRelease, ledger
  <2> QED BY <2>1, <2>2
<1>6. CASE ReadRecords(c)
  <2>1. CASE d = c
    <3> DEFINE records == {p \in Products : held[OrderOf[d]][p] > 0}
    <3>1. PICK s \in Listings(records) : plan'[d] = s
      BY <1>6, <2>1 DEF ReadRecords, CatalogInv, LockInv, TypeOK
    <3>2. /\ held' = held /\ pc'[d] = "lines" /\ read'[d] = held[OrderOf[d]]
          /\ pc[d] = "read"
      BY <1>6, <2>1 DEF ReadRecords, CatalogInv, LockInv, TypeOK, ledger
    <3>3. Holds(OrderOf[d])
      BY <3>2 DEF CatalogInv, Releasing
    <3>4. \A p \in records : \E i \in 1..Len(s) : s[i] = p
      <4>1. records \in SUBSET Products
        OBVIOUS
      <4> HIDE DEF records
      <4> QED BY <4>1, ListingType
    <3> QED BY <3>1, <3>2, <3>3, <3>4 DEF Releasing, Remembers, Holds, NoHold
  <2>2. CASE d # c
    BY <1>3, <1>6, <2>2 DEF ReadRecords, ledger
  <2> QED BY <2>1, <2>2
<1>7. CASE ReserveLine(c) \/ RestoreLine(c)
  <2>1. held' = held /\ pc' = pc /\ plan' = plan /\ read' = read
    BY <1>7 DEF ReserveLine, RestoreLine, LockRow, ledger
  <2> QED BY <2>1, ReleasingKept DEF CatalogInv
<1>8. CASE AlreadyDone(c) \/ RefuseLine(c) \/ DeadlockVictim(c) \/ DBError(c)
  <2>1. held' = held /\ pc'[c] \in {"ok", "error"}
    BY <1>8 DEF AlreadyDone, RefuseLine, DeadlockVictim, DBError, ledger, End,
                CatalogInv, LockInv, TypeOK
  <2> QED BY <1>3, <1>4, <2>1
<1>9. CASE Commit(c) \/ CommitUnacknowledged(c)
  <2>1. /\ AllLinesDone(c) /\ pc'[c] \in {"ok", "error"}
        /\ Effect(c) \/ UNCHANGED ledger
    BY <1>9 DEF Commit, CommitUnacknowledged, End, CatalogInv, LockInv, TypeOK
  <2>2. CASE d # c /\ UNCHANGED ledger
    BY <1>3, <2>2 DEF ledger
  <2>3. CASE d # c /\ Kind[c] = "reserve" /\ InsertRecords(c) /\ OrderOf[c] = OrderOf[d]
    <3>1. CASE Holds(OrderOf[d])
      BY <1>3, <2>1, <2>3, <3>1, InsertCommits DEF CatalogInv, ledger, Reserve
    <3>2. CASE ~ Holds(OrderOf[d])
      BY <1>2, <2>3, <3>2 DEF CatalogInv, Releasing
    <3> QED BY <3>1, <3>2
  <2>4. CASE d # c /\ (InsertRecords(c) \/ DeleteRecords(c)) /\ OrderOf[c] # OrderOf[d]
    <3>1. held'[OrderOf[d]] = held[OrderOf[d]]
      BY <2>4, CallType DEF InsertRecords, DeleteRecords, CatalogInv, LockInv, TypeOK, LedgerTypeOK
    <3> QED BY <1>2, <2>4, <3>1, ReleasingKept DEF CatalogInv
  <2>5. d # c /\ OrderOf[c] = OrderOf[d] => Kind[c] = "reserve"
    BY CallType DEF OneRelease
  <2> QED BY <1>4, <2>1, <2>2, <2>3, <2>4, <2>5 DEF Effect
<1> QED BY <1>1, <1>5, <1>6, <1>7, <1>8, <1>9 DEF Step

(* Every step is a step of the ledger, or leaves it alone.                 *)
LEMMA StepOfCatalog == CatalogInv /\ [Next]_vars => [LedgerNext]_ledger
<1> SUFFICES ASSUME CatalogInv, [Next]_vars PROVE [LedgerNext]_ledger
  OBVIOUS
<1>1. CASE UNCHANGED vars
  BY <1>1 DEF vars, ledger
<1>2. ASSUME NEW c \in Calls, AllLinesDone(c), Effect(c) PROVE [LedgerNext]_ledger
  <2>1. CASE Kind[c] = "reserve"
    BY <1>2, <2>1, InsertCommits, CallType DEF Effect, CatalogInv, LedgerNext
  <2>2. CASE Kind[c] = "release"
    BY <1>2, <2>2, DeleteCommits, CallType DEF Effect, LedgerNext
  <2> QED BY <2>1, <2>2, CallType
<1>3. ASSUME NEW c \in Calls, Step(c) \/ CommitUnacknowledged(c) \/ DBError(c)
      PROVE  UNCHANGED ledger \/ (AllLinesDone(c) /\ Effect(c))
  BY <1>3 DEF Step, AlreadyDone, BeginReserve, BeginRelease, ReadRecords, ReserveLine, RefuseLine,
       RestoreLine, LockRow, Commit, DeadlockVictim, CommitUnacknowledged, DBError
<1> QED BY <1>1, <1>2, <1>3 DEF Next

-----------------------------------------------------------------------------
(* Waiting for one another.                                                *)

(* Where everybody in a finite set waits for somebody in it, some of them  *)
(* wait in a circle: a least set like that has nobody nobody waits for.    *)
LEMMA WaitingCircle ==
  ASSUME NEW U, IsFiniteSet(U), U # {}, NEW R, \A c \in U : \E d \in U : <<c, d>> \in R
  PROVE  \E S \in SUBSET U :
           /\ S # {}
           /\ \A c \in S : \E d \in S : <<c, d>> \in R
           /\ \A d \in S : \E c \in S : <<c, d>> \in R
<1> DEFINE Closed == {S \in SUBSET U : S # {} /\ \A c \in S : \E d \in S : <<c, d>> \in R}
<1>1. IsWellFoundedOn(StrictSubsetOrdering(U), SUBSET U)
  BY FS_StrictSubsetOrderingWellFounded, FS_FiniteSubsetsOfFinite
<1>2. U \in Closed /\ Closed \subseteq SUBSET U
  OBVIOUS
<1>3. PICK S \in Closed : \A T \in Closed : ~ (<<T, S>> \in StrictSubsetOrdering(U))
  <2> HIDE DEF Closed
  <2> QED BY <1>1, <1>2, WFMin
<1>4. ASSUME NEW d \in S PROVE \E c \in S : <<c, d>> \in R
  <2> SUFFICES ASSUME \A c \in S : <<c, d>> \notin R PROVE FALSE
    OBVIOUS
  <2>1. PICK e \in S : <<d, e>> \in R
    BY <1>4
  <2>2. e # d
    BY <2>1
  <2>3. S \ {d} \in Closed
    BY <2>1, <2>2
  <2>4. <<S \ {d}, S>> \in StrictSubsetOrdering(U)
    BY <1>4 DEF StrictSubsetOrdering
  <2> QED BY <1>3, <2>3, <2>4
<1> QED BY <1>4

LEMMA SomeCallMovesOK ==
  ASSUME LockInv, IsFiniteSet(Calls)
  PROVE  SomeCallMoves
<1> DEFINE underway == {c \in Calls : pc[c] \notin {"ok", "error"}}
           waits == {w \in Calls \X Calls : BlockedBy(w[1], w[2])}
<1> SUFFICES ASSUME underway # {}, \A c \in underway : Blocked(c)
             PROVE  \E c \in underway : \E S \in SUBSET Calls : c \in S /\ Deadlocked(S)
  BY DEF SomeCallMoves
<1>1. ASSUME NEW c \in Calls, NEW d \in Calls, BlockedBy(c, d) PROVE d \in underway
  BY <1>1 DEF BlockedBy, LockInv, CursorInv
<1>2. \A c \in underway : \E d \in underway : <<c, d>> \in waits
  BY <1>1 DEF Blocked
<1>3. IsFiniteSet(underway)
  BY FS_Subset
<1>4. PICK S \in SUBSET underway :
        /\ S # {}
        /\ \A c \in S : \E d \in S : <<c, d>> \in waits
        /\ \A d \in S : \E c \in S : <<c, d>> \in waits
  <2> HIDE DEF underway, waits
  <2> QED BY <1>2, <1>3, WaitingCircle
<1>5. Deadlocked(S)
  BY <1>4 DEF Deadlocked
<1> QED BY <1>4, <1>5

-----------------------------------------------------------------------------
(* The locking discipline holds whatever the calls are.                    *)
THEOREM CatalogLocking == Spec => []LockInv
  BY LockInit, LockStep, PTL DEF Spec

(* The variables of the repository keep their types.                       *)
THEOREM CatalogTypeOK == Spec => []TypeOK
<1>1. LockInv => TypeOK
  BY DEF LockInv
<1> QED BY <1>1, CatalogLocking, PTL

(* A ReserveStock that answers success has reserved the order, also with   *)
(* duplicate calls, errors, lost acknowledgements and deadlocks.           *)
THEOREM CatalogAnswersHonest == Spec => []AnswersHonest
<1>1. LockInv => AnswersHonest
  BY DEF LockInv
<1> QED BY <1>1, CatalogLocking, PTL

(* ReserveStock and ReleaseStock lock rows in the order of their requests; *)
(* whatever these are, one of the calls can always go on or is aborted.    *)
THEOREM CatalogNeverHalts == IsFiniteSet(Calls) => (Spec => []SomeCallMoves)
<1> SUFFICES ASSUME IsFiniteSet(Calls) PROVE Spec => []SomeCallMoves
  OBVIOUS
<1>1. LockInv => SomeCallMoves
  BY SomeCallMovesOK
<1> QED BY <1>1, CatalogLocking, PTL

LEMMA CatalogInvariant == OneRelease => (Spec => []CatalogInv)
<1> SUFFICES ASSUME OneRelease PROVE Spec => []CatalogInv
  OBVIOUS
<1>1. Init => CatalogInv
  BY LockInit DEF CatalogInv, Init, Releasing
<1>2. CatalogInv /\ [Next]_vars => CatalogInv'
  <2> SUFFICES ASSUME CatalogInv, [Next]_vars PROVE CatalogInv'
    OBVIOUS
  <2>1. LockInv'
    BY LockStep DEF CatalogInv
  <2>2. CASE Next
    BY <2>1, <2>2, ReleasingStep DEF CatalogInv
  <2>3. CASE UNCHANGED vars
    BY <2>1, <2>3, ReleasingKept DEF CatalogInv, vars
  <2> QED BY <2>2, <2>3
<1> QED BY <1>1, <1>2, PTL DEF Spec

(* The repository implements the stock ledger, provided that no order is   *)
(* released by two calls.                                                  *)
THEOREM CatalogImplementsLedger == OneRelease => (Spec => ImplementsLedger)
<1> SUFFICES ASSUME OneRelease PROVE Spec => ImplementsLedger
  OBVIOUS
<1>1. Spec => []CatalogInv
  BY CatalogInvariant
<1>2. Init => LedgerInit
  BY DEF Init
<1> QED BY <1>1, <1>2, StepOfCatalog, PTL DEF Spec, ImplementsLedger, LedgerSpec
-----------------------------------------------------------------------------
(* An order that is released twice.  Stock may then be given back twice;   *)
(* it is never lost, as long as the order is reserved by one call.  A      *)
(* release begins after the reserve has ended; so what the order holds can *)
(* only vanish from then on, and while it is there the release knows it.   *)

(* No order is reserved by two calls.                                      *)
OneReservation ==
  \A c, d \in Calls :
    Kind[c] = "reserve" /\ Kind[d] = "reserve" /\ OrderOf[c] = OrderOf[d] => c = d

(* Of no product are there fewer units than at the start.                  *)
StockNotLost == \A p \in Products : stock[p] + HeldUnits(p) >= InitStock[p]

AfterReserve(o) ==
  \A c \in Calls : Kind[c] = "reserve" /\ OrderOf[c] = o => pc[c] \in {"ok", "error"}

Recalling(c) ==
  Kind[c] = "release" /\ pc[c] \in {"read", "lines"} =>
    /\ AfterReserve(OrderOf[c])
    /\ pc[c] = "lines" /\ Holds(OrderOf[c]) => Remembers(c)

NotLostInv ==
  /\ LockInv
  /\ \A o \in Orders : Holds(o) => AfterReserve(o)
  /\ \A c \in Calls : Recalling(c)
  /\ StockNotLost

(* A step is one call's, and only a commit changes the ledger.             *)
StepOf(c) ==
  /\ pc[c] \notin {"ok", "error"}
  /\ \A d \in Calls : d # c => pc'[d] = pc[d] /\ plan'[d] = plan[d] /\ read'[d] = read[d]
  /\ \/ UNCHANGED ledger
     \/ AllLinesDone(c) /\ Effect(c) /\ pc'[c] \in {"ok", "error"}

LEMMA StepIsLocal ==
  ASSUME TypeOK, NEW c \in Calls, Step(c) \/ CommitUnacknowledged(c) \/ DBError(c)
  PROVE  StepOf(c)
<1>1. CASE AlreadyDone(c) \/ RefuseLine(c) \/ DeadlockVictim(c) \/ DBError(c)
  <2>1. UNCHANGED ledger /\ \E answer \in {"ok", "error"} : End(c, answer)
    BY <1>1 DEF AlreadyDone, RefuseLine, DeadlockVictim, DBError, ledger
  <2>2. pc[c] \in {"start", "read", "lines"}
    BY <1>1 DEF AlreadyDone, RefuseLine, DeadlockVictim, DBError, AtLine, Deadlocked, BlockedBy
  <2> QED BY <2>1, <2>2 DEF StepOf, End, TypeOK
<1>2. CASE BeginReserve(c) \/ BeginRelease(c) \/ ReadRecords(c)
  BY <1>2 DEF StepOf, BeginReserve, BeginRelease, ReadRecords, cursor, TypeOK
<1>3. CASE ReserveLine(c) \/ RestoreLine(c)
  BY <1>3 DEF StepOf, ReserveLine, RestoreLine, LockRow, AtLine
<1>4. CASE Commit(c) \/ CommitUnacknowledged(c)
  <2>1. AllLinesDone(c) /\ (Effect(c) \/ UNCHANGED ledger)
    BY <1>4 DEF Commit, CommitUnacknowledged
  <2>2. \E answer \in {"ok", "error"} : End(c, answer)
    BY <1>4 DEF Commit, CommitUnacknowledged
  <2> QED BY <2>1, <2>2 DEF StepOf, End, TypeOK, AllLinesDone
<1> QED BY <1>1, <1>2, <1>3, <1>4 DEF Step

(* What a call does to the ledger when its commit takes effect.            *)
LEMMA EffectOf ==
  ASSUME NotLostInv, NEW c \in Calls, AllLinesDone(c), Effect(c)
  PROVE  \/ UNCHANGED ledger
         \/ Kind[c] = "reserve" /\ Reserve(OrderOf[c])
         \/ Kind[c] = "release" /\ Release(OrderOf[c])
         \/ /\ Kind[c] = "release" /\ UNCHANGED held
            /\ \A p \in Products : stock'[p] >= stock[p]
<1>1. CASE Kind[c] = "reserve"
  BY <1>1, InsertCommits DEF NotLostInv, Effect
<1>2. CASE Kind[c] = "release" /\ Holds(OrderOf[c])
  BY <1>2, DeleteGivesBack DEF NotLostInv, Effect, Recalling, AllLinesDone
<1>3. CASE Kind[c] = "release" /\ ~ Holds(OrderOf[c])
  <2>1. LedgerTypeOK /\ read[c] \in [Products -> Nat] /\ OrderOf[c] \in Orders
    BY CallType DEF NotLostInv, LockInv, TypeOK
  <2>2. UNCHANGED held
    BY <1>3, <2>1 DEF Effect, DeleteRecords, Holds, LedgerTypeOK
  <2>3. \A p \in Products : stock'[p] >= stock[p]
    BY <1>3, <2>1 DEF Effect, DeleteRecords, LedgerTypeOK
  <2> QED BY <1>3, <2>2, <2>3
<1> QED BY <1>1, <1>2, <1>3, CallType

LEMMA NotLostStep ==
  ASSUME NotLostInv, [Next]_vars
  PROVE  StockNotLost'
<1> SUFFICES ASSUME NEW p \in Products PROVE stock'[p] + HeldUnits(p)' >= InitStock[p]
  BY DEF StockNotLost
<1>1. /\ stock[p] + HeldUnits(p) >= InitStock[p] /\ LedgerTypeOK /\ LedgerTypeOK'
      /\ stock[p] \in Nat /\ stock'[p] \in Nat /\ HeldUnits(p) \in Int /\ InitStock[p] \in Nat
  <2>1. LedgerTypeOK /\ LedgerTypeOK'
    BY LockStep DEF NotLostInv, LockInv, TypeOK
  <2> QED BY <2>1, HeldUnitsType, LedgerAssumption DEF NotLostInv, StockNotLost, LedgerTypeOK
<1>2. CASE UNCHANGED ledger
  BY <1>1, <1>2 DEF ledger, HeldUnits
<1>3. ASSUME NEW o \in Orders, Reserve(o)
      PROVE  stock'[p] + HeldUnits(p)' = stock[p] + HeldUnits(p)
  <2>1. HeldUnits(p)' = HeldUnits(p) + Demand[o][p] - held[o][p]
    BY <1>1, <1>3, HeldUnitsUpdate, LedgerAssumption DEF Reserve, LedgerTypeOK
  <2>2. held[o][p] = 0 /\ stock'[p] = stock[p] - Demand[o][p] /\ Demand[o][p] \in Nat
    BY <1>3, LedgerAssumption DEF Reserve, Holds, NoHold
  <2> QED BY <1>1, <2>1, <2>2
<1>4. ASSUME NEW o \in Orders, Release(o)
      PROVE  stock'[p] + HeldUnits(p)' = stock[p] + HeldUnits(p)
  <2>1. NoHold \in [Products -> Nat] /\ NoHold[p] = 0
    BY DEF NoHold
  <2>2. HeldUnits(p)' = HeldUnits(p) + NoHold[p] - held[o][p]
    BY <1>1, <1>4, <2>1, HeldUnitsUpdate DEF Release, LedgerTypeOK
  <2>3. stock'[p] = stock[p] + held[o][p] /\ held[o][p] \in Nat
    BY <1>1, <1>4 DEF Release, LedgerTypeOK
  <2> QED BY <1>1, <2>1, <2>2, <2>3
<1>5. CASE UNCHANGED held /\ stock'[p] >= stock[p]
  <2>1. HeldUnits(p)' = HeldUnits(p)
    BY <1>5 DEF HeldUnits
  <2> QED BY <1>1, <1>5, <2>1
<1>6. ASSUME NEW c \in Calls, StepOf(c)
      PROVE  \/ UNCHANGED ledger
             \/ \E o \in Orders : Reserve(o) \/ Release(o)
             \/ UNCHANGED held /\ stock'[p] >= stock[p]
  BY <1>6, EffectOf, CallType DEF StepOf
<1>7. UNCHANGED ledger \/ \E c \in Calls : StepOf(c)
  BY StepIsLocal DEF Next, NotLostInv, LockInv, vars, ledger
<1> QED BY <1>1, <1>2, <1>3, <1>4, <1>5, <1>6, <1>7

(* Once a reserve has ended, it stays so.                                  *)
LEMMA AfterReserveStays ==
  ASSUME NEW c \in Calls, StepOf(c), NEW o \in Orders, AfterReserve(o)
  PROVE  AfterReserve(o)'
  BY DEF StepOf, AfterReserve

(* An order's holding grows by the commit of its own reserve only.         *)
LEMMA HoldsStep ==
  ASSUME NotLostInv, OneReservation, NEW c \in Calls, StepOf(c), NEW o \in Orders, Holds(o)'
  PROVE  /\ AfterReserve(o)'
         /\ AfterReserve(o) => held'[o] = held[o]
<1>1. CASE UNCHANGED held
  BY <1>1, AfterReserveStays DEF NotLostInv, Holds, NoHold
<1>2. CASE AllLinesDone(c) /\ Kind[c] = "reserve" /\ Reserve(OrderOf[c]) /\ pc'[c] \in {"ok", "error"}
  <2>1. CASE OrderOf[c] = o
    <3>1. AfterReserve(o)'
      BY <1>2, <2>1 DEF OneReservation, AfterReserve
    <3>2. ~ AfterReserve(o)
      BY <1>2, <2>1 DEF AfterReserve, AllLinesDone
    <3> QED BY <3>1, <3>2
  <2>2. CASE OrderOf[c] # o
    <3>1. held'[o] = held[o]
      BY <1>2, <2>2 DEF Reserve, NotLostInv, LockInv, TypeOK, LedgerTypeOK
    <3> QED BY <3>1, AfterReserveStays DEF NotLostInv, Holds, NoHold
  <2> QED BY <2>1, <2>2
<1>3. CASE Release(OrderOf[c])
  <2>1. held'[o] = held[o]
    BY <1>3 DEF Release, NotLostInv, LockInv, TypeOK, LedgerTypeOK, Holds, NoHold
  <2> QED BY <2>1, AfterReserveStays DEF NotLostInv, Holds, NoHold
<1> QED BY <1>1, <1>2, <1>3, EffectOf DEF StepOf, ledger

LEMMA RecallingStep ==
  ASSUME NotLostInv, OneReservation, NEW c \in Calls,
         Step(c) \/ CommitUnacknowledged(c) \/ DBError(c), NEW d \in Calls
  PROVE  Recalling(d)'
<1> SUFFICES ASSUME Kind[d] = "release", pc'[d] \in {"read", "lines"} PROVE Recalling(d)'
  BY DEF Recalling
<1>1. StepOf(c) /\ OrderOf[d] \in Orders
  BY StepIsLocal, CallType DEF NotLostInv, LockInv
<1>2. CASE d # c
  <2>1. pc'[d] = pc[d] /\ plan'[d] = plan[d] /\ read'[d] = read[d] /\ AfterReserve(OrderOf[d])
    BY <1>1, <1>2 DEF StepOf, NotLostInv, Recalling
  <2>2. AfterReserve(OrderOf[d])'
    BY <1>1, <2>1, AfterReserveStays
  <2>3. Holds(OrderOf[d])' => held'[OrderOf[d]] = held[OrderOf[d]]
    BY <1>1, <2>1, HoldsStep
  <2> QED BY <2>1, <2>2, <2>3 DEF NotLostInv, Recalling, Remembers, Holds, NoHold
<1>3. CASE d = c
  <2>1. CASE BeginRelease(c)
    <3>1. AfterReserve(OrderOf[d]) /\ pc'[d] = "read"
      BY <1>1, <1>3, <2>1 DEF BeginRelease, NotLostInv, LockInv, TypeOK
    <3> QED BY <1>1, <3>1, AfterReserveStays DEF Recalling
  <2>2. CASE ReadRecords(c)
    <3>1. AfterReserve(OrderOf[d])'
      BY <1>1, <1>3, <2>2, AfterReserveStays DEF ReadRecords, NotLostInv, Recalling
    <3> DEFINE records == {p \in Products : held[OrderOf[d]][p] > 0}
    <3>2. PICK s \in Listings(records) : plan'[d] = s
      BY <1>3, <2>2 DEF ReadRecords, NotLostInv, LockInv, TypeOK
    <3>3. held' = held /\ read'[d] = held[OrderOf[d]]
      BY <1>3, <2>2 DEF ReadRecords, NotLostInv, LockInv, TypeOK, ledger
    <3>4. \A p \in records : \E i \in 1..Len(s) : s[i] = p
      <4>1. records \in SUBSET Products
        OBVIOUS
      <4> HIDE DEF records
      <4> QED BY <4>1, ListingType
    <3> QED BY <3>1, <3>2, <3>3, <3>4 DEF Recalling, Remembers, Holds, NoHold
  <2>3. CASE RestoreLine(c)
    <3>1. UNCHANGED <<held, pc, plan, read>>
      BY <2>3 DEF RestoreLine, LockRow, ledger
    <3> QED BY <3>1 DEF NotLostInv, Recalling, Remembers, AfterReserve, Holds, NoHold
  <2> QED BY <1>3, <2>1, <2>2, <2>3
          DEF Step, AlreadyDone, BeginReserve, ReserveLine, RefuseLine, Commit, DeadlockVictim,
              CommitUnacknowledged, DBError, End, NotLostInv, LockInv, TypeOK
<1> QED BY <1>2, <1>3

LEMMA NotLostInductive ==
  ASSUME OneReservation, NotLostInv, [Next]_vars
  PROVE  NotLostInv'
<1>1. LockInv' /\ StockNotLost'
  BY LockStep, NotLostStep DEF NotLostInv
<1>2. CASE Next
  <2>1. PICK c \in Calls : Step(c) \/ CommitUnacknowledged(c) \/ DBError(c)
    BY <1>2 DEF Next
  <2>2. StepOf(c)
    BY <2>1, StepIsLocal DEF NotLostInv, LockInv
  <2>3. \A o \in Orders : Holds(o)' => AfterReserve(o)'
    BY <2>2, HoldsStep
  <2>4. \A d \in Calls : Recalling(d)'
    BY <2>1, RecallingStep
  <2> QED BY <1>1, <2>3, <2>4 DEF NotLostInv
<1>3. CASE UNCHANGED vars
  <2>1. \A o \in Orders : (Holds(o) => AfterReserve(o))'
    BY <1>3 DEF NotLostInv, Holds, NoHold, AfterReserve, vars
  <2>2. \A d \in Calls : Recalling(d)'
    BY <1>3 DEF NotLostInv, Recalling, Remembers, AfterReserve, Holds, NoHold, vars
  <2> QED BY <1>1, <2>1, <2>2 DEF NotLostInv
<1> QED BY <1>2, <1>3

(* ReleaseStock delivered twice may give stock back twice, but no unit is  *)
(* ever lost, provided that no order is reserved by two calls.             *)
THEOREM CatalogLosesNoStock == OneReservation => (Spec => []StockNotLost)
<1> SUFFICES ASSUME OneReservation PROVE Spec => []StockNotLost
  OBVIOUS
<1>1. Init => NotLostInv
  <2> SUFFICES ASSUME Init PROVE NotLostInv
    OBVIOUS
  <2>1. LockInv /\ LedgerInv
    BY LockInit, InitEstablishes DEF Init
  <2>2. StockNotLost
    BY <2>1, HeldUnitsType, LedgerAssumption DEF LedgerInv, StockConserved, StockNotLost, LedgerTypeOK
  <2>3. \A o \in Orders : ~ Holds(o)
    BY DEF Init, LedgerInit, Holds
  <2>4. \A c \in Calls : Recalling(c)
    BY DEF Init, Recalling
  <2> QED BY <2>1, <2>2, <2>3, <2>4 DEF NotLostInv
<1>2. NotLostInv /\ [Next]_vars => NotLostInv'
  BY NotLostInductive
<1>3. NotLostInv => StockNotLost
  BY DEF NotLostInv
<1> QED BY <1>1, <1>2, <1>3, PTL DEF Spec
=============================================================================
