------------------------ MODULE PaymentServiceProofs -----------------------
(***************************************************************************)
(* The payment service implements the payment ledger, for any calls, keys  *)
(* and errors.  What makes the unconditional refund safe is that a row, of *)
(* which some call has seen AUTHORIZED, can only be refunded afterwards:   *)
(* the unique key keeps every later insert out (RowFollows, CallInv).      *)
(***************************************************************************)
EXTENDS PaymentService, TLAPS

Settled == {"DECLINED", "REFUNDED"}

(* What a call between two statements knows of its order's row, and what   *)
(* an answer says about it.                                                *)
CallInv(c) ==
  /\ pc[c] = "insert" => Kind[c] = "process" /\ Verdict[c] # "INVALID"
  /\ pc[c] = "reread" => Row(c) # "none"
  /\ pc[c] = "update" => Kind[c] = "cancel" /\ Row(c) \in {"AUTHORIZED", "REFUNDED"}
  /\ answer[c] = "AUTHORIZED" => Row(c) \in {"AUTHORIZED", "REFUNDED"}
  /\ answer[c] = "DECLINED" => Row(c) = "DECLINED"
  /\ Kind[c] = "cancel" /\ answer[c] = "success" /\ seen[c] # "none" => Row(c) \in Settled

PaymentInv == TypeOK /\ \A c \in Calls : CallInv(c)

(* How the row of an order may change.                                     *)
RowFollows(k) ==
  \/ payment'[k] = payment[k]
  \/ payment[k] = "none" /\ payment'[k] \in Ledger!Decisions
  \/ payment[k] \in {"AUTHORIZED", "REFUNDED"} /\ payment'[k] = "REFUNDED"

-----------------------------------------------------------------------------
LEMMA InitInv == Init => PaymentInv
  BY PaymentAssumption DEF Init, PaymentInv, TypeOK, CallInv, Ledger!Init, Ledger!TypeOK,
     Ledger!PaymentStatuses, Ledger!Decisions

LEMMA StepTypeOK == PaymentInv /\ [Next]_vars => TypeOK'
<1> SUFFICES ASSUME PaymentInv, [Next]_vars PROVE TypeOK'
  OBVIOUS
<1> USE PaymentAssumption DEF PaymentInv, TypeOK, Ledger!TypeOK, Ledger!PaymentStatuses,
        Ledger!Decisions, Row, SetRow, Look, Goto, Return
<1>1. CASE UNCHANGED vars
  BY <1>1 DEF vars
<1>2. ASSUME NEW c \in Calls, RefuseAmount(c) PROVE TypeOK'
  BY <1>2 DEF RefuseAmount
<1>3. ASSUME NEW c \in Calls, Lookup(c) PROVE TypeOK'
  BY <1>3 DEF Lookup
<1>4. ASSUME NEW c \in Calls, Insert(c) PROVE TypeOK'
  BY <1>4 DEF Insert, CallInv
<1>5. ASSUME NEW c \in Calls, Duplicate(c) PROVE TypeOK'
  BY <1>5 DEF Duplicate
<1>6. ASSUME NEW c \in Calls, Reread(c) PROVE TypeOK'
  BY <1>6 DEF Reread, CallInv
<1>7. ASSUME NEW c \in Calls, FindToCancel(c) PROVE TypeOK'
  BY <1>7 DEF FindToCancel
<1>8. ASSUME NEW c \in Calls, Refund(c) PROVE TypeOK'
  BY <1>8 DEF Refund
<1>9. ASSUME NEW c \in Calls, DBError(c) PROVE TypeOK'
  BY <1>9 DEF DBError, CallInv
<1> QED BY <1>1, <1>2, <1>3, <1>4, <1>5, <1>6, <1>7, <1>8, <1>9 DEF Next, Process, CancelPayment

(* Every step follows the life of a payment.                               *)
LEMMA StepRows == PaymentInv /\ [Next]_vars => \A k \in Keys : RowFollows(k)
<1> SUFFICES ASSUME PaymentInv, [Next]_vars, NEW k \in Keys PROVE RowFollows(k)
  OBVIOUS
<1> USE PaymentAssumption DEF RowFollows
<1>1. CASE UNCHANGED payment
  BY <1>1
<1>2. ASSUME NEW c \in Calls, Kind[c] = "process", Verdict[c] # "INVALID", Row(c) = "none",
             SetRow(c, Verdict[c])
      PROVE  RowFollows(k)
  BY <1>2 DEF PaymentInv, TypeOK, Ledger!TypeOK, Ledger!Decisions, Row, SetRow
<1>3. ASSUME NEW c \in Calls, pc[c] = "update", SetRow(c, "REFUNDED") PROVE RowFollows(k)
  BY <1>3 DEF PaymentInv, TypeOK, Ledger!TypeOK, CallInv, Row, SetRow
<1>4. ASSUME NEW c \in Calls, Insert(c) \/ Refund(c) \/ DBError(c) PROVE RowFollows(k)
  BY <1>1, <1>2, <1>3, <1>4 DEF Insert, Refund, DBError, PaymentInv, CallInv
<1>5. ASSUME NEW c \in Calls,
             RefuseAmount(c) \/ Lookup(c) \/ Duplicate(c) \/ Reread(c) \/ FindToCancel(c)
      PROVE  UNCHANGED payment
  BY <1>5 DEF RefuseAmount, Lookup, Duplicate, Reread, FindToCancel
<1> QED BY <1>1, <1>4, <1>5 DEF Next, Process, CancelPayment, vars

(* What a call knows stays true while others change the row.               *)
LEMMA KnowledgeKept ==
  ASSUME NEW c \in Calls, CallInv(c), RowFollows(OrderOf[c]),
         pc'[c] = pc[c], seen'[c] = seen[c], answer'[c] = answer[c]
  PROVE  CallInv(c)'
  BY DEF CallInv, RowFollows, Row, Settled, Ledger!Decisions

LEMMA StepCalls == PaymentInv /\ [Next]_vars => \A c \in Calls : CallInv(c)'
<1> SUFFICES ASSUME PaymentInv, [Next]_vars, NEW d \in Calls PROVE CallInv(d)'
  OBVIOUS
<1>1. RowFollows(OrderOf[d])
  BY StepRows, PaymentAssumption
<1>2. CASE UNCHANGED vars
  BY <1>1, <1>2, KnowledgeKept DEF vars, PaymentInv
<1>3. ASSUME NEW c \in Calls, Process(c) \/ CancelPayment(c) \/ DBError(c) PROVE CallInv(d)'
  <2>1. CASE d # c
    <3>1. pc'[d] = pc[d] /\ seen'[d] = seen[d] /\ answer'[d] = answer[d]
      BY <1>3, <2>1 DEF PaymentInv, TypeOK, Process, CancelPayment, DBError, RefuseAmount, Lookup,
           Insert, Duplicate, Reread, FindToCancel, Refund, Look, Goto, Return
    <3> QED BY <1>1, <3>1, KnowledgeKept DEF PaymentInv
  <2>2. CASE d = c
    <3> USE PaymentAssumption, <2>2 DEF PaymentInv, TypeOK, Ledger!TypeOK,
            Ledger!PaymentStatuses, Ledger!Decisions, CallInv, Row, SetRow, Look, Goto, Return,
            Settled
    <3>1. CASE RefuseAmount(c)
      BY <3>1 DEF RefuseAmount
    <3>2. CASE Lookup(c)
      BY <3>2 DEF Lookup
    <3>3. CASE Insert(c)
      BY <3>3 DEF Insert
    <3>4. CASE Duplicate(c)
      BY <3>4 DEF Duplicate
    <3>5. CASE Reread(c)
      BY <3>5 DEF Reread
    <3>6. CASE FindToCancel(c)
      BY <3>6 DEF FindToCancel
    <3>7. CASE Refund(c)
      BY <3>7 DEF Refund
    <3>8. CASE DBError(c)
      BY <3>8 DEF DBError
    <3> QED BY <1>3, <3>1, <3>2, <3>3, <3>4, <3>5, <3>6, <3>7, <3>8 DEF Process, CancelPayment
  <2> QED BY <2>1, <2>2
<1> QED BY <1>2, <1>3 DEF Next

(* The inductive invariant of the service.                                 *)
THEOREM PaymentInvariant == Spec => []PaymentInv
<1>1. PaymentInv /\ [Next]_vars => PaymentInv'
  BY StepTypeOK, StepCalls DEF PaymentInv
<1> QED BY InitInv, <1>1, PTL DEF Spec

(* Every variable of the service keeps its type.                           *)
THEOREM PaymentTypeOK == Spec => []TypeOK
<1>1. PaymentInv => TypeOK
  BY DEF PaymentInv
<1> QED BY <1>1, PaymentInvariant, PTL

(* After a cancel that found a payment and succeeded, no money is taken.   *)
THEOREM PaymentCancelHonest == Spec => []CancelHonest
<1>1. PaymentInv => CancelHonest
  BY DEF PaymentInv, CallInv, CancelHonest, Settled
<1> QED BY <1>1, PaymentInvariant, PTL

(* No order is authorized to one call and declined to another.             *)
THEOREM PaymentOneDecision == Spec => []OneDecision
<1>1. ASSUME PaymentInv, NEW c \in Calls, NEW d \in Calls, OrderOf[c] = OrderOf[d]
      PROVE  {answer[c], answer[d]} # {"AUTHORIZED", "DECLINED"}
  <2>1. Row(c) = Row(d) /\ CallInv(c) /\ CallInv(d)
    BY <1>1 DEF PaymentInv, Row
  <2>2. ~ (answer[c] = "AUTHORIZED" /\ answer[d] = "DECLINED")
    BY <2>1 DEF CallInv
  <2>3. ~ (answer[d] = "AUTHORIZED" /\ answer[c] = "DECLINED")
    BY <2>1 DEF CallInv
  <2> QED BY <2>2, <2>3
<1>2. PaymentInv => OneDecision
  BY <1>1 DEF OneDecision
<1> QED BY <1>2, PaymentInvariant, PTL

(* The service implements the ledger that the saga relies on.              *)
THEOREM PaymentImplementsLedger == Spec => ImplementsLedger
<1>1. Init => Ledger!Init
  BY DEF Init
<1>2. PaymentInv /\ [Next]_vars => [Ledger!Next]_payment
  <2> SUFFICES ASSUME PaymentInv, [Next]_vars PROVE [Ledger!Next]_payment
    OBVIOUS
  <2>1. ASSUME NEW c \in Calls, Row(c) = "none", Verdict[c] # "INVALID", SetRow(c, Verdict[c])
        PROVE  Ledger!Next
    BY <2>1, PaymentAssumption DEF Row, SetRow, Ledger!Next, Ledger!Charge, Ledger!Decisions
  <2>2. ASSUME NEW c \in Calls, pc[c] = "update", SetRow(c, "REFUNDED")
        PROVE  [Ledger!Next]_payment
    <3>1. Row(c) \in {"AUTHORIZED", "REFUNDED"}
      BY <2>2 DEF PaymentInv, CallInv
    <3>2. CASE Row(c) = "AUTHORIZED"
      BY <2>2, <3>2, PaymentAssumption DEF Row, SetRow, Ledger!Next, Ledger!Refund
    <3>3. CASE Row(c) = "REFUNDED"
      BY <2>2, <3>3, PaymentAssumption DEF Row, SetRow, PaymentInv, TypeOK, Ledger!TypeOK
    <3> QED BY <3>1, <3>2, <3>3
  <2>3. ASSUME NEW c \in Calls, Insert(c) \/ Refund(c) \/ DBError(c)
        PROVE  [Ledger!Next]_payment
    <3>1. pc[c] = "insert" => Verdict[c] # "INVALID"
      BY DEF PaymentInv, CallInv
    <3> QED BY <2>1, <2>2, <2>3, <3>1 DEF Insert, Refund, DBError
  <2>4. ASSUME NEW c \in Calls,
               RefuseAmount(c) \/ Lookup(c) \/ Duplicate(c) \/ Reread(c) \/ FindToCancel(c)
        PROVE  UNCHANGED payment
    BY <2>4 DEF RefuseAmount, Lookup, Duplicate, Reread, FindToCancel
  <2> QED BY <2>3, <2>4 DEF Next, Process, CancelPayment, vars
<1> QED BY <1>1, <1>2, PaymentInvariant, PTL DEF Spec, ImplementsLedger, Ledger!Spec
=============================================================================
