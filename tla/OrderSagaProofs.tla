-------------------------- MODULE OrderSagaProofs --------------------------
(***************************************************************************)
(* Safety of the order saga, for any number of orders and products, any    *)
(* demand and stock, any verdicts of the gateway and any number of faults. *)
(*                                                                         *)
(* The invariant speaks of one order at a time.  Its core is that each RPC *)
(* is sent once, at a known program point (Fresh): this is what keeps a    *)
(* late ReserveStock or a stray compensation away from an order that has   *)
(* gone past it.                                                           *)
(***************************************************************************)
EXTENDS OrderSaga, StockLedgerProofs

(* The RPCs that an order has not sent yet at each program point.          *)
NotYetSent(at) ==
  CASE at = "new"       -> Ops
    [] at = "reserve"   -> Ops \ {"ReserveStock"}
    [] at \in {"charge", "complete"} -> {"ReleaseStock", "CancelPayment", "GetProfile"}
    [] at \in {"lookupCompleted", "publishCompleted", "ok"}
                        -> {"ReleaseStock", "CancelPayment"}
    [] at \in {"unreserve", "rollback"} -> {"CancelPayment", "GetProfile"}
    [] at \in {"refund", "failStock", "failPayment"} -> {"GetProfile"}
    [] OTHER            -> {}

Fresh(o, op) ==
  /\ Request(o, op) \notin requests
  /\ \A ok \in BOOLEAN : Reply(o, op, ok) \notin replies

(* An RPC that is not yet sent left no trace; one that was answered is no  *)
(* longer in flight.                                                       *)
SentOnce(o) ==
  /\ \A op \in NotYetSent(pc[o]) : Fresh(o, op)
  /\ \A op \in Ops, ok \in BOOLEAN :
       Reply(o, op, ok) \in replies => Request(o, op) \notin requests

(* The row of an order follows its program point.                          *)
StatusAtPoint(o) ==
  /\ pc[o] \in {"lookupCompleted", "publishCompleted"} => orderStatus[o] = "COMPLETED"
  /\ orderStatus[o] = "COMPLETED" => pc[o] \in {"lookupCompleted", "publishCompleted"} \cup Ended
  /\ orderStatus[o] = "FAILED" \/ notes[o] = "Payment failed. Stock released."
       => pc[o] \in {"lookupFailed", "publishFailed"} \cup Ended

(* What the order owns on the way to COMPLETED, and keeps there.           *)
Backed(o) ==
  /\ held[o] \in {NoHold, Demand[o]}
  /\ Reply(o, "ReserveStock", TRUE) \in replies /\ pc[o] = "reserve" => held[o] = Demand[o]
  /\ pc[o] \in {"charge", "complete"} => held[o] = Demand[o]
  /\ Reply(o, "ProcessPayment", TRUE) \in replies /\ pc[o] = "charge"
       => payment[o] = "AUTHORIZED"
  /\ pc[o] = "complete" => payment[o] = "AUTHORIZED"
  /\ orderStatus[o] = "COMPLETED" =>
       /\ held[o] = Demand[o]
       /\ payment[o] = "AUTHORIZED"
       /\ Fresh(o, "ReleaseStock")
       /\ Fresh(o, "CancelPayment")

(* Past a failed payment no reservation is in flight, so an acknowledged   *)
(* release is final.                                                       *)
PaymentHasFailed(o) ==
  \/ pc[o] \in {"rollback", "refund", "failPayment"}
  \/ notes[o] = "Payment failed. Stock released."

RolledBackInv(o) ==
  /\ pc[o] \in {"charge", "complete"} => Request(o, "ReserveStock") \notin requests
  /\ PaymentHasFailed(o) =>
       /\ Request(o, "ReserveStock") \notin requests
       /\ Reply(o, "ReleaseStock", TRUE) \in replies => ~ Holds(o)

(* What was announced about an order.                                      *)
Announced(o) ==
  /\ [type |-> "order-completed", order |-> o] \in events => orderStatus[o] = "COMPLETED"
  /\ [type |-> "order-failed", order |-> o] \in events
       => pc[o] = "error" /\ orderStatus[o] # "COMPLETED"

OrderInv(o) ==
  SentOnce(o) /\ StatusAtPoint(o) /\ Backed(o) /\ RolledBackInv(o) /\ Announced(o)

SagaInv == TypeOK /\ \A o \in Orders : OrderInv(o)

-----------------------------------------------------------------------------
(* Type correctness.                                                       *)

LEMMA AwaitsType == \A at \in Waiting : Awaits[at] \in Ops
  BY DEF Waiting, Awaits, Ops

LEMMA RequestType ==
  ASSUME NEW o \in Orders, NEW op \in Ops, NEW ok \in BOOLEAN
  PROVE  /\ Request(o, op) \in [op : Ops, order : Orders]
         /\ Reply(o, op, ok) \in [op : Ops, order : Orders, ok : BOOLEAN]
  BY DEF Request, Reply

LEMMA FaultType ==
  ASSUME TypeOK, NEW o \in Orders, Fault(o) \/ NoFault
  PROVE  faults' \in 0..MaxFaults /\ hit' \subseteq Orders
  BY SagaAssumption DEF TypeOK, Fault, FaultOn, NoFault

LEMMA CallType ==
  ASSUME TypeOK, NEW o \in Orders, NEW next \in Waiting, NEW lost, Call(o, next, lost)
  PROVE  /\ pc' \in [Orders -> {"new"} \cup Running \cup Ended]
         /\ requests' \subseteq [op : Ops, order : Orders]
<1>1. Request(o, Awaits[next]) \in [op : Ops, order : Orders]
  BY AwaitsType, RequestType
<1> QED BY <1>1 DEF TypeOK, Call, Goto, Running

LEMMA TypeInit == Init => TypeOK
<1> SUFFICES ASSUME Init PROVE TypeOK
  OBVIOUS
<1>1. LedgerTypeOK
  BY LedgerAssumption DEF Init, LedgerInit, LedgerTypeOK, NoHold
<1>2. faults \in 0..MaxFaults
  <2>1. MaxFaults \in Nat
    BY SagaAssumption
  <2>2. faults = 0
    BY DEF Init
  <2> QED BY <2>1, <2>2
<1> QED BY <1>1, <1>2 DEF Init, TypeOK, Payments!TypeOK, Payments!PaymentStatuses,
                          Statuses, Notes

(* A step of the orchestrator.                                             *)
LEMMA TypeCreateOrder ==
  ASSUME TypeOK, NEW o \in Orders, CreateOrder(o)
  PROVE  TypeOK'
<1> USE DEF Payments!TypeOK, LedgerTypeOK, ledger, orderDB, net
<1>1. CASE SavePending(o)
  <2>1. Call(o, "reserve", {}) /\ "reserve" \in Waiting
    BY <1>1 DEF SavePending, Waiting, Awaits
  <2> QED BY <1>1, <2>1, CallType DEF SavePending, TypeOK, Statuses
<1>2. CASE SaveFails(o)
  BY <1>2, FaultType DEF SaveFails, Goto, TypeOK, Statuses, Ended
<1>3. CASE StockReserved(o)
  <2>1. Call(o, "charge", {}) /\ "charge" \in Waiting /\ NoFault
    BY <1>3 DEF StockReserved, CallSucceeds, Waiting, Awaits
  <2> QED BY <1>3, <2>1, CallType, FaultType DEF StockReserved, TypeOK
<1>4. CASE ReservationFailed(o)
  <2>1. PICK lost : Call(o, "unreserve", lost) /\ (Fault(o) \/ NoFault)
    BY <1>4 DEF ReservationFailed, CallFails
  <2>2. "unreserve" \in Waiting
    BY DEF Waiting, Awaits
  <2> QED BY <1>4, <2>1, <2>2, CallType, FaultType DEF ReservationFailed, TypeOK
<1>5. CASE Unreserved(o)
  <2>1. PICK lost : requests' = requests \ lost /\ (Fault(o) \/ NoFault)
    BY <1>5 DEF Unreserved, CallReturns, CallSucceeds, CallFails
  <2> QED BY <1>5, <2>1, FaultType DEF Unreserved, Goto, Running, TypeOK
<1>6. CASE PaymentAuthorized(o)
  BY <1>6, FaultType DEF PaymentAuthorized, CallSucceeds, Goto, Running, TypeOK
<1>7. CASE PaymentFailed(o)
  <2>1. PICK lost : Call(o, "rollback", lost) /\ (Fault(o) \/ NoFault)
    BY <1>7 DEF PaymentFailed, CallFails
  <2>2. "rollback" \in Waiting
    BY DEF Waiting, Awaits
  <2> QED BY <1>7, <2>1, <2>2, CallType, FaultType DEF PaymentFailed, TypeOK
<1>8. CASE RolledBack(o)
  <2>1. PICK lost : Call(o, "refund", lost) /\ (Fault(o) \/ NoFault)
    BY <1>8 DEF RolledBack, CallReturns, CallSucceeds, CallFails
  <2>2. "refund" \in Waiting
    BY DEF Waiting, Awaits
  <2> QED BY <1>8, <2>1, <2>2, CallType, FaultType DEF RolledBack, TypeOK
<1>9. CASE Refunded(o)
  <2>1. PICK lost : requests' = requests \ lost /\ (Fault(o) \/ NoFault)
    BY <1>9 DEF Refunded, CallReturns, CallSucceeds, CallFails
  <2> QED BY <1>9, <2>1, FaultType DEF Refunded, Goto, Running, TypeOK
<1>10. CASE MarkFailed(o)
  <2>1. /\ orderStatus' \in [Orders -> Statuses] /\ notes' \in [Orders -> Notes]
        /\ Fault(o) \/ NoFault
    BY <1>10 DEF MarkFailed, WriteAcked, WriteFails, Write, TypeOK, Statuses, Notes
  <2>2. Call(o, "lookupFailed", {}) /\ "lookupFailed" \in Waiting
    BY <1>10 DEF MarkFailed, Waiting, Awaits
  <2> QED BY <1>10, <2>1, <2>2, CallType, FaultType DEF MarkFailed, TypeOK
<1>11. CASE MarkCompleted(o)
  <2>1. Call(o, "lookupCompleted", {}) /\ "lookupCompleted" \in Waiting
    BY <1>11 DEF MarkCompleted, Waiting, Awaits
  <2> QED BY <1>11, <2>1, CallType, FaultType
          DEF MarkCompleted, WriteAcked, Write, TypeOK, Statuses, Notes
<1>12. CASE CompletionFails(o)
  <2>1. /\ orderStatus' \in [Orders -> Statuses] /\ notes' \in [Orders -> Notes]
        /\ Fault(o) \/ NoFault
    BY <1>12 DEF CompletionFails, WriteFails, Write, TypeOK, Statuses, Notes
  <2> QED BY <1>12, <2>1, FaultType DEF CompletionFails, Goto, Ended, TypeOK
<1>13. CASE PublishFailed(o)
  BY <1>13, FaultType DEF PublishFailed, Publish, Goto, Ended, TypeOK
<1>14. CASE PublishCompleted(o)
  BY <1>14, FaultType DEF PublishCompleted, Publish, Goto, Ended, TypeOK
<1>15. CASE EmailKnown(o)
  <2>1. PICK lost : requests' = requests \ lost /\ (Fault(o) \/ NoFault)
    BY <1>15 DEF EmailKnown, CallReturns, CallSucceeds, CallFails
  <2> QED BY <1>15, <2>1, FaultType DEF EmailKnown, Goto, Running, TypeOK
<1> QED BY <1>1, <1>2, <1>3, <1>4, <1>5, <1>6, <1>7, <1>8, <1>9, <1>10, <1>11, <1>12,
           <1>13, <1>14, <1>15 DEF CreateOrder

(* A step of a server.                                                     *)
LEMMA AnswerType ==
  ASSUME TypeOK, NEW o \in Orders, NEW op \in Ops, NEW ok \in BOOLEAN, Answer(o, op, ok)
  PROVE  /\ requests' \subseteq [op : Ops, order : Orders]
         /\ replies' \subseteq [op : Ops, order : Orders, ok : BOOLEAN]
         /\ UNCHANGED <<pc, orderDB, events, dead>>
  BY RequestType DEF Answer, TypeOK

LEMMA LedgerType ==
  ASSUME TypeOK, NEW o \in Orders,
         UNCHANGED ledger \/ ReserveEffect(o) \/ ReleaseEffect(o)
  PROVE  LedgerTypeOK'
<1>1. Demand[o] \in [Products -> Nat] /\ NoHold \in [Products -> Nat]
  BY LedgerAssumption DEF NoHold
<1>2. CASE UNCHANGED ledger
  BY <1>2 DEF TypeOK, LedgerTypeOK, ledger
<1>3. CASE Reserve(o)
  BY <1>1, <1>3 DEF TypeOK, LedgerTypeOK, Reserve, Sufficient
<1>4. CASE Release(o)
  BY <1>1, <1>4 DEF TypeOK, LedgerTypeOK, Release
<1> QED BY <1>2, <1>3, <1>4 DEF ReserveEffect, ReleaseEffect

LEMMA PaymentType ==
  ASSUME TypeOK, NEW o \in Orders,
         UNCHANGED payment \/ ChargeEffect(o) \/ RefundEffect(o)
  PROVE  Payments!TypeOK'
<1>1. CASE UNCHANGED payment
  BY <1>1 DEF TypeOK, Payments!TypeOK
<1>2. CASE Payments!Charge(o, Verdict[o])
  BY <1>2, SagaAssumption DEF TypeOK, Payments!TypeOK, Payments!Charge, Payments!PaymentStatuses
<1>3. CASE Payments!Refund(o)
  BY <1>3 DEF TypeOK, Payments!TypeOK, Payments!Refund, Payments!PaymentStatuses
<1> QED BY <1>1, <1>2, <1>3 DEF ChargeEffect, RefundEffect

(* What every handler does, whichever branch it takes.                     *)
ServeSummary(o) ==
  /\ \E op \in Ops, ok \in BOOLEAN : Answer(o, op, ok)
  /\ Fault(o) \/ NoFault
  /\ \/ UNCHANGED payment /\ (UNCHANGED ledger \/ ReserveEffect(o) \/ ReleaseEffect(o))
     \/ UNCHANGED ledger /\ (UNCHANGED payment \/ ChargeEffect(o) \/ RefundEffect(o))

LEMMA ServeSummarised ==
  ASSUME NEW o \in Orders, Serve(o)
  PROVE  ServeSummary(o)
<1>1. CASE ReserveStock(o)
  BY <1>1, Zenon DEF ReserveStock, ServeSummary, Ops
<1>2. CASE ReleaseStock(o)
  BY <1>2, Zenon DEF ReleaseStock, ServeSummary, Ops
<1>3. CASE ProcessPayment(o)
  <2>1. (payment'[o] = "AUTHORIZED") \in BOOLEAN
    OBVIOUS
  <2> QED BY <1>3, <2>1, Zenon DEF ProcessPayment, ServeSummary, Ops
<1>4. CASE CancelPayment(o)
  BY <1>4, Zenon DEF CancelPayment, ServeSummary, Ops
<1>5. CASE GetProfile(o)
  BY <1>5, Zenon DEF GetProfile, ServeSummary, Ops
<1> QED BY <1>1, <1>2, <1>3, <1>4, <1>5 DEF Serve

LEMMA TypeServe ==
  ASSUME TypeOK, NEW o \in Orders, Serve(o)
  PROVE  TypeOK'
<1>1. ServeSummary(o)
  BY ServeSummarised
<1>2. LedgerTypeOK' /\ Payments!TypeOK'
  BY <1>1, LedgerType, PaymentType DEF ServeSummary
<1>3. faults' \in 0..MaxFaults /\ hit' \subseteq Orders
  BY <1>1, FaultType DEF ServeSummary
<1>4. PICK op \in Ops, ok \in BOOLEAN : Answer(o, op, ok)
  BY <1>1 DEF ServeSummary
<1> QED BY <1>2, <1>3, <1>4, AnswerType DEF TypeOK, orderDB

LEMMA TypeNext ==
  ASSUME TypeOK, [Next]_vars
  PROVE  TypeOK'
<1> USE DEF Payments!TypeOK, LedgerTypeOK
<1>1. ASSUME NEW o \in Orders, Cancel(o) PROVE TypeOK'
  BY <1>1, FaultType DEF Cancel, TypeOK, ledger, orderDB, net
<1>2. CASE Crash
  <2>1. faults' \in 0..MaxFaults /\ hit' \subseteq Orders
    BY <1>2, SagaAssumption DEF Crash, FaultOn, TypeOK
  <2> QED BY <1>2, <2>1 DEF Crash, TypeOK, ledger, orderDB, Ended
<1>3. CASE UNCHANGED vars
  BY <1>3 DEF TypeOK, vars
<1> QED BY <1>1, <1>2, <1>3, TypeCreateOrder, TypeServe DEF Next

(* Every variable of the saga keeps its type.                              *)
THEOREM SagaTypeOK == Spec => []TypeOK
<1> QED BY TypeInit, TypeNext, PTL DEF Spec

-----------------------------------------------------------------------------
(* The saga drives the catalog along its ledger, which conserves stock.    *)

LEMMA StepOfLedger ==
  ASSUME [Next]_vars
  PROVE  [LedgerNext]_ledger
<1> USE DEF ledger
<1>1. ASSUME NEW o \in Orders, CreateOrder(o) PROVE UNCHANGED ledger
  BY <1>1 DEF CreateOrder, SavePending, SaveFails, StockReserved, ReservationFailed, Unreserved,
              PaymentAuthorized, PaymentFailed, RolledBack, Refunded, MarkFailed, MarkCompleted,
              CompletionFails, EmailKnown, PublishFailed, PublishCompleted
<1>2. ASSUME NEW o \in Orders, Serve(o) PROVE [LedgerNext]_ledger
  <2>1. UNCHANGED ledger \/ Reserve(o) \/ Release(o)
    BY <1>2, ServeSummarised DEF ServeSummary, ReserveEffect, ReleaseEffect
  <2> QED BY <2>1 DEF LedgerNext
<1>3. ASSUME NEW o \in Orders, Cancel(o) PROVE UNCHANGED ledger
  BY <1>3 DEF Cancel
<1>4. CASE Crash
  BY <1>4 DEF Crash
<1>5. CASE UNCHANGED vars
  BY <1>5 DEF vars
<1> QED BY <1>1, <1>2, <1>3, <1>4, <1>5 DEF Next

(* The saga implements the stock ledger, because its servers take the      *)
(* ledger's steps and nothing else touches the stock.                      *)
LEMMA SagaImplementsLedger == Spec => ImplementsLedger
<1>1. Init => LedgerInit
  BY DEF Init
<1> QED BY <1>1, StepOfLedger, PTL DEF Spec, ImplementsLedger, LedgerSpec

(* Whatever calls, losses, cancellations and crashes happen, no unit of    *)
(* stock appears or disappears.                                            *)
THEOREM SagaConservesStock == Spec => []StockConserved
  BY SagaImplementsLedger, LedgerConservesStock, PTL DEF ImplementsLedger

-----------------------------------------------------------------------------
(* The invariant of one order is disturbed by nothing that leaves the      *)
(* order's own part of the state alone.                                    *)

Untouched(q) ==
  /\ pc'[q] = pc[q] /\ orderStatus'[q] = orderStatus[q] /\ notes'[q] = notes[q]
  /\ held'[q] = held[q] /\ payment'[q] = payment[q]
  /\ \A op \in Ops : Request(q, op) \in requests' => Request(q, op) \in requests
  /\ \A op \in Ops, ok \in BOOLEAN : Reply(q, op, ok) \in replies' <=> Reply(q, op, ok) \in replies
  /\ \A type \in {"order-failed", "order-completed"} :
       [type |-> type, order |-> q] \in events' <=> [type |-> type, order |-> q] \in events

LEMMA NotYetSentOps == \A at : NotYetSent(at) \subseteq Ops
  BY DEF NotYetSent, Ops

LEMMA UntouchedKeeps ==
  ASSUME NEW q \in Orders, OrderInv(q), Untouched(q)
  PROVE  OrderInv(q)'
<1> USE DEF Untouched, OrderInv, Holds, NoHold
<1>0. \A op \in Ops : Fresh(q, op) => Fresh(q, op)'
  BY DEF Fresh
<1>1. SentOnce(q)'
  BY <1>0, NotYetSentOps DEF SentOnce
<1>2. StatusAtPoint(q)'
  BY DEF StatusAtPoint
<1>3. Backed(q)'
  BY <1>0 DEF Backed, Ops
<1>4. RolledBackInv(q)'
  BY DEF RolledBackInv, PaymentHasFailed, Holds, NoHold, Ops
<1>5. Announced(q)'
  BY DEF Announced
<1> QED BY <1>1, <1>2, <1>3, <1>4, <1>5

LEMMA OtherOrders ==
  ASSUME NEW o \in Orders, NEW q \in Orders, q # o, NEW op, NEW op2, NEW ok, NEW ok2
  PROVE  Request(q, op) # Request(o, op2) /\ Reply(q, op, ok) # Reply(o, op2, ok2)
  BY DEF Request, Reply

LEMMA CallUntouched ==
  ASSUME TypeOK, NEW o \in Orders, NEW q \in Orders, q # o, NEW next, NEW lost,
         Call(o, next, lost)
  PROVE  /\ pc'[q] = pc[q]
         /\ \A op \in Ops : Request(q, op) \in requests' => Request(q, op) \in requests
  BY OtherOrders DEF Call, Goto, TypeOK

LEMMA CreateOrderUntouched ==
  ASSUME TypeOK, NEW o \in Orders, NEW q \in Orders, q # o, CreateOrder(o)
  PROVE  Untouched(q)
<1> USE DEF ledger, orderDB, net
<1>1. CASE SavePending(o)
  <2>1. Call(o, "reserve", {})
    BY <1>1 DEF SavePending
  <2> QED BY <1>1, <2>1, CallUntouched DEF SavePending, TypeOK, Untouched
<1>2. CASE SaveFails(o)
  BY <1>2 DEF SaveFails, Goto, TypeOK, Untouched
<1>3. CASE StockReserved(o)
  <2>1. Call(o, "charge", {})
    BY <1>3 DEF StockReserved
  <2> QED BY <1>3, <2>1, CallUntouched DEF StockReserved, TypeOK, Untouched
<1>4. CASE ReservationFailed(o)
  <2>1. PICK lost : Call(o, "unreserve", lost)
    BY <1>4 DEF ReservationFailed
  <2> QED BY <1>4, <2>1, CallUntouched DEF ReservationFailed, TypeOK, Untouched
<1>5. CASE Unreserved(o)
  BY <1>5 DEF Unreserved, Goto, TypeOK, Untouched
<1>6. CASE PaymentAuthorized(o)
  BY <1>6 DEF PaymentAuthorized, Goto, TypeOK, Untouched
<1>7. CASE PaymentFailed(o)
  <2>1. PICK lost : Call(o, "rollback", lost)
    BY <1>7 DEF PaymentFailed
  <2> QED BY <1>7, <2>1, CallUntouched DEF PaymentFailed, TypeOK, Untouched
<1>8. CASE RolledBack(o)
  <2>1. PICK lost : Call(o, "refund", lost)
    BY <1>8 DEF RolledBack
  <2> QED BY <1>8, <2>1, CallUntouched DEF RolledBack, TypeOK, Untouched
<1>9. CASE Refunded(o)
  BY <1>9 DEF Refunded, Goto, TypeOK, Untouched
<1>10. CASE MarkFailed(o)
  <2>1. Call(o, "lookupFailed", {})
    BY <1>10 DEF MarkFailed
  <2> QED BY <1>10, <2>1, CallUntouched DEF MarkFailed, WriteAcked, WriteFails, Write, TypeOK, Untouched
<1>11. CASE MarkCompleted(o)
  <2>1. Call(o, "lookupCompleted", {})
    BY <1>11 DEF MarkCompleted
  <2> QED BY <1>11, <2>1, CallUntouched DEF MarkCompleted, WriteAcked, Write, TypeOK, Untouched
<1>12. CASE CompletionFails(o)
  BY <1>12 DEF CompletionFails, WriteFails, Write, Goto, TypeOK, Untouched
<1>13. CASE PublishFailed(o)
  BY <1>13 DEF PublishFailed, Publish, Goto, TypeOK, Untouched
<1>14. CASE PublishCompleted(o)
  BY <1>14 DEF PublishCompleted, Publish, Goto, TypeOK, Untouched
<1>15. CASE EmailKnown(o)
  BY <1>15 DEF EmailKnown, Goto, TypeOK, Untouched
<1> QED BY <1>1, <1>2, <1>3, <1>4, <1>5, <1>6, <1>7, <1>8, <1>9, <1>10, <1>11, <1>12,
           <1>13, <1>14, <1>15 DEF CreateOrder

LEMMA ServeUntouched ==
  ASSUME TypeOK, NEW o \in Orders, NEW q \in Orders, q # o, Serve(o)
  PROVE  Untouched(q)
<1>1. ServeSummary(o)
  BY ServeSummarised
<1>2. PICK op \in Ops, ok \in BOOLEAN : Answer(o, op, ok)
  BY <1>1 DEF ServeSummary
<1>3. held'[q] = held[q]
  BY <1>1 DEF ServeSummary, ReserveEffect, ReleaseEffect, Reserve, Release, ledger,
              TypeOK, LedgerTypeOK
<1>4. payment'[q] = payment[q]
  BY <1>1 DEF ServeSummary, ChargeEffect, RefundEffect, Payments!Charge, Payments!Refund,
              TypeOK, Payments!TypeOK
<1> QED BY <1>2, <1>3, <1>4, OtherOrders DEF Answer, Untouched, orderDB

-----------------------------------------------------------------------------
(* Each step keeps the invariant of the order that takes it.               *)

LEMMA DistinctOps ==
  ASSUME NEW o, NEW op \in Ops, NEW op2 \in Ops, op # op2, NEW ok, NEW ok2
  PROVE  Request(o, op) # Request(o, op2) /\ Reply(o, op, ok) # Reply(o, op2, ok2)
  BY DEF Request, Reply

(* Sending the RPC of the next program point.                              *)
LEMMA CallSentOnce ==
  ASSUME TypeOK, NEW o \in Orders, OrderInv(o), NEW next \in Waiting, NEW lost,
         Call(o, next, lost), UNCHANGED replies,
         Awaits[next] \in NotYetSent(pc[o]),
         NotYetSent(next) \subseteq NotYetSent(pc[o]) \ {Awaits[next]}
  PROVE  /\ SentOnce(o)' /\ pc'[o] = next
         /\ \A op \in Ops : op # Awaits[next] /\ Request(o, op) \notin requests
                              => Request(o, op) \notin requests'
         /\ \A op \in Ops : op # Awaits[next] /\ Fresh(o, op) => Fresh(o, op)'
<1>1. Awaits[next] \in Ops
  BY AwaitsType
<1>2. pc'[o] = next
  BY DEF Call, Goto, TypeOK
<1>3. \A op \in Ops : op # Awaits[next] /\ Request(o, op) \notin requests
                        => Request(o, op) \notin requests'
  BY <1>1, DistinctOps DEF Call
<1>4. \A op \in Ops : op # Awaits[next] /\ Fresh(o, op) => Fresh(o, op)'
  BY <1>3 DEF Fresh
<1>5. \A op \in NotYetSent(next) : Fresh(o, op)'
  BY <1>4, NotYetSentOps DEF OrderInv, SentOnce
<1>6. Fresh(o, Awaits[next])
  BY DEF OrderInv, SentOnce
<1>7. \A op \in Ops, ok \in BOOLEAN :
        Reply(o, op, ok) \in replies' => Request(o, op) \notin requests'
  BY <1>3, <1>6 DEF OrderInv, SentOnce, Fresh
<1> QED BY <1>2, <1>3, <1>4, <1>5, <1>7 DEF SentOnce

LEMMA NotYetSentAt ==
  /\ NotYetSent("new") = Ops
  /\ NotYetSent("reserve") = {"ReleaseStock", "ProcessPayment", "CancelPayment", "GetProfile"}
  /\ \A at \in {"charge", "complete"} :
       NotYetSent(at) = {"ReleaseStock", "CancelPayment", "GetProfile"}
  /\ \A at \in {"lookupCompleted", "publishCompleted", "ok"} :
       NotYetSent(at) = {"ReleaseStock", "CancelPayment"}
  /\ \A at \in {"unreserve", "rollback"} : NotYetSent(at) = {"CancelPayment", "GetProfile"}
  /\ \A at \in {"refund", "failStock", "failPayment"} : NotYetSent(at) = {"GetProfile"}
  /\ \A at \in {"lookupFailed", "publishFailed", "error", "crashed"} : NotYetSent(at) = {}
  BY DEF NotYetSent, Ops

(* A step that sends nothing moves between points with the same future.    *)
LEMMA GotoSentOnce ==
  ASSUME NEW o \in Orders, OrderInv(o), NEW next,
         pc'[o] = next, requests' \subseteq requests, UNCHANGED replies,
         NotYetSent(next) \subseteq NotYetSent(pc[o])
  PROVE  /\ SentOnce(o)'
         /\ \A op \in Ops : Fresh(o, op) => Fresh(o, op)'
<1>1. \A op : Fresh(o, op) => Fresh(o, op)'
  BY DEF Fresh
<1> QED BY <1>1 DEF OrderInv, SentOnce

LEMMA CreateOrderKeeps ==
  ASSUME TypeOK, NEW o \in Orders, OrderInv(o), CreateOrder(o)
  PROVE  OrderInv(o)'
<1> USE DEF ledger, orderDB, net, Holds, NoHold
<1>a. /\ \A at \in Waiting : Awaits[at] \in Ops
      /\ Awaits["reserve"] = "ReserveStock" /\ Awaits["unreserve"] = "ReleaseStock"
      /\ Awaits["charge"] = "ProcessPayment" /\ Awaits["rollback"] = "ReleaseStock"
      /\ Awaits["refund"] = "CancelPayment"
      /\ Awaits["lookupFailed"] = "GetProfile" /\ Awaits["lookupCompleted"] = "GetProfile"
      /\ {"reserve", "unreserve", "charge", "rollback", "refund",
          "lookupFailed", "lookupCompleted"} \subseteq Waiting
  BY AwaitsType DEF Awaits, Waiting
<1>1. CASE SavePending(o)
  <2>1. /\ pc[o] = "new" /\ orderStatus'[o] = "PENDING" /\ Call(o, "reserve", {})
        /\ UNCHANGED <<stock, held, payment, notes, events, replies>>
    BY <1>1 DEF SavePending, TypeOK
  <2>2. SentOnce(o)' /\ pc'[o] = "reserve" /\ \A op \in Ops : Fresh(o, op)
    BY <1>a, <2>1, CallSentOnce, NotYetSentAt DEF Ops, OrderInv, SentOnce
  <2>3. \A ok \in BOOLEAN : Reply(o, "ReserveStock", ok) \notin replies'
    BY <2>1, <2>2 DEF Fresh, Ops
  <2>4. StatusAtPoint(o)' /\ Backed(o)' /\ RolledBackInv(o)'
    BY <2>1, <2>2, <2>3 DEF OrderInv, StatusAtPoint, Backed, RolledBackInv, PaymentHasFailed,
                            Fresh, Ops, Ended
  <2>5. Announced(o)'
    BY <2>1, <2>2 DEF OrderInv, Announced, StatusAtPoint, Ended
  <2> QED BY <2>2, <2>4, <2>5 DEF OrderInv
<1>2. CASE SaveFails(o)
  <2>1. /\ pc[o] = "new" /\ pc'[o] = "error" /\ orderStatus'[o] \in {orderStatus[o], "PENDING"}
        /\ UNCHANGED <<stock, held, payment, notes, events, requests, replies>>
    BY <1>2 DEF SaveFails, Goto, TypeOK
  <2>2. SentOnce(o)'
    BY <2>1, GotoSentOnce, NotYetSentAt
  <2>3. /\ orderStatus[o] \notin {"COMPLETED", "FAILED"}
        /\ notes[o] # "Payment failed. Stock released."
    BY <2>1 DEF OrderInv, StatusAtPoint, Ended
  <2>4. StatusAtPoint(o)' /\ Backed(o)' /\ RolledBackInv(o)' /\ Announced(o)'
    BY <2>1, <2>3 DEF OrderInv, StatusAtPoint, Backed, RolledBackInv, PaymentHasFailed,
                      Announced
  <2> QED BY <2>2, <2>4 DEF OrderInv
<1>3. CASE StockReserved(o)
  <2>1. /\ pc[o] = "reserve" /\ Reply(o, "ReserveStock", TRUE) \in replies
        /\ Call(o, "charge", {})
        /\ UNCHANGED <<stock, held, payment, orderStatus, notes, events, replies>>
    BY <1>a, <1>3 DEF StockReserved, CallSucceeds
  <2>2. /\ SentOnce(o)' /\ pc'[o] = "charge"
        /\ Request(o, "ReserveStock") \notin requests => Request(o, "ReserveStock") \notin requests'
        /\ \A op \in {"ReleaseStock", "CancelPayment"} : Fresh(o, op)'
    BY <1>a, <2>1, CallSentOnce, NotYetSentAt DEF Ops, OrderInv, SentOnce
  <2>3. /\ Fresh(o, "ProcessPayment") /\ Request(o, "ReserveStock") \notin requests
        /\ Fresh(o, "ReleaseStock")
    BY <2>1, NotYetSentAt DEF OrderInv, SentOnce, Ops
  <2>4. StatusAtPoint(o)' /\ Announced(o)'
    BY <2>1, <2>2 DEF OrderInv, StatusAtPoint, Announced, Ended
  <2>5. Backed(o)'
    BY <2>1, <2>2, <2>3 DEF OrderInv, StatusAtPoint, Backed, Fresh, Ended
  <2>6. RolledBackInv(o)'
    BY <2>1, <2>2, <2>3 DEF OrderInv, RolledBackInv, PaymentHasFailed, Fresh
  <2> QED BY <2>2, <2>4, <2>5, <2>6 DEF OrderInv
<1>4. CASE ReservationFailed(o)
  <2>1. PICK lost : /\ pc[o] = "reserve" /\ Call(o, "unreserve", lost)
                    /\ UNCHANGED <<stock, held, payment, orderStatus, notes, events, replies>>
    BY <1>4 DEF ReservationFailed
  <2>2. SentOnce(o)' /\ pc'[o] = "unreserve"
        /\ (Request(o, "ReserveStock") \notin requests => Request(o, "ReserveStock") \notin requests')
    BY <1>a, <2>1, CallSentOnce, NotYetSentAt DEF Ops
  <2>3. /\ orderStatus[o] \notin {"COMPLETED", "FAILED"}
        /\ notes[o] # "Payment failed. Stock released."
    BY <2>1 DEF OrderInv, StatusAtPoint, Ended
  <2>4. StatusAtPoint(o)' /\ Backed(o)' /\ Announced(o)'
    BY <2>1, <2>2, <2>3 DEF OrderInv, StatusAtPoint, Backed, Announced
  <2>5. RolledBackInv(o)'
    BY <2>1, <2>2 DEF OrderInv, RolledBackInv, PaymentHasFailed
  <2> QED BY <2>2, <2>4, <2>5 DEF OrderInv
<1>5. CASE Unreserved(o)
  <2>1. /\ pc[o] = "unreserve" /\ pc'[o] = "failStock" /\ requests' \subseteq requests
        /\ UNCHANGED <<stock, held, payment, orderStatus, notes, events, replies>>
    BY <1>5 DEF Unreserved, Goto, TypeOK
  <2>2. SentOnce(o)'
    BY <2>1, GotoSentOnce, NotYetSentAt
  <2>3. /\ orderStatus[o] \notin {"COMPLETED", "FAILED"}
        /\ notes[o] # "Payment failed. Stock released."
    BY <2>1 DEF OrderInv, StatusAtPoint, Ended
  <2>4. StatusAtPoint(o)' /\ Backed(o)' /\ RolledBackInv(o)' /\ Announced(o)'
    BY <2>1, <2>3 DEF OrderInv, StatusAtPoint, Backed, RolledBackInv, PaymentHasFailed,
                      Announced
  <2> QED BY <2>2, <2>4 DEF OrderInv
<1>6. CASE PaymentAuthorized(o)
  <2>1. /\ pc[o] = "charge" /\ pc'[o] = "complete" /\ Reply(o, "ProcessPayment", TRUE) \in replies
        /\ UNCHANGED <<stock, held, payment, orderStatus, notes, events, requests, replies>>
    BY <1>a, <1>6 DEF PaymentAuthorized, CallSucceeds, Goto, TypeOK
  <2>2. SentOnce(o)'
    BY <2>1, GotoSentOnce, NotYetSentAt
  <2>3. /\ orderStatus[o] \notin {"COMPLETED", "FAILED"}
        /\ notes[o] # "Payment failed. Stock released."
    BY <2>1 DEF OrderInv, StatusAtPoint, Ended
  <2>4. StatusAtPoint(o)' /\ Backed(o)' /\ RolledBackInv(o)' /\ Announced(o)'
    BY <2>1, <2>3 DEF OrderInv, StatusAtPoint, Backed, RolledBackInv, PaymentHasFailed,
                      Announced
  <2> QED BY <2>2, <2>4 DEF OrderInv
<1>7. CASE PaymentFailed(o)
  <2>1. PICK lost : /\ pc[o] = "charge" /\ Call(o, "rollback", lost)
                    /\ UNCHANGED <<stock, held, payment, orderStatus, notes, events, replies>>
    BY <1>7 DEF PaymentFailed
  <2>2. /\ SentOnce(o)' /\ pc'[o] = "rollback"
        /\ Request(o, "ReserveStock") \notin requests => Request(o, "ReserveStock") \notin requests'
    BY <1>a, <2>1, CallSentOnce, NotYetSentAt DEF Ops
  <2>3. /\ orderStatus[o] \notin {"COMPLETED", "FAILED"}
        /\ notes[o] # "Payment failed. Stock released."
    BY <2>1 DEF OrderInv, StatusAtPoint, Ended
  <2>4. StatusAtPoint(o)' /\ Backed(o)' /\ Announced(o)'
    BY <2>1, <2>2, <2>3 DEF OrderInv, StatusAtPoint, Backed, Announced
  <2>5. Reply(o, "ReleaseStock", TRUE) \notin replies'
    BY <2>1, NotYetSentAt DEF OrderInv, SentOnce, Fresh
  <2>6. RolledBackInv(o)'
    BY <2>1, <2>2, <2>5 DEF OrderInv, RolledBackInv
  <2> QED BY <2>2, <2>4, <2>6 DEF OrderInv
<1>8. CASE RolledBack(o)
  <2>1. PICK lost : /\ pc[o] = "rollback" /\ Call(o, "refund", lost)
                    /\ UNCHANGED <<stock, held, payment, orderStatus, notes, events, replies>>
    BY <1>8 DEF RolledBack
  <2>2. /\ SentOnce(o)' /\ pc'[o] = "refund"
        /\ Request(o, "ReserveStock") \notin requests => Request(o, "ReserveStock") \notin requests'
    BY <1>a, <2>1, CallSentOnce, NotYetSentAt DEF Ops
  <2>3. /\ orderStatus[o] \notin {"COMPLETED", "FAILED"}
        /\ notes[o] # "Payment failed. Stock released."
    BY <2>1 DEF OrderInv, StatusAtPoint, Ended
  <2>4. StatusAtPoint(o)' /\ Backed(o)' /\ Announced(o)'
    BY <2>1, <2>2, <2>3 DEF OrderInv, StatusAtPoint, Backed, Announced
  <2>5. RolledBackInv(o)'
    BY <2>1, <2>2 DEF OrderInv, RolledBackInv, PaymentHasFailed
  <2> QED BY <2>2, <2>4, <2>5 DEF OrderInv
<1>9. CASE Refunded(o)
  <2>1. /\ pc[o] = "refund" /\ pc'[o] = "failPayment" /\ requests' \subseteq requests
        /\ UNCHANGED <<stock, held, payment, orderStatus, notes, events, replies>>
    BY <1>9 DEF Refunded, Goto, TypeOK
  <2>2. SentOnce(o)'
    BY <2>1, GotoSentOnce, NotYetSentAt
  <2>3. /\ orderStatus[o] \notin {"COMPLETED", "FAILED"}
        /\ notes[o] # "Payment failed. Stock released."
    BY <2>1 DEF OrderInv, StatusAtPoint, Ended
  <2>4. StatusAtPoint(o)' /\ Backed(o)' /\ RolledBackInv(o)' /\ Announced(o)'
    BY <2>1, <2>3 DEF OrderInv, StatusAtPoint, Backed, RolledBackInv, PaymentHasFailed,
                      Announced
  <2> QED BY <2>2, <2>4 DEF OrderInv
<1>10. CASE MarkFailed(o)
  <2>1. /\ pc[o] \in {"failStock", "failPayment"} /\ Call(o, "lookupFailed", {})
        /\ orderStatus'[o] \in {orderStatus[o], "FAILED"}
        /\ notes'[o] # notes[o] /\ pc[o] = "failStock" => notes'[o] = "Stock reservation failed"
        /\ UNCHANGED <<stock, held, payment, events, replies>>
    BY <1>10 DEF MarkFailed, WriteAcked, WriteFails, Write, TypeOK
  <2>2. /\ SentOnce(o)' /\ pc'[o] = "lookupFailed"
        /\ Request(o, "ReserveStock") \notin requests => Request(o, "ReserveStock") \notin requests'
    BY <1>a, <2>1, CallSentOnce, NotYetSentAt DEF Ops
  <2>3. /\ orderStatus[o] \notin {"COMPLETED", "FAILED"}
        /\ notes[o] # "Payment failed. Stock released."
    BY <2>1 DEF OrderInv, StatusAtPoint, Ended
  <2>4. StatusAtPoint(o)' /\ Backed(o)' /\ Announced(o)'
    BY <2>1, <2>2, <2>3 DEF OrderInv, StatusAtPoint, Backed, Announced
  <2>5. RolledBackInv(o)'
    BY <2>1, <2>2 DEF OrderInv, RolledBackInv, PaymentHasFailed
  <2> QED BY <2>2, <2>4, <2>5 DEF OrderInv
<1>11. CASE MarkCompleted(o)
  <2>1. /\ pc[o] = "complete" /\ Call(o, "lookupCompleted", {})
        /\ orderStatus'[o] = "COMPLETED" /\ notes'[o] = "Payment authorized"
        /\ UNCHANGED <<stock, held, payment, events, replies>>
    BY <1>11 DEF MarkCompleted, WriteAcked, Write, TypeOK
  <2>2. /\ SentOnce(o)' /\ pc'[o] = "lookupCompleted"
        /\ Fresh(o, "ReleaseStock")' /\ Fresh(o, "CancelPayment")'
    BY <1>a, <2>1, CallSentOnce, NotYetSentAt DEF OrderInv, SentOnce, Ops
  <2>3. StatusAtPoint(o)' /\ Backed(o)' /\ RolledBackInv(o)' /\ Announced(o)'
    BY <2>1, <2>2 DEF OrderInv, StatusAtPoint, Backed, RolledBackInv, PaymentHasFailed, Announced
  <2> QED BY <2>2, <2>3 DEF OrderInv
<1>12. CASE CompletionFails(o)
  <2>1. /\ pc[o] = "complete" /\ pc'[o] = "error"
        /\ orderStatus'[o] \in {orderStatus[o], "COMPLETED"}
        /\ notes'[o] \in {notes[o], "Payment authorized"}
        /\ UNCHANGED <<stock, held, payment, events, requests, replies>>
    BY <1>12 DEF CompletionFails, WriteFails, Write, Goto, TypeOK
  <2>2. SentOnce(o)' /\ Fresh(o, "ReleaseStock")' /\ Fresh(o, "CancelPayment")'
    BY <2>1, GotoSentOnce, NotYetSentAt DEF OrderInv, SentOnce, Ops
  <2>3. /\ orderStatus[o] \notin {"COMPLETED", "FAILED"}
        /\ notes[o] # "Payment failed. Stock released."
    BY <2>1 DEF OrderInv, StatusAtPoint, Ended
  <2>4. StatusAtPoint(o)' /\ Backed(o)' /\ Announced(o)'
    BY <2>1, <2>2, <2>3 DEF OrderInv, StatusAtPoint, Backed, Announced, Ended
  <2>5. RolledBackInv(o)'
    BY <2>1 DEF OrderInv, RolledBackInv, PaymentHasFailed
  <2> QED BY <2>2, <2>4, <2>5 DEF OrderInv
<1>13. CASE PublishFailed(o)
  <2>1. /\ pc[o] = "publishFailed" /\ pc'[o] = "error"
        /\ events' \subseteq events \cup {[type |-> "order-failed", order |-> o]}
        /\ UNCHANGED <<stock, held, payment, orderStatus, notes, requests, replies>>
    BY <1>13 DEF PublishFailed, Publish, Goto, TypeOK
  <2>2. SentOnce(o)'
    BY <2>1, GotoSentOnce, NotYetSentAt
  <2>3. StatusAtPoint(o)' /\ Backed(o)' /\ RolledBackInv(o)'
    BY <2>1 DEF OrderInv, StatusAtPoint, Backed, RolledBackInv, PaymentHasFailed, Holds, NoHold,
                Fresh, Ended
  <2>4. Announced(o)'
    BY <2>1 DEF OrderInv, StatusAtPoint, Announced, Ended
  <2> QED BY <2>2, <2>3, <2>4 DEF OrderInv
<1>14. CASE PublishCompleted(o)
  <2>1. /\ pc[o] = "publishCompleted" /\ pc'[o] = "ok"
        /\ events' \subseteq events \cup {[type |-> "order-completed", order |-> o]}
        /\ UNCHANGED <<stock, held, payment, orderStatus, notes, requests, replies>>
    BY <1>14 DEF PublishCompleted, Publish, Goto, TypeOK
  <2>2. SentOnce(o)'
    BY <2>1, GotoSentOnce, NotYetSentAt
  <2>3. StatusAtPoint(o)' /\ Backed(o)' /\ RolledBackInv(o)'
    BY <2>1 DEF OrderInv, StatusAtPoint, Backed, RolledBackInv, PaymentHasFailed, Holds, NoHold,
                Fresh, Ended
  <2>4. Announced(o)'
    BY <2>1 DEF OrderInv, StatusAtPoint, Announced, Ended
  <2> QED BY <2>2, <2>3, <2>4 DEF OrderInv
<1>15. CASE EmailKnown(o)
  <2>1. /\ \/ pc[o] = "lookupFailed" /\ pc'[o] = "publishFailed"
           \/ pc[o] = "lookupCompleted" /\ pc'[o] = "publishCompleted"
        /\ requests' \subseteq requests
        /\ UNCHANGED <<stock, held, payment, orderStatus, notes, events, replies>>
    BY <1>15 DEF EmailKnown, Goto, TypeOK
  <2>2. SentOnce(o)' /\ \A op \in Ops : Fresh(o, op) => Fresh(o, op)'
    BY <2>1, GotoSentOnce, NotYetSentAt
  <2>3. StatusAtPoint(o)' /\ Announced(o)'
    BY <2>1 DEF OrderInv, StatusAtPoint, Announced, Ended
  <2>4. Backed(o)' /\ RolledBackInv(o)'
    BY <2>1, <2>2 DEF OrderInv, Backed, RolledBackInv, PaymentHasFailed, Ops
  <2> QED BY <2>2, <2>3, <2>4 DEF OrderInv
<1> QED BY <1>1, <1>2, <1>3, <1>4, <1>5, <1>6, <1>7, <1>8, <1>9, <1>10, <1>11, <1>12,
           <1>13, <1>14, <1>15 DEF CreateOrder

(* Answering an RPC adds its reply and nothing else.                       *)
LEMMA AnswerSentOnce ==
  ASSUME NEW o \in Orders, OrderInv(o), NEW op \in Ops, NEW ok \in BOOLEAN, Answer(o, op, ok)
  PROVE  /\ SentOnce(o)'
         /\ ~ Fresh(o, op)
         /\ requests' \subseteq requests
         /\ \A q \in Ops : q # op /\ Fresh(o, q) => Fresh(o, q)'
         /\ \A q \in Ops, k \in BOOLEAN : Reply(o, q, k) \in replies'
              => Reply(o, q, k) \in replies \/ (q = op /\ k = ok)
         /\ UNCHANGED <<pc, orderStatus, notes, events>>
<1>1. ~ Fresh(o, op) /\ requests' \subseteq requests /\ Request(o, op) \notin requests'
  BY DEF Answer, Fresh
<1>2. \A q \in Ops, k \in BOOLEAN : Reply(o, q, k) \in replies'
        => Reply(o, q, k) \in replies \/ (q = op /\ k = ok)
  BY DEF Answer, Reply
<1>3. \A q \in Ops : q # op /\ Fresh(o, q) => Fresh(o, q)'
  BY <1>1, <1>2 DEF Fresh
<1>4. UNCHANGED <<pc, orderStatus, notes, events>>
  BY DEF Answer, orderDB
<1>5. \A q \in NotYetSent(pc[o]) : Fresh(o, q)'
  BY <1>1, <1>3, NotYetSentOps DEF OrderInv, SentOnce
<1>6. \A q \in Ops, k \in BOOLEAN : Reply(o, q, k) \in replies' => Request(o, q) \notin requests'
  BY <1>1, <1>2 DEF OrderInv, SentOnce
<1> QED BY <1>1, <1>2, <1>3, <1>4, <1>5, <1>6 DEF SentOnce

LEMMA ReserveStockKeeps ==
  ASSUME TypeOK, NEW o \in Orders, OrderInv(o), ReserveStock(o)
  PROVE  OrderInv(o)'
<1>1. PICK ok \in BOOLEAN :
        /\ Answer(o, "ReserveStock", ok)
        /\ UNCHANGED payment
        /\ UNCHANGED ledger \/ ReserveEffect(o)
        /\ ok => ReserveEffect(o)
  BY DEF ReserveStock
<1>2. /\ SentOnce(o)' /\ requests' \subseteq requests
      /\ \A q \in {"ReleaseStock", "CancelPayment"} : Fresh(o, q) => Fresh(o, q)'
      /\ \A q \in {"ReleaseStock", "ProcessPayment"}, k \in BOOLEAN :
           Reply(o, q, k) \in replies' => Reply(o, q, k) \in replies
      /\ UNCHANGED <<pc, orderStatus, notes, events>>
      /\ Request(o, "ReserveStock") \in requests
  BY <1>1, AnswerSentOnce DEF Ops, Answer
<1>3. held'[o] \in {held[o], Demand[o]} /\ held[o] \in {NoHold, Demand[o]}
  BY <1>1 DEF ReserveEffect, Reserve, ledger, TypeOK, LedgerTypeOK, OrderInv, Backed
<1>4. ok => held'[o] = Demand[o]
  BY <1>1, <1>3 DEF ReserveEffect, Reserve, Holds, ledger, TypeOK, LedgerTypeOK
<1>5. Reply(o, "ReserveStock", TRUE) \in replies' => ok
  BY <1>1, AnswerSentOnce DEF OrderInv, SentOnce, Ops, Answer
<1>6. Backed(o)'
  BY <1>1, <1>2, <1>3, <1>4, <1>5 DEF OrderInv, Backed, NoHold
<1>7. RolledBackInv(o)'
  BY <1>2 DEF OrderInv, RolledBackInv, PaymentHasFailed
<1>8. StatusAtPoint(o)' /\ Announced(o)'
  BY <1>2 DEF OrderInv, StatusAtPoint, Announced
<1> QED BY <1>2, <1>6, <1>7, <1>8 DEF OrderInv

LEMMA ReleaseStockKeeps ==
  ASSUME TypeOK, NEW o \in Orders, OrderInv(o), ReleaseStock(o)
  PROVE  OrderInv(o)'
<1>1. PICK ok \in BOOLEAN :
        /\ Answer(o, "ReleaseStock", ok)
        /\ UNCHANGED payment
        /\ UNCHANGED ledger \/ ReleaseEffect(o)
        /\ ok => ReleaseEffect(o)
  BY DEF ReleaseStock
<1>2. /\ SentOnce(o)' /\ requests' \subseteq requests /\ ~ Fresh(o, "ReleaseStock")
      /\ \A q \in {"ReserveStock", "ProcessPayment"}, k \in BOOLEAN :
           Reply(o, q, k) \in replies' => Reply(o, q, k) \in replies
      /\ Reply(o, "ReleaseStock", TRUE) \in replies'
           => Reply(o, "ReleaseStock", TRUE) \in replies \/ ok
      /\ UNCHANGED <<pc, orderStatus, notes, events>>
  BY <1>1, AnswerSentOnce DEF Ops
<1>3. /\ pc[o] \notin {"new", "reserve", "charge", "complete", "lookupCompleted",
                       "publishCompleted", "ok"}
      /\ orderStatus[o] # "COMPLETED"
  BY <1>2, NotYetSentAt DEF OrderInv, SentOnce, Backed, Ops
<1>4. held'[o] \in {held[o], NoHold} /\ held[o] \in {NoHold, Demand[o]}
  BY <1>1 DEF ReleaseEffect, Release, ledger, TypeOK, LedgerTypeOK, OrderInv, Backed
<1>5. ok => held'[o] = NoHold
  BY <1>1 DEF ReleaseEffect, Release, Holds, ledger, TypeOK, LedgerTypeOK
<1>6. Backed(o)'
  BY <1>1, <1>2, <1>3, <1>4 DEF OrderInv, Backed, NoHold
<1>7. RolledBackInv(o)'
  BY <1>2, <1>4, <1>5 DEF OrderInv, RolledBackInv, PaymentHasFailed, Holds, NoHold
<1>8. StatusAtPoint(o)' /\ Announced(o)'
  BY <1>2 DEF OrderInv, StatusAtPoint, Announced
<1> QED BY <1>2, <1>6, <1>7, <1>8 DEF OrderInv

LEMMA ProcessPaymentKeeps ==
  ASSUME TypeOK, NEW o \in Orders, OrderInv(o), ProcessPayment(o)
  PROVE  OrderInv(o)'
<1>1. PICK ok \in BOOLEAN :
        /\ Answer(o, "ProcessPayment", ok)
        /\ UNCHANGED ledger
        /\ UNCHANGED payment \/ ChargeEffect(o)
        /\ ok => payment'[o] = "AUTHORIZED"
  <2>1. (payment'[o] = "AUTHORIZED") \in BOOLEAN
    OBVIOUS
  <2> QED BY <2>1 DEF ProcessPayment
<1>2. /\ SentOnce(o)' /\ requests' \subseteq requests
      /\ \A q \in {"ReleaseStock", "CancelPayment"} : Fresh(o, q) => Fresh(o, q)'
      /\ \A q \in {"ReserveStock", "ReleaseStock"}, k \in BOOLEAN :
           Reply(o, q, k) \in replies' => Reply(o, q, k) \in replies
      /\ Reply(o, "ProcessPayment", TRUE) \in replies'
           => Reply(o, "ProcessPayment", TRUE) \in replies \/ ok
      /\ UNCHANGED <<pc, orderStatus, notes, events>>
  BY <1>1, AnswerSentOnce DEF Ops
<1>3. payment[o] # "none" => payment'[o] = payment[o]
  BY <1>1 DEF ChargeEffect
<1>4. Backed(o)'
  BY <1>1, <1>2, <1>3 DEF OrderInv, Backed, NoHold, ledger
<1>5. RolledBackInv(o)'
  BY <1>1, <1>2 DEF OrderInv, RolledBackInv, PaymentHasFailed, Holds, NoHold, ledger
<1>6. StatusAtPoint(o)' /\ Announced(o)'
  BY <1>2 DEF OrderInv, StatusAtPoint, Announced
<1> QED BY <1>2, <1>4, <1>5, <1>6 DEF OrderInv

LEMMA CancelPaymentKeeps ==
  ASSUME TypeOK, NEW o \in Orders, OrderInv(o), CancelPayment(o)
  PROVE  OrderInv(o)'
<1>1. PICK ok \in BOOLEAN : Answer(o, "CancelPayment", ok) /\ UNCHANGED ledger
  BY DEF CancelPayment
<1>2. /\ SentOnce(o)' /\ requests' \subseteq requests /\ ~ Fresh(o, "CancelPayment")
      /\ \A q \in {"ReserveStock", "ReleaseStock"}, k \in BOOLEAN :
           Reply(o, q, k) \in replies' => Reply(o, q, k) \in replies
      /\ UNCHANGED <<pc, orderStatus, notes, events>>
  BY <1>1, AnswerSentOnce DEF Ops
<1>3. /\ pc[o] \notin {"new", "reserve", "charge", "complete", "lookupCompleted",
                       "publishCompleted", "ok"}
      /\ orderStatus[o] # "COMPLETED"
  BY <1>2, NotYetSentAt DEF OrderInv, SentOnce, Backed, Ops
<1>4. Backed(o)'
  BY <1>1, <1>2, <1>3 DEF OrderInv, Backed, NoHold, ledger
<1>5. RolledBackInv(o)'
  BY <1>1, <1>2 DEF OrderInv, RolledBackInv, PaymentHasFailed, Holds, NoHold, ledger
<1>6. StatusAtPoint(o)' /\ Announced(o)'
  BY <1>2 DEF OrderInv, StatusAtPoint, Announced
<1> QED BY <1>2, <1>4, <1>5, <1>6 DEF OrderInv

LEMMA GetProfileKeeps ==
  ASSUME TypeOK, NEW o \in Orders, OrderInv(o), GetProfile(o)
  PROVE  OrderInv(o)'
<1>1. Answer(o, "GetProfile", TRUE) /\ UNCHANGED <<held, payment>>
  BY DEF GetProfile, ledger
<1>2. /\ SentOnce(o)' /\ requests' \subseteq requests
      /\ \A q \in {"ReleaseStock", "CancelPayment"} : Fresh(o, q) => Fresh(o, q)'
      /\ \A q \in {"ReserveStock", "ReleaseStock", "ProcessPayment"} :
           Reply(o, q, TRUE) \in replies' => Reply(o, q, TRUE) \in replies
      /\ UNCHANGED <<pc, orderStatus, notes, events>>
  BY <1>1, AnswerSentOnce DEF Ops
<1>3. Backed(o)' /\ RolledBackInv(o)'
  BY <1>1, <1>2 DEF OrderInv, Backed, RolledBackInv, PaymentHasFailed, Holds, NoHold
<1>4. StatusAtPoint(o)' /\ Announced(o)'
  BY <1>2 DEF OrderInv, StatusAtPoint, Announced
<1> QED BY <1>2, <1>3, <1>4 DEF OrderInv

-----------------------------------------------------------------------------
(* The invariant holds at the start and every step keeps it.               *)

LEMMA SagaInvInit == Init => SagaInv
<1> SUFFICES ASSUME Init, NEW o \in Orders PROVE OrderInv(o)
  BY TypeInit DEF SagaInv
<1>1. SentOnce(o)
  BY DEF Init, SentOnce, Fresh
<1>2. held[o] = NoHold /\ pc[o] = "new" /\ orderStatus[o] = "none" /\ notes[o] = ""
  BY DEF Init, LedgerInit
<1>3. StatusAtPoint(o) /\ Backed(o) /\ RolledBackInv(o) /\ Announced(o)
  BY <1>2 DEF Init, StatusAtPoint, Backed, RolledBackInv, PaymentHasFailed, Announced
<1> QED BY <1>1, <1>3 DEF OrderInv

LEMMA CrashKeeps ==
  ASSUME TypeOK, NEW o \in Orders, OrderInv(o), Crash
  PROVE  OrderInv(o)'
<1>1. /\ pc'[o] \in {pc[o], "crashed"}
      /\ pc[o] \in Ended => pc'[o] = pc[o]
      /\ requests' \subseteq requests
      /\ UNCHANGED <<stock, held, payment, orderStatus, notes, events, replies>>
  <2>1. Running \cap Ended = {}
    BY DEF Running, Ended, Waiting, Awaits
  <2> QED BY <2>1 DEF Crash, ledger, orderDB
<1>2. SentOnce(o)'
  BY <1>1, GotoSentOnce, NotYetSentAt
<1>3. \A op \in Ops : Fresh(o, op) => Fresh(o, op)'
  BY <1>1 DEF Fresh
<1>4. StatusAtPoint(o)' /\ Announced(o)'
  BY <1>1 DEF OrderInv, StatusAtPoint, Announced, Ended
<1>5. Backed(o)'
  BY <1>1, <1>3 DEF OrderInv, Backed, NoHold, Ops
<1>6. RolledBackInv(o)'
  BY <1>1 DEF OrderInv, RolledBackInv, PaymentHasFailed, Holds, NoHold
<1> QED BY <1>2, <1>4, <1>5, <1>6 DEF OrderInv

LEMMA SagaInvNext ==
  ASSUME SagaInv, [Next]_vars
  PROVE  SagaInv'
<1> USE DEF SagaInv
<1>1. TypeOK'
  BY TypeNext
<1>2. SUFFICES ASSUME NEW q \in Orders PROVE OrderInv(q)'
  BY <1>1
<1>3. ASSUME NEW o \in Orders, CreateOrder(o) PROVE OrderInv(q)'
  BY <1>3, CreateOrderKeeps, CreateOrderUntouched, UntouchedKeeps
<1>4. ASSUME NEW o \in Orders, Serve(o) PROVE OrderInv(q)'
  BY <1>4, ReserveStockKeeps, ReleaseStockKeeps, ProcessPaymentKeeps, CancelPaymentKeeps,
     GetProfileKeeps, ServeUntouched, UntouchedKeeps DEF Serve
<1>5. ASSUME NEW o \in Orders, Cancel(o) PROVE OrderInv(q)'
  <2>1. Untouched(q)
    BY <1>5 DEF Cancel, Untouched, ledger, orderDB, net
  <2> QED BY <2>1, UntouchedKeeps
<1>6. CASE Crash
  BY <1>6, CrashKeeps
<1>7. CASE UNCHANGED vars
  <2>1. Untouched(q)
    BY <1>7 DEF vars, Untouched
  <2> QED BY <2>1, UntouchedKeeps
<1> QED BY <1>3, <1>4, <1>5, <1>6, <1>7 DEF Next

(* The inductive invariant of the saga.                                    *)
THEOREM SagaInvariant == Spec => []SagaInv
  BY SagaInvInit, SagaInvNext, PTL DEF Spec

-----------------------------------------------------------------------------
(* The properties.                                                         *)

(* A COMPLETED order is backed by its stock and its payment, for good.     *)
THEOREM SagaCompletedIsBacked == Spec => []CompletedIsBacked
<1>1. SagaInv => CompletedIsBacked
  BY DEF SagaInv, OrderInv, Backed, CompletedIsBacked, Fresh
<1> QED BY <1>1, SagaInvariant, PTL

(* An acknowledged rollback leaves no stock behind.                        *)
THEOREM SagaRollbackFreesStock == Spec => []RollbackFreesStock
<1>1. SagaInv => RollbackFreesStock
  BY DEF SagaInv, OrderInv, RolledBackInv, PaymentHasFailed, RollbackFreesStock
<1> QED BY <1>1, SagaInvariant, PTL

(* Events agree with the order row.                                        *)
THEOREM SagaEventsTruthful == Spec => []EventsTruthful
<1>1. SagaInv => EventsTruthful
  <2> SUFFICES ASSUME SagaInv, NEW e \in events
               PROVE  IF e.type = "order-completed" THEN orderStatus[e.order] = "COMPLETED"
                                                    ELSE orderStatus[e.order] # "COMPLETED"
    BY DEF EventsTruthful
  <2>1. /\ e \in [type : {"order-failed", "order-completed"}, order : Orders]
        /\ e = [type |-> e.type, order |-> e.order]
    BY DEF SagaInv, TypeOK
  <2>2. Announced(e.order)
    BY <2>1 DEF SagaInv, OrderInv
  <2>3. CASE e.type = "order-completed"
    BY <2>1, <2>2, <2>3 DEF Announced
  <2>4. CASE e.type = "order-failed"
    BY <2>1, <2>2, <2>4 DEF Announced
  <2> QED BY <2>1, <2>3, <2>4
<1> QED BY <1>1, SagaInvariant, PTL

(* COMPLETED and FAILED are never overwritten.                             *)
THEOREM SagaStatusFinal == Spec => StatusFinal
<1>1. ASSUME SagaInv, [Next]_vars, NEW q \in Orders, orderStatus[q] \in {"COMPLETED", "FAILED"}
      PROVE  orderStatus'[q] = orderStatus[q]
  <2>1. TypeOK /\ pc[q] \in {"lookupCompleted", "publishCompleted",
                            "lookupFailed", "publishFailed"} \cup Ended
    BY <1>1 DEF SagaInv, OrderInv, StatusAtPoint
  <2>2. ASSUME NEW o \in Orders, CreateOrder(o) PROVE orderStatus'[q] = orderStatus[q]
    <3>1. CASE o # q
      BY <2>1, <2>2, <3>1, CreateOrderUntouched DEF Untouched
    <3>2. CASE o = q
      BY <2>1, <2>2, <3>2 DEF CreateOrder, SavePending, SaveFails, StockReserved,
         ReservationFailed, Unreserved, PaymentAuthorized, PaymentFailed, RolledBack, Refunded,
         MarkFailed, MarkCompleted, CompletionFails, EmailKnown, PublishFailed, PublishCompleted, Ended, orderDB
    <3> QED BY <3>1, <3>2
  <2>3. ASSUME NEW o \in Orders, Serve(o) PROVE orderStatus' = orderStatus
    BY <2>3, ServeSummarised DEF ServeSummary, Answer, orderDB
  <2>4. ASSUME NEW o \in Orders, Cancel(o) PROVE orderStatus' = orderStatus
    BY <2>4 DEF Cancel, orderDB
  <2>5. CASE Crash
    BY <2>5 DEF Crash, orderDB
  <2>6. CASE UNCHANGED vars
    BY <2>6 DEF vars
  <2> QED BY <1>1, <2>2, <2>3, <2>4, <2>5, <2>6 DEF Next
<1>2. SagaInv /\ [Next]_vars =>
        [\A o \in Orders : orderStatus[o] \in {"COMPLETED", "FAILED"}
                             => orderStatus'[o] = orderStatus[o]]_vars
  BY <1>1
<1> QED BY <1>2, SagaInvariant, PTL DEF Spec, StatusFinal

-----------------------------------------------------------------------------
(* The order book.  What is sold is held, and what is held was there.      *)

(* An order about to be completed fits into what is not sold yet.          *)
LEMMA CompletionFits ==
  ASSUME SagaInv, StockConserved, NEW p \in Products,
         NEW o \in Orders, pc[o] = "complete", Outcome[o] = "open"
  PROVE  Book!Sold(p) + Demand[o][p] <= InitStock[p]
<1> DEFINE f == [q \in 1..NumOrders |-> IF Outcome[q] = "COMPLETED" THEN Demand[q][p] ELSE 0]
           g == [f EXCEPT ![o] = Demand[o][p]]
           h == [q \in Orders |-> held[q][p]]
<1>1. NumOrders \in Nat /\ o \in 1..NumOrders /\ Orders = 1..NumOrders
  BY LedgerAssumption DEF Orders
<1>2. /\ \A q \in Orders : Demand[q][p] \in Nat /\ held[q][p] \in Nat
      /\ stock[p] \in Nat /\ InitStock[p] \in Nat
  BY LedgerAssumption DEF SagaInv, TypeOK, LedgerTypeOK
<1>3. f \in [1..NumOrders -> Int] /\ f[o] = 0
  BY <1>1, <1>2
<1>4. g \in [1..NumOrders -> Int] /\ h \in [1..NumOrders -> Int]
  BY <1>1, <1>2
<1>5. ASSUME NEW q \in 1..NumOrders PROVE g[q] <= h[q]
  <2>1. OrderInv(q) /\ q \in Orders
    BY <1>1 DEF SagaInv
  <2>2. CASE q = o
    <3>1. held[o] = Demand[o]
      BY <2>1, <2>2 DEF OrderInv, Backed
    <3> QED BY <1>1, <1>2, <2>2, <3>1
  <2>3. CASE q # o /\ orderStatus[q] = "COMPLETED"
    <3>1. held[q] = Demand[q]
      BY <2>1, <2>3 DEF OrderInv, Backed
    <3> QED BY <1>1, <1>2, <2>1, <2>3, <3>1
  <2>4. CASE q # o /\ orderStatus[q] # "COMPLETED"
    <3>1. Outcome[q] # "COMPLETED"
      BY <2>1, <2>4 DEF Outcome
    <3> QED BY <1>1, <1>2, <2>1, <2>4, <3>1
  <2> QED BY <2>2, <2>3, <2>4
<1>6. Book!Sold(p) = SumTo(f, NumOrders) /\ HeldUnits(p) = SumTo(h, NumOrders)
  <2>1. Book!Sold(p) = Book!SumTo(f, NumOrders)
    BY DEF Book!Sold
  <2>2. Book!SumTo(f, NumOrders) = SumTo(f, NumOrders)
    BY DEF Book!SumTo, SumTo
  <2>3. HeldUnits(p) = SumTo(h, NumOrders)
    BY DEF HeldUnits
  <2> QED BY <2>1, <2>2, <2>3
<1>7. stock[p] + HeldUnits(p) = InitStock[p]
  BY DEF StockConserved
<1> HIDE DEF f, g, h
<1>8. SumTo(g, NumOrders) = SumTo(f, NumOrders) + Demand[o][p] - f[o]
  <2> DEFINE units == Demand[o][p]
  <2>1. NumOrders \in Nat /\ o \in 1..NumOrders /\ units \in Int
    BY <1>1, <1>2
  <2>2. g = [f EXCEPT ![o] = units]
    BY DEF g
  <2>3. f \in [1..NumOrders -> Int]
    BY <1>3
  <2> HIDE DEF units
  <2>4. SumTo(g, NumOrders) = SumTo(f, NumOrders) + units - f[o]
    BY ONLY <2>1, <2>2, <2>3, SumToUpdate
  <2> QED BY <2>4 DEF units
<1>9. SumTo(g, NumOrders) <= SumTo(h, NumOrders)
  BY <1>1, <1>4, <1>5, SumToMonotone
<1>10. SumTo(f, NumOrders) \in Int /\ SumTo(h, NumOrders) \in Int
  BY <1>1, <1>3, <1>4, SumToType
<1> QED BY <1>2, <1>3, <1>6, <1>7, <1>8, <1>9, <1>10

(* Writing the status of an order decides it or leaves it open.            *)
LEMMA OutcomeOfWrite ==
  ASSUME TypeOK, NEW o \in Orders, NEW s \in Statuses,
         orderStatus' = [orderStatus EXCEPT ![o] = s]
  PROVE  Outcome' = [Outcome EXCEPT ![o] = IF s \in {"COMPLETED", "FAILED"} THEN s ELSE "open"]
  BY DEF TypeOK, Outcome

(* Every step of an order's goroutine is one of the book, or none.         *)
LEMMA BookStep ==
  ASSUME SagaInv, StockConserved, NEW o \in Orders, CreateOrder(o)
  PROVE  [Book!Next]_Outcome
<1>1. TypeOK /\ OrderInv(o) /\ o \in 1..NumOrders
  BY DEF SagaInv, Orders
<1>2. CASE UNCHANGED orderStatus
  BY <1>2 DEF Outcome
<1>3. CASE ~ UNCHANGED orderStatus
  <2>1. \/ pc[o] = "new" /\ orderStatus' = [orderStatus EXCEPT ![o] = "PENDING"]
        \/ pc[o] \in {"failStock", "failPayment"} /\ orderStatus' = [orderStatus EXCEPT ![o] = "FAILED"]
        \/ pc[o] = "complete" /\ orderStatus' = [orderStatus EXCEPT ![o] = "COMPLETED"]
    BY <1>3 DEF CreateOrder, SavePending, SaveFails, StockReserved, ReservationFailed,
       Unreserved, PaymentAuthorized, PaymentFailed, RolledBack, Refunded, MarkFailed,
       MarkCompleted, CompletionFails, EmailKnown, PublishFailed, PublishCompleted, WriteAcked, WriteFails,
       Write, orderDB
  <2>2. Outcome[o] = "open"
    <3>1. orderStatus[o] \notin {"COMPLETED", "FAILED"}
      BY <1>1, <2>1 DEF OrderInv, StatusAtPoint, Ended
    <3> QED BY <3>1 DEF Outcome
  <2>3. CASE pc[o] = "new" /\ orderStatus' = [orderStatus EXCEPT ![o] = "PENDING"]
    <3>1. Outcome' = [Outcome EXCEPT ![o] = "open"]
      BY <1>1, <2>3, OutcomeOfWrite DEF Statuses
    <3>2. Outcome' = Outcome
      BY <2>2, <3>1 DEF Outcome
    <3> QED BY <3>2
  <2>4. CASE pc[o] \in {"failStock", "failPayment"} /\ orderStatus' = [orderStatus EXCEPT ![o] = "FAILED"]
    <3>1. Outcome' = [Outcome EXCEPT ![o] = "FAILED"]
      BY <1>1, <2>4, OutcomeOfWrite DEF Statuses
    <3> QED BY <1>1, <2>2, <3>1 DEF Book!Next, Book!Fail
  <2>5. CASE pc[o] = "complete" /\ orderStatus' = [orderStatus EXCEPT ![o] = "COMPLETED"]
    <3>1. Outcome' = [Outcome EXCEPT ![o] = "COMPLETED"]
      BY <1>1, <2>5, OutcomeOfWrite DEF Statuses
    <3>2. \A p \in Products : Book!Sold(p) + Demand[o][p] <= InitStock[p]
      BY <2>2, <2>5, CompletionFits
    <3> QED BY <1>1, <2>2, <3>1, <3>2 DEF Book!Next, Book!Complete
  <2> QED BY <2>1, <2>3, <2>4, <2>5
<1> QED BY <1>2, <1>3

(* Whatever fails, orders are decided once and stock is never oversold.    *)
THEOREM SagaImplementsBook == Spec => ImplementsBook
<1>1. Init => Book!Init
  BY DEF Init, Book!Init, Outcome, Orders
<1>2. SagaInv /\ StockConserved /\ [Next]_vars => [Book!Next]_Outcome
  <2> SUFFICES ASSUME SagaInv, StockConserved, [Next]_vars PROVE [Book!Next]_Outcome
    OBVIOUS
  <2>1. ASSUME NEW o \in Orders, Serve(o) PROVE orderStatus' = orderStatus
    BY <2>1, ServeSummarised DEF ServeSummary, Answer, orderDB, SagaInv
  <2>2. ASSUME NEW o \in Orders, Cancel(o) PROVE orderStatus' = orderStatus
    BY <2>2 DEF Cancel, orderDB
  <2>3. CASE Crash
    BY <2>3 DEF Crash, orderDB, Outcome
  <2>4. CASE UNCHANGED vars
    BY <2>4 DEF vars, Outcome
  <2> QED BY <2>1, <2>2, <2>3, <2>4, BookStep DEF Next, Outcome
<1> QED BY <1>1, <1>2, SagaInvariant, SagaConservesStock, PTL DEF Spec, ImplementsBook, Book!Spec
-----------------------------------------------------------------------------
(* What the book promises of itself.                                       *)

BookInv ==
  /\ Outcome \in [Orders -> {"open", "COMPLETED", "FAILED"}]
  /\ Book!NeverOversold

LEMMA SoldIsInteger ==
  ASSUME NEW p \in Products
  PROVE  Book!Sold(p) \in Int
<1> DEFINE f == [q \in 1..NumOrders |-> IF Outcome[q] = "COMPLETED" THEN Demand[q][p] ELSE 0]
<1>1. NumOrders \in Nat /\ f \in [1..NumOrders -> Int]
  BY LedgerAssumption DEF Orders
<1>2. Book!Sold(p) = SumTo(f, NumOrders)
  BY DEF Book!Sold, Book!SumTo, SumTo
<1> HIDE DEF f
<1> QED BY <1>1, <1>2, SumToType

(* Deciding an open order sells its demand or nothing.                     *)
LEMMA SoldByDecision ==
  ASSUME Outcome \in [Orders -> {"open", "COMPLETED", "FAILED"}],
         NEW o \in Orders, Outcome[o] = "open",
         NEW verdict \in {"COMPLETED", "FAILED"}, Outcome' = [Outcome EXCEPT ![o] = verdict],
         NEW p \in Products
  PROVE  Book!Sold(p)' = Book!Sold(p) + (IF verdict = "COMPLETED" THEN Demand[o][p] ELSE 0)
<1> DEFINE f == [q \in 1..NumOrders |-> IF Outcome[q] = "COMPLETED" THEN Demand[q][p] ELSE 0]
           g == [q \in 1..NumOrders |-> IF Outcome'[q] = "COMPLETED" THEN Demand[q][p] ELSE 0]
           units == IF verdict = "COMPLETED" THEN Demand[o][p] ELSE 0
<1>1. NumOrders \in Nat /\ o \in 1..NumOrders /\ f \in [1..NumOrders -> Int]
  BY LedgerAssumption DEF Orders
<1>2. units \in Int /\ f[o] = 0
  <2>1. Demand[o][p] \in Nat
    BY LedgerAssumption
  <2> QED BY <1>1, <2>1
<1>3. g = [f EXCEPT ![o] = units]
  BY DEF Orders
<1>4. Book!Sold(p) = SumTo(f, NumOrders)
  BY DEF Book!Sold, Book!SumTo, SumTo
<1>5. Book!Sold(p)' = SumTo(g, NumOrders)
  BY DEF Book!Sold, Book!SumTo, SumTo
<1>6. SumTo(f, NumOrders) \in Int
  <2> HIDE DEF f
  <2> QED BY <1>1, SumToType
<1> HIDE DEF f, g, units
<1>7. SumTo(g, NumOrders) = SumTo(f, NumOrders) + units - f[o]
  BY <1>1, <1>2, <1>3, SumToUpdate
<1> QED BY <1>2, <1>4, <1>5, <1>6, <1>7 DEF units

(* The book never sells more than there was.                               *)
LEMMA BookNeverOversells == Book!Spec => [](Book!NeverOversold)
<1>1. Book!Init => BookInv
  <2> SUFFICES ASSUME Book!Init, NEW p \in Products PROVE Book!Sold(p) <= InitStock[p]
    BY DEF Book!Init, BookInv, Book!NeverOversold, Orders
  <2> DEFINE f == [q \in 1..NumOrders |-> IF Outcome[q] = "COMPLETED" THEN Demand[q][p] ELSE 0]
  <2>1. f = [q \in 1..NumOrders |-> 0]
    BY DEF Book!Init
  <2>2. Book!Sold(p) = SumTo(f, NumOrders)
    BY DEF Book!Sold, Book!SumTo, SumTo
  <2>3. SumTo([q \in 1..NumOrders |-> 0], NumOrders) = 0
    BY SumToZero, LedgerAssumption
  <2>4. Book!Sold(p) = 0
    BY <2>1, <2>2, <2>3
  <2>5. InitStock[p] \in Nat
    BY LedgerAssumption
  <2> QED BY <2>4, <2>5
<1>2. BookInv /\ [Book!Next]_Outcome => BookInv'
  <2> SUFFICES ASSUME BookInv, [Book!Next]_Outcome PROVE BookInv'
    OBVIOUS
  <2>1. ASSUME NEW o \in Orders, Book!Complete(o) PROVE BookInv'
    <3>1. Outcome[o] = "open" /\ Outcome' = [Outcome EXCEPT ![o] = "COMPLETED"]
      BY <2>1 DEF Book!Complete
    <3>2. ASSUME NEW p \in Products PROVE Book!Sold(p)' <= InitStock[p]
      <4>1. Book!Sold(p) + Demand[o][p] <= InitStock[p]
        BY <2>1 DEF Book!Complete
      <4>2. Book!Sold(p)' = Book!Sold(p) + Demand[o][p]
        BY <3>1, SoldByDecision DEF BookInv
      <4> QED BY <4>1, <4>2
    <3> QED BY <3>1, <3>2 DEF BookInv, Book!NeverOversold
  <2>2. ASSUME NEW o \in Orders, Book!Fail(o) PROVE BookInv'
    <3>1. Outcome[o] = "open" /\ Outcome' = [Outcome EXCEPT ![o] = "FAILED"]
      BY <2>2 DEF Book!Fail
    <3>2. ASSUME NEW p \in Products PROVE Book!Sold(p)' <= InitStock[p]
      <4>1. Book!Sold(p)' = Book!Sold(p) + 0
        BY <3>1, SoldByDecision DEF BookInv
      <4> QED BY <4>1, SoldIsInteger DEF BookInv, Book!NeverOversold
    <3> QED BY <3>1, <3>2 DEF BookInv, Book!NeverOversold
  <2>3. CASE UNCHANGED Outcome
    BY <2>3 DEF BookInv, Book!NeverOversold, Book!Sold
  <2> QED BY <2>1, <2>2, <2>3 DEF Book!Next, Orders
<1>3. BookInv => Book!NeverOversold
  BY DEF BookInv
<1> QED BY <1>1, <1>2, <1>3, PTL DEF Book!Spec

(* All COMPLETED orders together fit into the stock there was at the       *)
(* start, whatever failed on the way.                                      *)
THEOREM SagaNeverOversells == Spec => [](Book!NeverOversold)
  BY SagaImplementsBook, BookNeverOversells, PTL DEF ImplementsBook

-----------------------------------------------------------------------------
(* Faults are contained.  Every call of an order that no fault touched is  *)
(* answered before the order goes on, so what has no positive answer had   *)
(* no effect, and a compensation succeeds.  The orders a fault touched     *)
(* share the stock and the network with it, but not its own part of the    *)
(* state (Untouched).                                                      *)

Calm(o) ==
  /\ \A op \in Ops : ~ (Reply(o, op, TRUE) \in replies /\ Reply(o, op, FALSE) \in replies)
  /\ Reply(o, "ReserveStock", TRUE) \notin replies => ~ Holds(o)
  /\ Reply(o, "ProcessPayment", TRUE) \notin replies => payment[o] # "AUTHORIZED"
  /\ Reply(o, "ReleaseStock", FALSE) \notin replies

(* The request will not be executed any more, or was refused.              *)
Unserved(o, op) == Request(o, op) \notin requests /\ Reply(o, op, TRUE) \notin replies

(* What each way to FAILED leaves behind.                                  *)
CompensatedInv(o) ==
  /\ pc[o] \in {"unreserve", "failStock"} \/ notes[o] = "Stock reservation failed"
       => Unserved(o, "ReserveStock") /\ Unserved(o, "ProcessPayment")
  /\ PaymentHasFailed(o) => Unserved(o, "ProcessPayment")
  /\ pc[o] \in {"refund", "failPayment"} \/ notes[o] = "Payment failed. Stock released."
       => Reply(o, "ReleaseStock", TRUE) \in replies
  /\ notes[o] = "Stock reservation failed" => pc[o] \in {"lookupFailed", "publishFailed"} \cup Ended
  /\ orderStatus[o] = "FAILED"
       => notes[o] \in {"Stock reservation failed", "Payment failed. Stock released."}

CalmInv ==
  /\ SagaInv
  /\ dead \subseteq hit
  /\ \A o \in Orders \ hit : Calm(o) /\ CompensatedInv(o)

(* A step taken for an order is fault-free or hits that order.             *)
LEMMA FaultOfStep ==
  ASSUME NEW o \in Orders, CreateOrder(o) \/ Serve(o) \/ Cancel(o)
  PROVE  Fault(o) \/ NoFault
<1> USE Zenon DEF CallSucceeds, CallFails, CallReturns
<1>1. CASE SavePending(o) \/ SaveFails(o)
  BY <1>1 DEF SavePending, SaveFails, NoFault
<1>2. CASE StockReserved(o) \/ PaymentAuthorized(o)
  BY <1>2 DEF StockReserved, PaymentAuthorized
<1>3. CASE ReservationFailed(o) \/ Unreserved(o)
  BY <1>3 DEF ReservationFailed, Unreserved
<1>4. CASE PaymentFailed(o) \/ RolledBack(o) \/ Refunded(o)
  BY <1>4 DEF PaymentFailed, RolledBack, Refunded
<1>5. CASE MarkFailed(o) \/ MarkCompleted(o) \/ CompletionFails(o)
  BY <1>5 DEF MarkFailed, MarkCompleted, CompletionFails, WriteAcked, WriteFails
<1>6. CASE EmailKnown(o) \/ PublishFailed(o) \/ PublishCompleted(o)
  BY <1>6 DEF EmailKnown, PublishFailed, PublishCompleted, Publish
<1>7. CASE Serve(o)
  BY <1>7, ServeSummarised DEF ServeSummary
<1>8. CASE Cancel(o)
  BY <1>8 DEF Cancel
<1> QED BY <1>1, <1>2, <1>3, <1>4, <1>5, <1>6, <1>7, <1>8 DEF CreateOrder

(* What an order is still untouched by after a step, it was before it.     *)
LEMMA HitsStay ==
  ASSUME [Next]_vars
  PROVE  hit \subseteq hit'
<1>1. ASSUME NEW o \in Orders, CreateOrder(o) \/ Serve(o) \/ Cancel(o) PROVE hit \subseteq hit'
  BY <1>1, FaultOfStep DEF Fault, FaultOn, NoFault
<1>2. CASE Crash
  BY <1>2 DEF Crash, FaultOn
<1>3. CASE UNCHANGED vars
  BY <1>3 DEF vars
<1> QED BY <1>1, <1>2, <1>3 DEF Next

LEMMA StillUnhit ==
  ASSUME NEW o \in Orders, o \notin hit', CreateOrder(o) \/ Serve(o) \/ Cancel(o), CalmInv
  PROVE  /\ TypeOK /\ OrderInv(o) /\ Calm(o) /\ CompensatedInv(o)
         /\ o \notin dead /\ ~ Fault(o)
<1>1. ~ Fault(o)
  BY DEF Fault, FaultOn
<1>2. hit' = hit
  BY <1>1, FaultOfStep DEF NoFault
<1> QED BY <1>1, <1>2 DEF CalmInv, SagaInv

LEMMA UntouchedCalm ==
  ASSUME NEW q \in Orders, SagaInv, Calm(q), CompensatedInv(q), Untouched(q)
  PROVE  Calm(q)' /\ CompensatedInv(q)'
<1> USE DEF Untouched
<1>1. Calm(q)'
  BY DEF Calm, Holds, NoHold, Ops
<1>2. \A op \in Ops : Unserved(q, op) => Unserved(q, op)'
  BY DEF Unserved
<1>3. CompensatedInv(q)'
  BY <1>2 DEF CompensatedInv, PaymentHasFailed, Ops
<1> QED BY <1>1, <1>3

(* Without a fault, and on a context that nobody cancelled, an error is an *)
(* answer of the server.                                                   *)
LEMMA CallFailsCalmly ==
  ASSUME NEW o \in Orders, o \notin dead, ~ Fault(o), NEW lost, CallFails(o, lost)
  PROVE  Reply(o, Awaits[pc[o]], FALSE) \in replies /\ lost = {}
  BY DEF CallFails

LEMMA CallReturnsCalmly ==
  ASSUME NEW o \in Orders, o \notin dead, ~ Fault(o), NEW lost, CallReturns(o, lost)
  PROVE  (\E ok \in BOOLEAN : Reply(o, Awaits[pc[o]], ok) \in replies) /\ lost = {}
  BY CallFailsCalmly DEF CallReturns, CallSucceeds

LEMMA CreateOrderCalm ==
  ASSUME CalmInv, NEW o \in Orders, o \notin hit', CreateOrder(o)
  PROVE  Calm(o)' /\ CompensatedInv(o)'
<1> USE DEF ledger, orderDB, net
<1>a. /\ Awaits["reserve"] = "ReserveStock" /\ Awaits["unreserve"] = "ReleaseStock"
      /\ Awaits["charge"] = "ProcessPayment" /\ Awaits["rollback"] = "ReleaseStock"
      /\ Awaits["refund"] = "CancelPayment"
      /\ Awaits["lookupFailed"] = "GetProfile" /\ Awaits["lookupCompleted"] = "GetProfile"
  BY DEF Awaits
<1>b. /\ TypeOK /\ OrderInv(o) /\ Calm(o) /\ CompensatedInv(o) /\ o \notin dead /\ ~ Fault(o)
  BY StillUnhit
<1>1. UNCHANGED <<held, payment, replies>>
  BY DEF CreateOrder, SavePending, SaveFails, StockReserved, ReservationFailed, Unreserved,
         PaymentAuthorized, PaymentFailed, RolledBack, Refunded, MarkFailed, MarkCompleted,
         CompletionFails, EmailKnown, PublishFailed, PublishCompleted
<1>2. Calm(o)'
  BY <1>1, <1>b DEF Calm, Holds, NoHold
<1>3. ASSUME NEW op \in Ops, requests' \subseteq requests, Unserved(o, op)
      PROVE  Unserved(o, op)'
  BY <1>1, <1>3 DEF Unserved
<1>4. ASSUME NEW next, NEW op \in Ops, Awaits[next] \in Ops, op # Awaits[next],
             Call(o, next, {}), Unserved(o, op)
      PROVE  Unserved(o, op)'
  BY <1>1, <1>4, DistinctOps DEF Unserved, Call
<1>5. CASE SavePending(o)
  <2>1. /\ pc[o] = "new" /\ pc'[o] = "reserve" /\ orderStatus'[o] = "PENDING" /\ notes' = notes
    BY <1>5, <1>b DEF SavePending, Call, Goto, TypeOK
  <2>2. notes[o] \notin {"Stock reservation failed", "Payment failed. Stock released."}
    BY <2>1, <1>b DEF CompensatedInv, OrderInv, StatusAtPoint, Ended
  <2> QED BY <1>2, <2>1, <2>2 DEF CompensatedInv, PaymentHasFailed
<1>6. CASE StockReserved(o)
  <2>1. /\ pc[o] = "reserve" /\ pc'[o] = "charge" /\ UNCHANGED <<orderStatus, notes>>
    BY <1>6, <1>b DEF StockReserved, Call, Goto, TypeOK
  <2>2. notes[o] \notin {"Stock reservation failed", "Payment failed. Stock released."}
    BY <2>1, <1>b DEF CompensatedInv, OrderInv, StatusAtPoint, Ended
  <2> QED BY <1>2, <1>b, <2>1, <2>2 DEF CompensatedInv, PaymentHasFailed
<1>7. CASE ReservationFailed(o)
  <2>1. PICK lost : pc[o] = "reserve" /\ CallFails(o, lost) /\ Call(o, "unreserve", lost)
    BY <1>7 DEF ReservationFailed
  <2>2. Reply(o, "ReserveStock", FALSE) \in replies /\ Call(o, "unreserve", {})
    BY <1>a, <1>b, <2>1, CallFailsCalmly
  <2>3. /\ pc'[o] = "unreserve" /\ UNCHANGED <<orderStatus, notes>>
    BY <1>7, <1>b, <2>2 DEF ReservationFailed, Call, Goto, TypeOK
  <2>4. Unserved(o, "ReserveStock") /\ Unserved(o, "ProcessPayment")
    BY <1>b, <2>1, <2>2, NotYetSentAt DEF Calm, OrderInv, SentOnce, Unserved, Fresh, Ops
  <2>5. Unserved(o, "ReserveStock")' /\ Unserved(o, "ProcessPayment")'
    BY <1>a, <1>4, <2>2, <2>4 DEF Ops
  <2>6. notes[o] \notin {"Stock reservation failed", "Payment failed. Stock released."}
    BY <2>1, <1>b DEF CompensatedInv, OrderInv, StatusAtPoint, Ended
  <2> QED BY <1>2, <1>b, <2>3, <2>5, <2>6 DEF CompensatedInv, PaymentHasFailed
<1>8. CASE Unreserved(o)
  <2>1. /\ pc[o] = "unreserve" /\ pc'[o] = "failStock" /\ UNCHANGED <<orderStatus, notes>>
        /\ requests' \subseteq requests
    BY <1>8, <1>b DEF Unreserved, Goto, TypeOK
  <2>2. Unserved(o, "ReserveStock")' /\ Unserved(o, "ProcessPayment")'
    BY <1>3, <1>b, <2>1 DEF CompensatedInv, Ops
  <2>3. notes[o] \notin {"Stock reservation failed", "Payment failed. Stock released."}
    BY <2>1, <1>b DEF CompensatedInv, OrderInv, StatusAtPoint, Ended
  <2> QED BY <1>2, <1>b, <2>1, <2>2, <2>3 DEF CompensatedInv, PaymentHasFailed
<1>9. CASE PaymentAuthorized(o)
  <2>1. /\ pc[o] = "charge" /\ pc'[o] = "complete" /\ UNCHANGED <<orderStatus, notes>>
    BY <1>9, <1>b DEF PaymentAuthorized, Goto, TypeOK
  <2>2. notes[o] \notin {"Stock reservation failed", "Payment failed. Stock released."}
    BY <2>1, <1>b DEF CompensatedInv, OrderInv, StatusAtPoint, Ended
  <2> QED BY <1>2, <1>b, <2>1, <2>2 DEF CompensatedInv, PaymentHasFailed
<1>10. CASE PaymentFailed(o)
  <2>1. PICK lost : pc[o] = "charge" /\ CallFails(o, lost) /\ Call(o, "rollback", lost)
    BY <1>10 DEF PaymentFailed
  <2>2. Reply(o, "ProcessPayment", FALSE) \in replies /\ Call(o, "rollback", {})
    BY <1>a, <1>b, <2>1, CallFailsCalmly
  <2>3. /\ pc'[o] = "rollback" /\ UNCHANGED <<orderStatus, notes>>
    BY <1>10, <1>b, <2>2 DEF PaymentFailed, Call, Goto, TypeOK
  <2>4. Unserved(o, "ProcessPayment")
    BY <1>b, <2>2 DEF Calm, OrderInv, SentOnce, Unserved, Ops
  <2>5. Unserved(o, "ProcessPayment")'
    BY <1>a, <1>4, <2>2, <2>4 DEF Ops
  <2>6. notes[o] \notin {"Stock reservation failed", "Payment failed. Stock released."}
    BY <2>1, <1>b DEF CompensatedInv, OrderInv, StatusAtPoint, Ended
  <2> QED BY <1>2, <1>b, <2>3, <2>5, <2>6 DEF CompensatedInv, PaymentHasFailed
<1>11. CASE RolledBack(o)
  <2>1. PICK lost : pc[o] = "rollback" /\ CallReturns(o, lost) /\ Call(o, "refund", lost)
    BY <1>11 DEF RolledBack
  <2>2. Reply(o, "ReleaseStock", TRUE) \in replies /\ Call(o, "refund", {})
    <3>1. lost = {} /\ \E ok \in BOOLEAN : Reply(o, "ReleaseStock", ok) \in replies
      BY <1>a, <1>b, <2>1, CallReturnsCalmly
    <3> QED BY <1>b, <2>1, <3>1 DEF Calm
  <2>3. /\ pc'[o] = "refund" /\ UNCHANGED <<orderStatus, notes>>
    BY <1>11, <1>b, <2>2 DEF RolledBack, Call, Goto, TypeOK
  <2>4. Unserved(o, "ProcessPayment")'
    BY <1>a, <1>b, <1>4, <2>1, <2>2 DEF CompensatedInv, PaymentHasFailed, Ops
  <2>5. notes[o] \notin {"Stock reservation failed", "Payment failed. Stock released."}
    BY <2>1, <1>b DEF CompensatedInv, OrderInv, StatusAtPoint, Ended
  <2> QED BY <1>1, <1>2, <1>b, <2>2, <2>3, <2>4, <2>5 DEF CompensatedInv, PaymentHasFailed
<1>12. CASE Refunded(o)
  <2>1. /\ pc[o] = "refund" /\ pc'[o] = "failPayment" /\ UNCHANGED <<orderStatus, notes>>
        /\ requests' \subseteq requests
    BY <1>12, <1>b DEF Refunded, Goto, TypeOK
  <2>2. Unserved(o, "ProcessPayment")'
    BY <1>3, <1>b, <2>1 DEF CompensatedInv, PaymentHasFailed, Ops
  <2>3. notes[o] \notin {"Stock reservation failed", "Payment failed. Stock released."}
    BY <2>1, <1>b DEF CompensatedInv, OrderInv, StatusAtPoint, Ended
  <2> QED BY <1>1, <1>2, <1>b, <2>1, <2>2, <2>3 DEF CompensatedInv, PaymentHasFailed
<1>13. CASE MarkFailed(o)
  <2>0. Call(o, "lookupFailed", {})
    BY <1>13 DEF MarkFailed
  <2>1. /\ pc'[o] = "lookupFailed" /\ orderStatus'[o] = "FAILED"
        /\ \/ pc[o] = "failStock" /\ notes'[o] = "Stock reservation failed"
           \/ pc[o] = "failPayment" /\ notes'[o] = "Payment failed. Stock released."
    BY <1>13, <1>b, <2>0 DEF MarkFailed, WriteAcked, WriteFails, Write, Call, Goto, TypeOK
  <2>2. CASE pc[o] = "failStock" /\ notes'[o] = "Stock reservation failed"
    <3>1. Unserved(o, "ReserveStock")' /\ Unserved(o, "ProcessPayment")'
      BY <1>a, <1>4, <1>b, <2>0, <2>2 DEF CompensatedInv, Ops
    <3> QED BY <1>2, <2>1, <2>2, <3>1 DEF CompensatedInv, PaymentHasFailed
  <2>3. CASE pc[o] = "failPayment" /\ notes'[o] = "Payment failed. Stock released."
    <3>1. Unserved(o, "ProcessPayment")' /\ Reply(o, "ReleaseStock", TRUE) \in replies'
      BY <1>1, <1>a, <1>4, <1>b, <2>0, <2>3 DEF CompensatedInv, PaymentHasFailed, Ops
    <3> QED BY <1>2, <2>1, <2>3, <3>1 DEF CompensatedInv, PaymentHasFailed
  <2> QED BY <2>1, <2>2, <2>3
<1>14. CASE MarkCompleted(o)
  <2>1. /\ pc'[o] = "lookupCompleted" /\ orderStatus'[o] = "COMPLETED"
        /\ notes'[o] = "Payment authorized"
    BY <1>14, <1>b DEF MarkCompleted, WriteAcked, Write, Call, Goto, TypeOK
  <2> QED BY <1>2, <2>1 DEF CompensatedInv, PaymentHasFailed
<1>15. CASE PublishFailed(o)
  <2>1. /\ pc[o] = "publishFailed" /\ pc'[o] = "error" /\ requests' = requests
        /\ UNCHANGED <<orderStatus, notes>>
    BY <1>15, <1>b DEF PublishFailed, Goto, TypeOK
  <2> QED BY <1>1, <1>2, <1>b, <2>1 DEF CompensatedInv, PaymentHasFailed, Unserved, Ended
<1>16. CASE PublishCompleted(o)
  <2>1. /\ pc[o] = "publishCompleted" /\ pc'[o] = "ok" /\ requests' = requests
        /\ UNCHANGED <<orderStatus, notes>>
    BY <1>16, <1>b DEF PublishCompleted, Goto, TypeOK
  <2> QED BY <1>1, <1>2, <1>b, <2>1 DEF CompensatedInv, PaymentHasFailed, Unserved, Ended
<1>17. CASE EmailKnown(o)
  <2>1. /\ \/ pc[o] = "lookupFailed" /\ pc'[o] = "publishFailed"
           \/ pc[o] = "lookupCompleted" /\ pc'[o] = "publishCompleted"
        /\ requests' \subseteq requests
        /\ UNCHANGED <<orderStatus, notes>>
    BY <1>17, <1>b DEF EmailKnown, Goto, TypeOK
  <2>2. \A op \in Ops : Unserved(o, op) => Unserved(o, op)'
    BY <1>3, <2>1
  <2> QED BY <1>1, <1>2, <1>b, <2>1, <2>2 DEF CompensatedInv, PaymentHasFailed, Ops, Ended
<1>18. ~ SaveFails(o) /\ ~ CompletionFails(o)
  BY <1>b DEF SaveFails, CompletionFails, WriteFails
<1> QED BY <1>5, <1>6, <1>7, <1>8, <1>9, <1>10, <1>11, <1>12, <1>13, <1>14, <1>15, <1>16,
           <1>17, <1>18 DEF CreateOrder

LEMMA ServeCalm ==
  ASSUME CalmInv, NEW o \in Orders, o \notin hit', Serve(o)
  PROVE  Calm(o)' /\ CompensatedInv(o)'
<1>a. TypeOK /\ OrderInv(o) /\ Calm(o) /\ CompensatedInv(o) /\ ~ Fault(o)
  BY StillUnhit
<1>1. PICK op \in Ops, ok \in BOOLEAN : Answer(o, op, ok)
  BY ServeSummarised DEF ServeSummary
<1>2. /\ requests' \subseteq requests /\ replies \subseteq replies'
      /\ \A q \in Ops, k \in BOOLEAN :
           Reply(o, q, k) \in replies' <=> Reply(o, q, k) \in replies \/ (q = op /\ k = ok)
      /\ Request(o, op) \in requests
      /\ UNCHANGED <<pc, orderStatus, notes>>
  BY <1>1 DEF Answer, orderDB, Reply
<1>3. \A k \in BOOLEAN : Reply(o, op, k) \notin replies
  BY <1>2, <1>a DEF OrderInv, SentOnce
<1>4. \A q \in Ops : Unserved(o, q) => Unserved(o, q)'
  BY <1>2 DEF Unserved
<1>5. CompensatedInv(o)'
  BY <1>2, <1>4, <1>a DEF CompensatedInv, PaymentHasFailed, Ops
<1>6. \A q \in Ops : ~ (Reply(o, q, TRUE) \in replies' /\ Reply(o, q, FALSE) \in replies')
  BY <1>2, <1>3, <1>a DEF Calm
<1>7. Calm(o)'
  <2>1. CASE ReserveStock(o)
    <3>1. PICK k \in BOOLEAN : Answer(o, "ReserveStock", k) /\ (k \/ UNCHANGED held)
                               /\ UNCHANGED payment
      BY <1>a, <2>1 DEF ReserveStock, ledger
    <3>2. k => Reply(o, "ReserveStock", TRUE) \in replies'
      BY <3>1 DEF Answer
    <3>3. op = "ReserveStock"
      BY <1>3, <1>2, <3>1 DEF Answer, Reply, Ops
    <3> QED BY <1>2, <1>6, <1>a, <3>1, <3>2, <3>3 DEF Calm, Holds, NoHold, Ops
  <2>2. CASE ReleaseStock(o)
    <3>1. Answer(o, "ReleaseStock", TRUE) /\ UNCHANGED payment
          /\ (held'[o] = held[o] \/ held'[o] = NoHold)
      BY <1>a, <2>2 DEF ReleaseStock, ReleaseEffect, Release, ledger, TypeOK, LedgerTypeOK
    <3>2. Reply(o, "ReleaseStock", FALSE) \notin replies'
      BY <1>a, <3>1 DEF Answer, Reply, Calm
    <3> QED BY <1>2, <1>6, <1>a, <3>1, <3>2 DEF Calm, Holds, NoHold, Ops
  <2>3. CASE ProcessPayment(o)
    <3>1. PICK k \in BOOLEAN : /\ Answer(o, "ProcessPayment", k) /\ UNCHANGED ledger
                               /\ payment'[o] = payment[o] \/ k = (payment'[o] = "AUTHORIZED")
      <4>1. (payment'[o] = "AUTHORIZED") \in BOOLEAN
        OBVIOUS
      <4> QED BY <1>a, <2>3, <4>1 DEF ProcessPayment
    <3>2. k => Reply(o, "ProcessPayment", TRUE) \in replies'
      BY <3>1 DEF Answer
    <3>3. Reply(o, "ReleaseStock", FALSE) \notin replies'
      BY <1>a, <3>1 DEF Answer, Reply, Calm
    <3> QED BY <1>2, <1>6, <1>a, <3>1, <3>2, <3>3 DEF Calm, Holds, NoHold, Ops, ledger
  <2>4. CASE CancelPayment(o)
    <3>1. PICK k \in BOOLEAN : Answer(o, "CancelPayment", k) /\ UNCHANGED ledger
                               /\ payment'[o] \in {payment[o], "REFUNDED"}
      BY <1>a, <2>4 DEF CancelPayment, RefundEffect, Payments!Refund, TypeOK, Payments!TypeOK
    <3>2. Reply(o, "ReleaseStock", FALSE) \notin replies'
      BY <1>a, <3>1 DEF Answer, Reply, Calm
    <3> QED BY <1>2, <1>6, <1>a, <3>1, <3>2 DEF Calm, Holds, NoHold, Ops, ledger
  <2>5. CASE GetProfile(o)
    <3>1. Answer(o, "GetProfile", TRUE) /\ UNCHANGED <<held, payment>>
      BY <2>5 DEF GetProfile, ledger
    <3>2. Reply(o, "ReleaseStock", FALSE) \notin replies'
      BY <1>a, <3>1 DEF Answer, Reply, Calm
    <3> QED BY <1>2, <1>6, <1>a, <3>1, <3>2 DEF Calm, Holds, NoHold, Ops
  <2> QED BY <2>1, <2>2, <2>3, <2>4, <2>5 DEF Serve
<1> QED BY <1>5, <1>7

LEMMA CalmInit == Init => CalmInv
<1> SUFFICES ASSUME Init, NEW o \in Orders PROVE dead \subseteq hit /\ Calm(o) /\ CompensatedInv(o)
  BY SagaInvInit DEF Init, CalmInv
<1>1. /\ held[o] = NoHold /\ pc[o] = "new" /\ orderStatus[o] = "none" /\ notes[o] = ""
      /\ payment[o] = "none" /\ replies = {} /\ dead = {}
  BY DEF Init, LedgerInit
<1> QED BY <1>1 DEF Calm, CompensatedInv, PaymentHasFailed, Holds

LEMMA CalmNext ==
  ASSUME CalmInv, [Next]_vars
  PROVE  CalmInv'
<1>1. SagaInv' /\ SagaInv /\ TypeOK
  BY SagaInvNext DEF CalmInv, SagaInv
<1>2. hit \subseteq hit'
  BY HitsStay
<1>3. dead' \subseteq hit'
  <2>1. ASSUME NEW o \in Orders, CreateOrder(o) PROVE dead' = dead
    BY <2>1 DEF CreateOrder, SavePending, SaveFails, StockReserved, ReservationFailed, Unreserved,
         PaymentAuthorized, PaymentFailed, RolledBack, Refunded, MarkFailed, MarkCompleted,
         CompletionFails, EmailKnown, PublishFailed, PublishCompleted
  <2>2. ASSUME NEW o \in Orders, Serve(o) PROVE dead' = dead
    BY <2>2, ServeSummarised DEF ServeSummary, Answer
  <2>3. ASSUME NEW o \in Orders, Cancel(o) PROVE dead' \subseteq hit'
    BY <1>2, <2>3 DEF Cancel, Fault, FaultOn, CalmInv
  <2>4. CASE Crash
    BY <1>2, <2>4 DEF Crash, CalmInv
  <2>5. CASE UNCHANGED vars
    BY <1>2, <2>5 DEF vars, CalmInv
  <2> QED BY <1>2, <2>1, <2>2, <2>3, <2>4, <2>5 DEF CalmInv, Next
<1>4. ASSUME NEW q \in Orders \ hit' PROVE Calm(q)' /\ CompensatedInv(q)'
  <2>1. Calm(q) /\ CompensatedInv(q)
    BY <1>2 DEF CalmInv
  <2>2. ASSUME Untouched(q) PROVE Calm(q)' /\ CompensatedInv(q)'
    BY <1>1, <2>1, <2>2, UntouchedCalm
  <2>3. ASSUME NEW o \in Orders, CreateOrder(o) \/ Serve(o)
        PROVE  Calm(q)' /\ CompensatedInv(q)'
    <3>1. CASE q = o
      BY <2>3, <3>1, CreateOrderCalm, ServeCalm
    <3>2. CASE q # o
      BY <1>1, <2>2, <2>3, <3>2, CreateOrderUntouched, ServeUntouched
    <3> QED BY <3>1, <3>2
  <2>4. ASSUME NEW o \in Orders, Cancel(o) PROVE Untouched(q)
    BY <2>4 DEF Cancel, Untouched, ledger, orderDB, net
  <2>5. CASE Crash
    <3>1. pc[q] \notin Running /\ requests' \subseteq requests
      BY <2>5 DEF Crash, FaultOn
    <3> QED BY <2>2, <2>5, <3>1 DEF Crash, Untouched, ledger, orderDB
  <2>6. CASE UNCHANGED vars
    BY <2>2, <2>6 DEF vars, Untouched
  <2> QED BY <2>2, <2>3, <2>4, <2>5, <2>6 DEF Next
<1> QED BY <1>1, <1>3, <1>4 DEF CalmInv

THEOREM CalmInvariant == Spec => []CalmInv
  BY CalmInit, CalmNext, PTL DEF Spec

(* An order that no fault touched and that is FAILED holds no stock and    *)
(* keeps no money: the order in which the code compensates leaves no gap,  *)
(* whatever happens to the orders it competes with.                        *)
THEOREM SagaContainsFaults == Spec => []FaultsAreContained
<1>1. CalmInv => FaultsAreContained
  <2> SUFFICES ASSUME CalmInv, NEW o \in Orders \ hit, orderStatus[o] = "FAILED"
               PROVE  ~ Holds(o) /\ payment[o] # "AUTHORIZED"
    BY DEF FaultsAreContained
  <2>1. Calm(o) /\ CompensatedInv(o) /\ RolledBackInv(o)
    BY DEF CalmInv, SagaInv, OrderInv
  <2>2. CASE notes[o] = "Stock reservation failed"
    BY <2>1, <2>2 DEF Calm, CompensatedInv, Unserved
  <2>3. CASE notes[o] = "Payment failed. Stock released."
    BY <2>1, <2>3 DEF Calm, CompensatedInv, Unserved, RolledBackInv, PaymentHasFailed
  <2> QED BY <2>1, <2>2, <2>3 DEF CompensatedInv
<1> QED BY <1>1, CalmInvariant, PTL

(* Without faults that is every FAILED order.                              *)
THEOREM SagaFailedIsCompensated == MaxFaults = 0 => (Spec => []FailedIsCompensated)
<1> SUFFICES ASSUME MaxFaults = 0 PROVE Spec => []FailedIsCompensated
  OBVIOUS
<1> DEFINE Unhit == TypeOK /\ hit = {}
<1>1. Init => Unhit
  BY TypeInit DEF Init
<1>2. Unhit /\ [Next]_vars => Unhit'
  <2> SUFFICES ASSUME Unhit, [Next]_vars PROVE Unhit'
    OBVIOUS
  <2>1. TypeOK'
    BY TypeNext
  <2>2. \A touched : ~ FaultOn(touched)
    BY DEF TypeOK, FaultOn
  <2>3. hit' = hit
    BY <2>2, FaultOfStep DEF Next, Crash, Fault, NoFault, vars
  <2> QED BY <2>1, <2>3
<1>3. Unhit /\ FaultsAreContained => FailedIsCompensated
  BY DEF FaultsAreContained, FailedIsCompensated
<1> QED BY <1>1, <1>2, <1>3, SagaContainsFaults, PTL DEF Spec
=============================================================================
