----------------------------- MODULE OrderSaga -----------------------------
(***************************************************************************)
(* The order saga: OrderSrv.CreateOrder of the order service, one          *)
(* goroutine per order, calling the catalog and the payment service over   *)
(* gRPC and writing the order row of its own database.                     *)
(*                                                                         *)
(* A call is a request in flight, executed by the server at any later      *)
(* moment, and a reply.  The caller may see an error although the request  *)
(* is still to be executed or was executed (a broken connection), and it   *)
(* may die between any two steps.  The code has no retry, no deadline and  *)
(* no recovery of half-done orders, so the model has none.  The stock is   *)
(* the StockLedger, the payments are the PaymentLedger: each RPC is atomic *)
(* here; the modules of those services open it up.                         *)
(***************************************************************************)
EXTENDS StockLedger

CONSTANTS
  Verdict,     \* Verdict[o]: outcome of the payment gateway for order o
  MaxFaults    \* bound on faults: errors, cancellations, crashes

ASSUME SagaAssumption ==
  /\ Verdict \in [Orders -> {"AUTHORIZED", "DECLINED", "INVALID"}]
  /\ MaxFaults \in Nat

VARIABLES
  pc,            \* pc[o]: where CreateOrder of o stands
  orderStatus,   \* orders.status of o, "none" before the row exists
  notes,         \* orders.notes of o
  events,        \* events published to Kafka
  payment,       \* the rows of the payment service
  requests,      \* RPCs sent and not yet executed
  replies,       \* RPC results sent back
  dead,          \* orders whose request context is cancelled
  faults,        \* faults so far
  hit            \* the orders that a fault has touched (history variable)

Payments == INSTANCE PaymentLedger WITH Keys <- Orders

(* The order book that the order rows amount to.                           *)
Outcome == [o \in Orders |-> IF orderStatus[o] \in {"COMPLETED", "FAILED"}
                               THEN orderStatus[o] ELSE "open"]
Book == INSTANCE OrderBook WITH outcome <- Outcome

orderDB == <<orderStatus, notes>>
net == <<requests, replies>>
vars == <<stock, held, payment, pc, orderStatus, notes, events, requests, replies, dead,
          faults, hit>>

-----------------------------------------------------------------------------
(* The RPC CreateOrder is blocked on at each program point.                *)
Awaits == [reserve     |-> "ReserveStock",     \* saga step 1
           unreserve   |-> "ReleaseStock",     \* compensation of step 1
           charge      |-> "ProcessPayment",   \* saga step 2
           rollback    |-> "ReleaseStock",     \* compensations of step 2
           refund      |-> "CancelPayment",
           lookupFailed    |-> "GetProfile",   \* whom to notify
           lookupCompleted |-> "GetProfile"]

Waiting == DOMAIN Awaits
Ended == {"ok", "error", "crashed"}
Running == Waiting \cup {"failStock", "failPayment", "publishFailed",
                         "complete", "publishCompleted"}

Ops == {"ReserveStock", "ReleaseStock", "ProcessPayment", "CancelPayment", "GetProfile"}
Request(o, op) == [op |-> op, order |-> o]
Reply(o, op, ok) == [op |-> op, order |-> o, ok |-> ok]

Statuses == {"none", "PENDING", "COMPLETED", "FAILED"}
Notes == {"", "Stock reservation failed", "Payment failed. Stock released.", "Payment authorized"}

Init ==
  /\ LedgerInit
  /\ payment = [o \in Orders |-> "none"]
  /\ pc = [o \in Orders |-> "new"]
  /\ orderStatus = [o \in Orders |-> "none"]
  /\ notes = [o \in Orders |-> ""]
  /\ events = {}
  /\ requests = {}
  /\ replies = {}
  /\ dead = {}
  /\ faults = 0
  /\ hit = {}

FaultOn(touched) ==
  /\ faults < MaxFaults
  /\ faults' = faults + 1
  /\ hit' = hit \cup touched
Fault(o) == FaultOn({o})
NoFault == UNCHANGED <<faults, hit>>

-----------------------------------------------------------------------------
(* The caller's side of an RPC.                                            *)

Goto(o, next) == pc' = [pc EXCEPT ![o] = next]

(* Move to a program point that waits for an RPC, and send its request; on *)
(* a cancelled context gRPC fails without sending.  lost is what the       *)
(* network drops in the same step.                                         *)
Call(o, next, lost) ==
  /\ Goto(o, next)
  /\ requests' = (requests \ lost) \cup
                   (IF o \in dead THEN {} ELSE {Request(o, Awaits[next])})

CallSucceeds(o) ==
  /\ Reply(o, Awaits[pc[o]], TRUE) \in replies
  /\ NoFault

(* Mutant of CallFails: a cancelled context does not end the call.         *)
CallFailsIgnoringCancel(o, lost) ==
  /\ lost \subseteq requests \cap {Request(o, Awaits[pc[o]])}
  /\ \/ Reply(o, Awaits[pc[o]], FALSE) \in replies /\ lost = {} /\ NoFault
     \/ o \notin dead /\ Fault(o)

(* An error or success = false.  A transport error leaves open whether the *)
(* request was lost, executed, or will still be executed.                  *)
CallFails(o, lost) ==
  /\ lost \subseteq requests \cap {Request(o, Awaits[pc[o]])}
  /\ \/ Reply(o, Awaits[pc[o]], FALSE) \in replies /\ lost = {} /\ NoFault
     \/ o \in dead /\ NoFault
     \/ o \notin dead /\ Fault(o)

CallReturns(o, lost) == (CallSucceeds(o) /\ lost = {}) \/ CallFails(o, lost)

(* The requests that may be lost when the call of order o fails.           *)
InFlight(o) == SUBSET (requests \cap {Request(o, Awaits[pc[o]])})

(* Mutant of Write: the update names no row.                               *)
WriteEveryRow(o, status, text) ==
  /\ orderStatus' = [q \in Orders |-> IF orderStatus[q] = "none" THEN "none" ELSE status]
  /\ notes' = [q \in Orders |-> IF orderStatus[q] = "none" THEN "" ELSE text]

(* UpdateOrderStatus on the order's row: done, refused (always on a        *)
(* cancelled context), or done with the acknowledgement lost.              *)
Write(o, status, text) ==
  /\ orderStatus' = [orderStatus EXCEPT ![o] = status]
  /\ notes' = [notes EXCEPT ![o] = text]
WriteAcked(o, status, text) == o \notin dead /\ Write(o, status, text) /\ NoFault
WriteFails(o, status, text) ==
  \/ o \in dead /\ UNCHANGED orderDB /\ NoFault
  \/ o \notin dead /\ (UNCHANGED orderDB \/ Write(o, status, text)) /\ Fault(o)

-----------------------------------------------------------------------------
(* CreateOrder.                                                            *)

(* The order row is committed as PENDING, then stock is requested.         *)
SavePending(o) ==
  /\ pc[o] = "new"
  /\ orderStatus' = [orderStatus EXCEPT ![o] = "PENDING"]
  /\ Call(o, "reserve", {})
  /\ UNCHANGED <<ledger, payment, notes, events, replies, dead, faults, hit>>

(* The insert is refused, or committed without the service learning it.    *)
SaveFails(o) ==
  /\ pc[o] = "new"
  /\ Fault(o)
  /\ Goto(o, "error")
  /\ \/ UNCHANGED orderStatus
     \/ orderStatus' = [orderStatus EXCEPT ![o] = "PENDING"]
  /\ UNCHANGED <<ledger, payment, notes, events, net, dead>>

StockReserved(o) ==
  /\ pc[o] = "reserve"
  /\ CallSucceeds(o)
  /\ Call(o, "charge", {})
  /\ UNCHANGED <<ledger, payment, orderDB, events, replies, dead>>

(* Mutant of ReservationFailed: the error is returned at once.             *)
ReservationFailedReturns(o) ==
  /\ pc[o] = "reserve"
  /\ \E lost \in InFlight(o) : CallFails(o, lost) /\ requests' = requests \ lost
  /\ Goto(o, "error")
  /\ UNCHANGED <<ledger, payment, orderDB, events, replies, dead>>

ReservationFailed(o) ==
  /\ pc[o] = "reserve"
  /\ \E lost \in InFlight(o) : CallFails(o, lost) /\ Call(o, "unreserve", lost)
  /\ UNCHANGED <<ledger, payment, orderDB, events, replies, dead>>

(* The result of a compensation is ignored.                                *)
Unreserved(o) ==
  /\ pc[o] = "unreserve"
  /\ \E lost \in InFlight(o) : CallReturns(o, lost) /\ requests' = requests \ lost
  /\ Goto(o, "failStock")
  /\ UNCHANGED <<ledger, payment, orderDB, events, replies, dead>>

(* Mutant of PaymentAuthorized: only the transport error is looked at.     *)
PaymentAnswered(o) ==
  /\ pc[o] = "charge"
  /\ \E ok \in BOOLEAN : Reply(o, "ProcessPayment", ok) \in replies
  /\ NoFault
  /\ Goto(o, "complete")
  /\ UNCHANGED <<ledger, payment, orderDB, events, net, dead>>

PaymentAuthorized(o) ==
  /\ pc[o] = "charge"
  /\ CallSucceeds(o)
  /\ Goto(o, "complete")
  /\ UNCHANGED <<ledger, payment, orderDB, events, net, dead>>

(* Mutant of PaymentFailed: the stock is not released.                     *)
PaymentFailedKeepsStock(o) ==
  /\ pc[o] = "charge"
  /\ \E lost \in InFlight(o) : CallFails(o, lost) /\ Call(o, "refund", lost)
  /\ UNCHANGED <<ledger, payment, orderDB, events, replies, dead>>

PaymentFailed(o) ==
  /\ pc[o] = "charge"
  /\ \E lost \in InFlight(o) : CallFails(o, lost) /\ Call(o, "rollback", lost)
  /\ UNCHANGED <<ledger, payment, orderDB, events, replies, dead>>

RolledBack(o) ==
  /\ pc[o] = "rollback"
  /\ \E lost \in InFlight(o) : CallReturns(o, lost) /\ Call(o, "refund", lost)
  /\ UNCHANGED <<ledger, payment, orderDB, events, replies, dead>>

Refunded(o) ==
  /\ pc[o] = "refund"
  /\ \E lost \in InFlight(o) : CallReturns(o, lost) /\ requests' = requests \ lost
  /\ Goto(o, "failPayment")
  /\ UNCHANGED <<ledger, payment, orderDB, events, replies, dead>>

(* The error of the status update is ignored too.                          *)
MarkFailed(o) ==
  LET text == IF pc[o] = "failStock" THEN "Stock reservation failed"
                                     ELSE "Payment failed. Stock released."
  IN  /\ pc[o] \in {"failStock", "failPayment"}
      /\ WriteAcked(o, "FAILED", text) \/ WriteFails(o, "FAILED", text)
      /\ Call(o, "lookupFailed", {})
      /\ UNCHANGED <<ledger, payment, events, replies, dead>>

MarkCompleted(o) ==
  /\ pc[o] = "complete"
  /\ WriteAcked(o, "COMPLETED", "Payment authorized")
  /\ Call(o, "lookupCompleted", {})
  /\ UNCHANGED <<ledger, payment, events, replies, dead>>

(* Mutants of CompletionFails: the failed write is treated like a failed   *)
(* step, by announcing the failure or by marking the order FAILED.         *)
CompletionFailsAnnounced(o) ==
  /\ pc[o] = "complete"
  /\ WriteFails(o, "COMPLETED", "Payment authorized")
  /\ Call(o, "lookupFailed", {})
  /\ UNCHANGED <<ledger, payment, events, replies, dead>>

CompletionFailsMarked(o) ==
  /\ pc[o] = "complete"
  /\ WriteFails(o, "COMPLETED", "Payment authorized")
  /\ Goto(o, "failPayment")
  /\ UNCHANGED <<ledger, payment, events, net, dead>>

(* An error here returns to the caller with no compensation and no event.  *)
CompletionFails(o) ==
  /\ pc[o] = "complete"
  /\ WriteFails(o, "COMPLETED", "Payment authorized")
  /\ Goto(o, "error")
  /\ UNCHANGED <<ledger, payment, events, net, dead>>

(* getUserEmail: the profile only tells the address, and without one there *)
(* is a default, so the order goes on whatever the call returns.           *)
EmailKnown(o) ==
  /\ pc[o] \in {"lookupFailed", "lookupCompleted"}
  /\ \E lost \in InFlight(o) : CallReturns(o, lost) /\ requests' = requests \ lost
  /\ Goto(o, IF pc[o] = "lookupFailed" THEN "publishFailed" ELSE "publishCompleted")
  /\ UNCHANGED <<ledger, payment, orderDB, events, replies, dead>>

(* Publishing shares the request context; its error is ignored.            *)
Publish(o, type) ==
  \/ o \notin dead /\ events' = events \cup {[type |-> type, order |-> o]} /\ NoFault
  \/ o \in dead /\ UNCHANGED events /\ NoFault
  \/ o \notin dead /\ UNCHANGED events /\ Fault(o)

PublishFailed(o) ==
  /\ pc[o] = "publishFailed"
  /\ Publish(o, "order-failed")
  /\ Goto(o, "error")
  /\ UNCHANGED <<ledger, payment, orderDB, net, dead>>

PublishCompleted(o) ==
  /\ pc[o] = "publishCompleted"
  /\ Publish(o, "order-completed")
  /\ Goto(o, "ok")
  /\ UNCHANGED <<ledger, payment, orderDB, net, dead>>

CreateOrder(o) ==
  \/ SavePending(o) \/ SaveFails(o)
  \/ StockReserved(o) \/ ReservationFailed(o) \/ Unreserved(o)
  \/ PaymentAuthorized(o) \/ PaymentFailed(o) \/ RolledBack(o) \/ Refunded(o)
  \/ MarkFailed(o) \/ MarkCompleted(o) \/ CompletionFails(o)
  \/ EmailKnown(o) \/ PublishFailed(o) \/ PublishCompleted(o)

-----------------------------------------------------------------------------
(* The servers.  A handler whose database fails answers without success,   *)
(* whether or not its transaction was committed.                           *)

Answer(o, op, ok) ==
  /\ Request(o, op) \in requests
  /\ requests' = requests \ {Request(o, op)}
  /\ replies' = replies \cup {Reply(o, op, ok)}
  /\ UNCHANGED <<pc, orderDB, events, dead>>

(* Mutant of ReleaseEffect: it gives back what the request lists, without  *)
(* looking for a reservation.                                              *)
ReleaseEffectOfRequest(o) ==
  /\ stock' = [p \in Products |-> stock[p] + Demand[o][p]]
  /\ held' = [held EXCEPT ![o] = NoHold]

(* Every operation is guided by the order id: repeating it has no effect.  *)
ReserveEffect(o) == IF Holds(o) THEN UNCHANGED ledger ELSE Reserve(o)
ReleaseEffect(o) == IF Holds(o) THEN Release(o) ELSE UNCHANGED ledger
ChargeEffect(o) == IF payment[o] # "none" THEN UNCHANGED payment ELSE Payments!Charge(o, Verdict[o])
RefundEffect(o) == IF payment[o] = "AUTHORIZED" THEN Payments!Refund(o) ELSE UNCHANGED payment

ReserveStock(o) ==
  /\ \/ ReserveEffect(o) /\ Answer(o, "ReserveStock", TRUE) /\ NoFault
     \/ /\ ~ Holds(o) /\ ~ Sufficient(o) /\ UNCHANGED ledger
        /\ Answer(o, "ReserveStock", FALSE) /\ NoFault
     \/ /\ UNCHANGED ledger \/ ReserveEffect(o)
        /\ Answer(o, "ReserveStock", FALSE) /\ Fault(o)
  /\ UNCHANGED payment

(* Mutant of ReleaseStock: the handler hides a failed transaction.         *)
ReleaseStockHidesError(o) ==
  /\ \/ ReleaseEffect(o) /\ Answer(o, "ReleaseStock", TRUE) /\ NoFault
     \/ /\ UNCHANGED ledger \/ ReleaseEffect(o)
        /\ Answer(o, "ReleaseStock", TRUE) /\ Fault(o)
  /\ UNCHANGED payment

ReleaseStock(o) ==
  /\ \/ ReleaseEffect(o) /\ Answer(o, "ReleaseStock", TRUE) /\ NoFault
     \/ /\ UNCHANGED ledger \/ ReleaseEffect(o)
        /\ Answer(o, "ReleaseStock", FALSE) /\ Fault(o)
  /\ UNCHANGED payment

ProcessPayment(o) ==
  /\ \/ /\ Verdict[o] # "INVALID" /\ ChargeEffect(o)
        /\ Answer(o, "ProcessPayment", payment'[o] = "AUTHORIZED") /\ NoFault
     \/ /\ Verdict[o] = "INVALID" /\ UNCHANGED payment
        /\ Answer(o, "ProcessPayment", FALSE) /\ NoFault
     \/ /\ UNCHANGED payment \/ ChargeEffect(o)
        /\ Answer(o, "ProcessPayment", FALSE) /\ Fault(o)
  /\ UNCHANGED ledger

CancelPayment(o) ==
  /\ \/ RefundEffect(o) /\ Answer(o, "CancelPayment", TRUE) /\ NoFault
     \/ /\ UNCHANGED payment \/ RefundEffect(o)
        /\ Answer(o, "CancelPayment", FALSE) /\ Fault(o)
  /\ UNCHANGED ledger

(* The account service.  One reply stands for all, a missing profile       *)
(* included, since the order service goes on with any.                     *)
GetProfile(o) ==
  /\ Answer(o, "GetProfile", TRUE)
  /\ NoFault
  /\ UNCHANGED <<ledger, payment>>

Serve(o) ==
  \/ ReserveStock(o) \/ ReleaseStock(o) \/ ProcessPayment(o) \/ CancelPayment(o)
  \/ GetProfile(o)

-----------------------------------------------------------------------------
(* The environment.                                                        *)

(* The gateway's client goes away: the request context, which every call,  *)
(* compensation and write of this order uses, is cancelled.                *)
Cancel(o) ==
  /\ pc[o] \in Running
  /\ o \notin dead
  /\ Fault(o)
  /\ dead' = dead \cup {o}
  /\ UNCHANGED <<ledger, payment, pc, orderDB, events, net>>

(* The order service stops.  Orders in progress are forgotten: nothing at  *)
(* the next start looks for them.                                          *)
Crash ==
  LET stopped == {o \in Orders : pc[o] \in Running}
  IN  /\ stopped # {}
      /\ FaultOn(stopped)
      /\ pc' = [o \in Orders |-> IF o \in stopped THEN "crashed" ELSE pc[o]]
      /\ \E lost \in SUBSET {r \in requests : r.order \in stopped} : requests' = requests \ lost
      /\ UNCHANGED <<ledger, payment, orderDB, events, replies, dead>>

Next ==
  \/ \E o \in Orders : CreateOrder(o) \/ Serve(o) \/ Cancel(o)
  \/ Crash

Spec == Init /\ [][Next]_vars

(* Goroutines and handlers are scheduled; a request in flight is executed. *)
Fairness == \A o \in Orders : WF_vars(CreateOrder(o)) /\ WF_vars(Serve(o))

FairSpec == Spec /\ Fairness

-----------------------------------------------------------------------------
TypeOK ==
  /\ LedgerTypeOK
  /\ Payments!TypeOK
  /\ pc \in [Orders -> {"new"} \cup Running \cup Ended]
  /\ orderStatus \in [Orders -> Statuses]
  /\ notes \in [Orders -> Notes]
  /\ events \subseteq [type : {"order-failed", "order-completed"}, order : Orders]
  /\ requests \subseteq [op : Ops, order : Orders]
  /\ replies \subseteq [op : Ops, order : Orders, ok : BOOLEAN]
  /\ dead \subseteq Orders
  /\ faults \in 0..MaxFaults
  /\ hit \subseteq Orders

(* order.proto: COMPLETED means that stock reservation and payment both    *)
(* succeeded.  Whatever is lost, late, cancelled or crashed, a COMPLETED   *)
(* order holds all the stock it asked for and its payment is AUTHORIZED,   *)
(* and no compensation still under way can take either from it.            *)
CompletedIsBacked ==
  \A o \in Orders : orderStatus[o] = "COMPLETED" =>
    /\ held[o] = Demand[o]
    /\ payment[o] = "AUTHORIZED"
    /\ Request(o, "ReleaseStock") \notin requests
    /\ Request(o, "CancelPayment") \notin requests

(* order.proto: FAILED means that compensation was successfully executed:  *)
(* no stock is held and no money is taken.  It only holds without faults:  *)
(* a compensation may fail, and a late request may be executed after it.   *)
FailedIsCompensated ==
  \A o \in Orders : orderStatus[o] = "FAILED" => ~ Holds(o) /\ payment[o] # "AUTHORIZED"

(* order.proto: FAILED means that compensation was successfully executed.  *)
(* If a FAILED order still holds stock, it is not for want of a            *)
(* compensation: its ReleaseStock is acknowledged, or at least on the way. *)
(* The code ignores the result of ReleaseStock.                            *)
FailedHasReleased ==
  \A o \in Orders :
    orderStatus[o] = "FAILED" /\ Holds(o) =>
      \/ Request(o, "ReleaseStock") \in requests
      \/ Reply(o, "ReleaseStock", TRUE) \in replies

(* What goes wrong with one order stays with it: an order that no fault    *)
(* touched is FAILED only with its stock given back and no money kept,     *)
(* whatever fails, is cancelled or lost for the orders it competes with.   *)
FaultsAreContained ==
  \A o \in Orders \ hit :
    orderStatus[o] = "FAILED" => ~ Holds(o) /\ payment[o] # "AUTHORIZED"

(* artifacts/grpc_service_communication.md: compensations run on a context *)
(* of their own, so that they execute although the request was cancelled.  *)
(* A cancelled order that is about to be marked FAILED has at least sent   *)
(* its ReleaseStock.  The code passes the request's context on.            *)
CompensationOutlivesRequest ==
  \A o \in dead :
    pc[o] \in {"failStock", "failPayment"} =>
      \/ Request(o, "ReleaseStock") \in requests
      \/ \E ok \in BOOLEAN : Reply(o, "ReleaseStock", ok) \in replies

(* When step 2 failed and the catalog acknowledged ReleaseStock, the stock *)
(* is free for good: ReserveStock had been answered before the payment was *)
(* attempted, so no late reservation can follow the release.               *)
RollbackFreesStock ==
  \A o \in Orders :
    notes[o] = "Payment failed. Stock released." /\ Reply(o, "ReleaseStock", TRUE) \in replies
      => ~ Holds(o)

(* An event tells the notification service the truth about the order: no   *)
(* order is announced both ways, a completed one is COMPLETED, and one     *)
(* announced as failed never becomes COMPLETED.                            *)
EventsTruthful ==
  \A e \in events :
    IF e.type = "order-completed" THEN orderStatus[e.order] = "COMPLETED"
                                  ELSE orderStatus[e.order] # "COMPLETED"

(* COMPLETED and FAILED are final: UpdateOrderStatus writes the status     *)
(* unconditionally, so only the orchestrator's order of steps protects it. *)
StatusFinal ==
  [][\A o \in Orders : orderStatus[o] \in {"COMPLETED", "FAILED"}
                         => orderStatus'[o] = orderStatus[o]]_vars

(* Whatever happens to its calls, the saga moves the stock only by whole   *)
(* reservations and by releases of what an order holds.                    *)
ImplementsLedger == LedgerSpec

(* Through all failures the saga is the order book of its customers: it    *)
(* decides every order at most once, and never sells more than there was.  *)
(* Overselling takes two orders, a compensation that gives back too much,  *)
(* or a completion without its stock.                                      *)
ImplementsBook == Book!Spec

(* Every call of CreateOrder returns, unless the service crashed.          *)
EveryOrderAnswered == <>(\A o \in Orders : pc[o] \in Ended)

(* Without faults every order ends in one of the two consistent outcomes,  *)
(* stays there, and its customer is told of that outcome.                  *)
EveryOrderSettles ==
  \A o \in Orders :
    <>[](\/ /\ orderStatus[o] = "COMPLETED" /\ held[o] = Demand[o] /\ payment[o] = "AUTHORIZED"
            /\ [type |-> "order-completed", order |-> o] \in events
         \/ /\ orderStatus[o] = "FAILED" /\ ~ Holds(o) /\ payment[o] # "AUTHORIZED"
            /\ [type |-> "order-failed", order |-> o] \in events)
=============================================================================
