--------------------------- MODULE PaymentLedger ---------------------------
(***************************************************************************)
(* What the payment service promises to the saga: at most one payment per  *)
(* order (the order id is the idempotency key), whose status is settled by *)
(* the gateway when it is created and moves at most once more, from        *)
(* AUTHORIZED to REFUNDED.                                                 *)
(***************************************************************************)
CONSTANT Keys       \* order ids

VARIABLE payment    \* payment[k]: status of the payment row of k, "none" if there is none

Decisions == {"AUTHORIZED", "DECLINED"}
PaymentStatuses == {"none", "REFUNDED"} \cup Decisions

Init == payment = [k \in Keys |-> "none"]

(* ProcessPayment that inserts the row.                                    *)
Charge(k, decision) ==
  /\ payment[k] = "none"
  /\ decision \in Decisions
  /\ payment' = [payment EXCEPT ![k] = decision]

(* CancelPayment that refunds.                                             *)
Refund(k) ==
  /\ payment[k] = "AUTHORIZED"
  /\ payment' = [payment EXCEPT ![k] = "REFUNDED"]

Next == \E k \in Keys : Refund(k) \/ \E decision \in Decisions : Charge(k, decision)

Spec == Init /\ [][Next]_payment

TypeOK == payment \in [Keys -> PaymentStatuses]
=============================================================================
