--------------------------- MODULE PaymentService ---------------------------
(***************************************************************************)
(* The payment service: ProcessPayment and CancelPayment, each a short     *)
(* sequence of single-statement database operations, for calls that run at *)
(* the same time.  Nothing but the unique key on order_id stands between   *)
(* two calls of one order; in particular the status read by CancelPayment  *)
(* is not looked at again when REFUNDED is written.                        *)
(***************************************************************************)
EXTENDS Naturals

CONSTANTS
  Calls,        \* RPCs that the service receives
  Keys,         \* order ids
  Kind,         \* Kind[c]: "process" or "cancel"
  OrderOf,      \* OrderOf[c]: the order_id of the request
  Verdict,      \* Verdict[c]: what the simulated gateway makes of the token
                \* of a "process" call, INVALID when its amount is not positive
  MaxFaults     \* bound on database errors

ASSUME PaymentAssumption ==
  /\ Kind \in [Calls -> {"process", "cancel"}]
  /\ OrderOf \in [Calls -> Keys]
  /\ Verdict \in [Calls -> {"AUTHORIZED", "DECLINED", "INVALID"}]
  /\ MaxFaults \in Nat

VARIABLES
  payment,      \* payment[k]: the row of order k, "none" if there is none
  pc,           \* pc[c]: "start", "insert", "reread", "update", "answered"
  seen,         \* seen[c]: the status that the call's last lookup returned
  answer,       \* answer[c]: a status, "success" (of a cancel) or "error"
  faults

vars == <<payment, pc, seen, answer, faults>>

Ledger == INSTANCE PaymentLedger

Init ==
  /\ Ledger!Init
  /\ pc = [c \in Calls |-> "start"]
  /\ seen = [c \in Calls |-> "unseen"]
  /\ answer = [c \in Calls |-> "none"]
  /\ faults = 0

Row(c) == payment[OrderOf[c]]
SetRow(c, status) == payment' = [payment EXCEPT ![OrderOf[c]] = status]

Look(c) == seen' = [seen EXCEPT ![c] = Row(c)]
Goto(c, next) == pc' = [pc EXCEPT ![c] = next] /\ UNCHANGED answer
Return(c, result) ==
  /\ pc' = [pc EXCEPT ![c] = "answered"]
  /\ answer' = [answer EXCEPT ![c] = result]

-----------------------------------------------------------------------------
(* ProcessPayment.                                                         *)

RefuseAmount(c) ==
  /\ pc[c] = "start" /\ Kind[c] = "process" /\ Verdict[c] = "INVALID"
  /\ Return(c, "error")
  /\ UNCHANGED <<payment, seen, faults>>

(* Mutant of Lookup: a missing row is not told from an empty one.          *)
LookupUnchecked(c) ==
  /\ pc[c] = "start" /\ Kind[c] = "process" /\ Verdict[c] # "INVALID"
  /\ Look(c)
  /\ Return(c, Row(c))
  /\ UNCHANGED <<payment, faults>>

(* The payment of an order that has one is returned as it is; otherwise    *)
(* the gateway is asked and the row is going to be inserted.               *)
Lookup(c) ==
  /\ pc[c] = "start" /\ Kind[c] = "process" /\ Verdict[c] # "INVALID"
  /\ Look(c)
  /\ IF Row(c) = "none" THEN Goto(c, "insert") ELSE Return(c, Row(c))
  /\ UNCHANGED <<payment, faults>>

(* Mutant of Insert: no unique key on order_id, the later row is found.    *)
InsertOverwrites(c) ==
  /\ pc[c] = "insert"
  /\ SetRow(c, Verdict[c])
  /\ Return(c, Verdict[c])
  /\ UNCHANGED <<seen, faults>>

Insert(c) ==
  /\ pc[c] = "insert"
  /\ Row(c) = "none"
  /\ SetRow(c, Verdict[c])
  /\ Return(c, Verdict[c])
  /\ UNCHANGED <<seen, faults>>

(* Mutant of Duplicate: the caller gets the row that it could not insert.  *)
DuplicateIgnored(c) ==
  /\ pc[c] = "insert"
  /\ Row(c) # "none"
  /\ Return(c, Verdict[c])
  /\ UNCHANGED <<payment, seen, faults>>

(* The unique key: another call has inserted the payment in between.       *)
Duplicate(c) ==
  /\ pc[c] = "insert"
  /\ Row(c) # "none"
  /\ Goto(c, "reread")
  /\ UNCHANGED <<payment, seen, faults>>

Reread(c) ==
  /\ pc[c] = "reread"
  /\ Look(c)
  /\ Return(c, Row(c))
  /\ UNCHANGED <<payment, faults>>

-----------------------------------------------------------------------------
(* CancelPayment.                                                          *)

(* Nothing to do for an order without a payment, or with one that is       *)
(* declined or refunded.                                                   *)
FindToCancel(c) ==
  /\ pc[c] = "start" /\ Kind[c] = "cancel"
  /\ Look(c)
  /\ IF Row(c) = "AUTHORIZED" THEN Goto(c, "update") ELSE Return(c, "success")
  /\ UNCHANGED <<payment, faults>>

(* UPDATE ... WHERE id: whatever the status is by now.                     *)
Refund(c) ==
  /\ pc[c] = "update"
  /\ SetRow(c, "REFUNDED")
  /\ Return(c, "success")
  /\ UNCHANGED <<seen, faults>>

-----------------------------------------------------------------------------
(* Mutant of DBError: the error of the refund is logged and dropped.       *)
DBErrorDropped(c) ==
  /\ pc[c] # "answered"
  /\ faults < MaxFaults /\ faults' = faults + 1
  /\ Return(c, IF pc[c] = "update" THEN "success" ELSE "error")
  /\ \/ UNCHANGED payment
     \/ pc[c] = "insert" /\ Row(c) = "none" /\ SetRow(c, Verdict[c])
     \/ pc[c] = "update" /\ SetRow(c, "REFUNDED")
  /\ UNCHANGED seen

(* A statement fails, or takes effect without the service learning it.     *)
DBError(c) ==
  /\ pc[c] # "answered"
  /\ faults < MaxFaults /\ faults' = faults + 1
  /\ Return(c, "error")
  /\ \/ UNCHANGED payment
     \/ pc[c] = "insert" /\ Row(c) = "none" /\ SetRow(c, Verdict[c])
     \/ pc[c] = "update" /\ SetRow(c, "REFUNDED")
  /\ UNCHANGED seen

Process(c) == RefuseAmount(c) \/ Lookup(c) \/ Insert(c) \/ Duplicate(c) \/ Reread(c)
CancelPayment(c) == FindToCancel(c) \/ Refund(c)

Next == \E c \in Calls : Process(c) \/ CancelPayment(c) \/ DBError(c)

Spec == Init /\ [][Next]_vars

-----------------------------------------------------------------------------
TypeOK ==
  /\ Ledger!TypeOK
  /\ pc \in [Calls -> {"start", "insert", "reread", "update", "answered"}]
  /\ seen \in [Calls -> {"unseen"} \cup Ledger!PaymentStatuses]
  /\ answer \in [Calls -> {"success", "error"} \cup Ledger!PaymentStatuses]
  /\ \A c \in Calls : pc[c] = "answered" <=> answer[c] # "none"
  /\ faults \in 0..MaxFaults

(* The lookups and writes of concurrent calls add up to the ledger: no     *)
(* order is charged twice, no decision of the gateway is replaced, and     *)
(* only an authorized payment is refunded, although the refund is written  *)
(* without a condition.                                                    *)
ImplementsLedger == Ledger!Spec

(* A cancel that was answered with success and had found a payment leaves  *)
(* no money taken, for good.  (One that found none promises nothing: a     *)
(* payment in progress may be inserted after it.)                          *)
CancelHonest ==
  \A c \in Calls :
    Kind[c] = "cancel" /\ answer[c] = "success" /\ seen[c] # "none" => Row(c) # "AUTHORIZED"

(* Callers that retry get one decision, also with another token: no order  *)
(* is AUTHORIZED to one call and DECLINED to another.                      *)
OneDecision ==
  \A c, d \in Calls :
    OrderOf[c] = OrderOf[d] => {answer[c], answer[d]} # {"AUTHORIZED", "DECLINED"}
=============================================================================
