-------------------------- MODULE MCPaymentService -------------------------
(***************************************************************************)
(* One order is charged by three calls, two of which retry with another    *)
(* token, and cancelled by two; another one has an invalid amount.         *)
(***************************************************************************)
EXTENDS PaymentService

SmallCalls == {"pay", "payAgain", "payOther", "cancel", "cancelAgain", "payNothing"}
SmallKind == [c \in SmallCalls |-> IF c \in {"cancel", "cancelAgain"} THEN "cancel" ELSE "process"]
SmallOrder == [c \in SmallCalls |-> IF c = "payNothing" THEN "order2" ELSE "order1"]
SmallVerdict == [c \in SmallCalls |-> CASE c = "payNothing" -> "INVALID"
                                        [] c = "payOther"   -> "DECLINED"
                                        [] OTHER            -> "AUTHORIZED"]
=============================================================================
