---------------------------- MODULE MCOrderSaga ----------------------------
(***************************************************************************)
(* Small instances of OrderSaga.  Faulty: two orders compete for the last  *)
(* units of one product, under errors, cancellations and crashes.          *)
(* Reliable: four orders, two products, every verdict of the gateway.      *)
(***************************************************************************)
EXTENDS OrderSaga

FaultyStock == [p \in {"book"} |-> 2]
FaultyDemand == << [p \in {"book"} |-> 2], [p \in {"book"} |-> 1] >>
FaultyVerdict == << "AUTHORIZED", "AUTHORIZED" >>
DeclinedVerdict == << "DECLINED", "AUTHORIZED" >>

Basket(books, pens) == [p \in {"book", "pen"} |-> IF p = "book" THEN books ELSE pens]
ReliableStock == Basket(2, 2)
ReliableDemand == << Basket(1, 2), Basket(2, 0), Basket(1, 0), Basket(0, 1) >>
ReliableVerdict == << "AUTHORIZED", "AUTHORIZED", "DECLINED", "INVALID" >>
=============================================================================
