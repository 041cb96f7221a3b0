------------------------ MODULE MCCatalogPostgres --------------------------
(***************************************************************************)
(* Small instances of CatalogPostgres.  Orders 1 and 2 list their two      *)
(* products in opposite order and compete for the last units; order 3      *)
(* lists one product twice.  A retried call is a second call of the same   *)
(* kind for the same order.                                                *)
(***************************************************************************)
EXTENDS CatalogPostgres

Basket(books, pens) == [p \in {"book", "pen"} |-> IF p = "book" THEN books ELSE pens]
SmallStock == Basket(3, 2)
SmallDemand == << Basket(2, 1), Basket(1, 2), Basket(1, 0) >>
SmallLines == << <<"book", "pen">>, <<"pen", "book">>, <<"book", "book">> >>

(* Two orders reserved (one of them twice) and released, and the third one.*)
SagaCalls == {"res1", "again1", "rel1", "res2", "rel2", "res3"}
SagaKind == [c \in SagaCalls |-> IF c \in {"rel1", "rel2"} THEN "release" ELSE "reserve"]
SagaOrder == [c \in SagaCalls |-> CASE c \in {"res1", "again1", "rel1"} -> 1
                                    [] c \in {"res2", "rel2"} -> 2
                                    [] OTHER -> 3]

(* A release that is delivered twice.                                      *)
DoubleCalls == {"res1", "rel1", "relAgain1", "res2"}
DoubleKind == [c \in DoubleCalls |-> IF c \in {"rel1", "relAgain1"} THEN "release" ELSE "reserve"]
DoubleOrder == [c \in DoubleCalls |-> IF c = "res2" THEN 2 ELSE 1]
=============================================================================
