--------------------------- MODULE MCCatalogMemory --------------------------
(***************************************************************************)
(* Four orders over two products, and one order that lists a product twice.*)
(***************************************************************************)
EXTENDS CatalogMemory

Line(p, n) == [product |-> p, quantity |-> n]
Basket(books, pens) == [p \in {"book", "pen"} |-> IF p = "book" THEN books ELSE pens]
SmallStock == Basket(3, 3)

DistinctLines == << <<Line("book", 2), Line("pen", 1)>>, <<Line("pen", 3), Line("book", 1)>>,
                    <<Line("book", 1)>>, <<Line("pen", 2), Line("book", 3)>> >>
DistinctDemand == << Basket(2, 1), Basket(1, 3), Basket(1, 0), Basket(3, 2) >>

TwiceLines == << <<Line("book", 2), Line("book", 2)>> >>
TwiceDemand == << Basket(4, 0) >>
=============================================================================
