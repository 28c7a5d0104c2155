------------------------------ MODULE MCOcrJobs ------------------------------
(* A small instance of OcrJobs on its own, for what every upload is owed.   *)
EXTENDS OcrJobs, TLC

CONSTANTS p1, p2, ghost, i1, i2

B(i, p, q) == [item |-> i, product |-> p, qty |-> q]

(* Nothing; one item; one item twice; two items, products in either order;  *)
(* a second entry with no quantity or another store's product.              *)
MCBodies == {<<>>, <<B(i1, p1, 1)>>,
             <<B(i1, p1, 1), B(i1, p1, 2)>>,
             <<B(i1, p1, 1), B(i2, p2, 1)>>,
             <<B(i2, p2, 1), B(i1, p1, 1)>>,
             <<B(i1, p1, 1), B(i2, p2, 0)>>,
             <<B(i1, p1, 1), B(i2, ghost, 1)>>}
=============================================================================
