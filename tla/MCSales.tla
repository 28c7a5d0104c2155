------------------------------- MODULE MCSales -------------------------------
(* A small instance of Sales. *)
EXTENDS Sales, TLC

CONSTANTS p1, p2, ghost, s1, s2

L(p, q) == [product |-> p, qty |-> q]
S(id, lines) == [id |-> id, lines |-> lines, of |-> None]

(* One product, two products, one product on two lines.                     *)
MCSingles == {S(s1, <<L(p1, 1)>>), S(s2, <<L(p2, 2), L(p1, 1)>>), S(s2, <<L(p1, 1), L(p1, 2)>>)}

(* Batches that lock the products in opposite orders, repeat an id, sell a  *)
(* product twice, or name another store's product.                          *)
MCBatches == {<<S(s1, <<L(p1, 1)>>), S(s2, <<L(p2, 1)>>)>>,
              <<S(s2, <<L(p2, 1)>>), S(s1, <<L(p1, 1)>>)>>,
              <<S(s1, <<L(p1, 1)>>), S(s1, <<L(p2, 1)>>)>>,
              <<S(s1, <<L(p1, 1)>>), S(s2, <<L(p1, 1)>>)>>,
              <<S(s1, <<L(ghost, 1)>>), S(s2, <<L(p1, 1)>>)>>}

MCReturned == {<<L(p1, 1)>>}


MCOpeningStock == [p \in Products |-> 2]
=============================================================================
