--------------------------- MODULE MCPurchaseOrders ---------------------------
(* A small instance of PurchaseOrders, watched for requests that overlap.   *)
EXTENDS PurchaseOrders, TLC

CONSTANTS p1, p2, ghost

O(p, n) == [product |-> p, ordered |-> n]
D(p, n) == [product |-> p, qty |-> n]

(* Two products, one product on two lines, another store's product, nothing. *)
MCDrafts == {<<O(p1, 1), O(p2, 1)>>, <<O(p1, 1), O(p1, 1)>>, <<O(p1, 1), O(ghost, 1)>>, <<>>}

(* One product, two in either order, one twice, one that cannot be booked. *)
MCDeliveries == {<<D(p1, 1)>>, <<D(p1, 1), D(p2, 1)>>, <<D(p2, 1), D(p1, 1)>>,
                 <<D(p1, 1), D(ghost, 1)>>, <<D(p1, 1), D(p1, 1)>>}

(* History: two requests have been under way at once. *)
VARIABLE overlapped

Active == {t \in Threads : req[t].pc # "idle"}

MCInit == Init /\ overlapped = FALSE
MCNext == Next /\ overlapped' = (overlapped \/ Cardinality(Active') > 1)
MCSpec == MCInit /\ [][MCNext]_<<vars, overlapped>>

MCFairSpec == MCSpec /\ Fairness

(* One request at a time: a sent order has lines, and it is fulfilled       *)
(* exactly when everything on them has arrived.                             *)
SerialStatusTellsTruth == ~overlapped => StatusTellsTruth /\ HasLinesWhenSent
=============================================================================
