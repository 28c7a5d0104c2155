------------------------------- MODULE SaleLog -------------------------------
(***************************************************************************)
(* What recording sales promises, whatever sessions, savepoints, retries   *)
(* and crashes are behind it: an append-only log of transactions, and the  *)
(* stock it explains.  A till takes items into its cart, each id into one  *)
(* cart only and never an id already in the log; the cart is settled as a  *)
(* whole, exactly what its items sold leaving the stock, or dropped as a   *)
(* whole.                                                                  *)
(***************************************************************************)
EXTENDS Integers

CONSTANTS
    Tills,
    Products,
    Ids,
    Items,          \* what a cart may hold; an item x has an id, x.id
    Opening,        \* [Products -> Int], the stock before the first sale
    Nothing,        \* what the log holds for an id that is not recorded
    Entry(_),       \* the log entry of an item
    Sold(_, _)      \* how much of a product an item takes

VARIABLES
    log,            \* the entry of each id
    level,          \* stock of each product
    cart,           \* items of each till, not yet settled
    due             \* how much of each product a cart takes

vars == <<log, level, cart, due>>

Init ==
    /\ log = [i \in Ids |-> Nothing]
    /\ level = Opening
    /\ cart = [t \in Tills |-> {}]
    /\ due = [t \in Tills |-> [p \in Products |-> 0]]

Take(t, x) ==
    /\ log[x.id] = Nothing
    /\ \A u \in Tills : \A y \in cart[u] : y.id # x.id
    /\ cart' = [cart EXCEPT ![t] = @ \union {x}]
    /\ due' = [due EXCEPT ![t] = [p \in Products |-> @[p] + Sold(x, p)]]
    /\ UNCHANGED <<log, level>>

Emptied(t) ==
    /\ cart' = [cart EXCEPT ![t] = {}]
    /\ due' = [due EXCEPT ![t] = [p \in Products |-> 0]]

Settle(t) ==
    /\ log' = [i \in Ids |-> IF \E x \in cart[t] : x.id = i
                             THEN Entry(CHOOSE x \in cart[t] : x.id = i)
                             ELSE log[i]]
    /\ level' = [p \in Products |-> level[p] - due[t][p]]
    /\ Emptied(t)

Drop(t) ==
    /\ Emptied(t)
    /\ UNCHANGED <<log, level>>

Next == \E t \in Tills : (\E x \in Items : Take(t, x)) \/ Settle(t) \/ Drop(t)

Spec == Init /\ [][Next]_vars
=============================================================================
