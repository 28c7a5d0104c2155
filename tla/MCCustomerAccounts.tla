-------------------------- MODULE MCCustomerAccounts --------------------------
(* Small instances of CustomerAccounts. *)
EXTENDS CustomerAccounts, FiniteSets, TLC

CONSTANT c1

I(c, n) == [c |-> c, points |-> n]

(* One customer with a ledger that two sales of 2 exceed. *)
MCLimit == [c \in Customers |-> IF c = c1 THEN 3 ELSE None]

(* One customer twice in a bulk adjustment. *)
MCBulk == {<<I(c1, 1), I(c1, -2)>>}

(* History: two requests have been under way at once. *)
VARIABLE overlapped

Busy == {t \in Threads : pc[t] # "idle"}

MCInit == Init /\ overlapped = FALSE
MCNext == Next /\ overlapped' = (overlapped \/ Cardinality(Busy') > 1)
MCSpec == MCInit /\ [][MCNext]_<<vars, overlapped>>

(* One request at a time: what is owed and what is held is the sum of the  *)
(* entries, whichever handlers wrote them.                                  *)
SerialBooksBalance == ~overlapped => BooksBalance

ThreadsAndSales == Permutations(Threads) \union Permutations(SaleIds)
=============================================================================
