--------------------------- MODULE MCFinanceLedger ---------------------------
(* A small instance of FinanceLedger, watched for requests that overlap.    *)
EXTENDS FinanceLedger, TLC

(* History: two requests have been under way at once, or the sweep has been *)
(* configured while one was.                                                *)
VARIABLE overlapped

Busy == {t \in Threads : req[t].pc # "idle"}

MCInit == Init /\ overlapped = FALSE
Overlap == Cardinality(Busy') > 1 \/ (Busy # {} /\ sweep' # sweep)
MCNext == Next /\ overlapped' = (overlapped \/ Overlap)
MCSpec == MCInit /\ [][MCNext]_<<vars, overlapped>>

(* One request at a time, loans, accounts and entries agree.                *)
SerialBooksAgree == ~overlapped => BooksAgree

EveryThread == Permutations(Threads)
=============================================================================
