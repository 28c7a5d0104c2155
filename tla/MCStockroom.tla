----------------------------- MODULE MCStockroom -----------------------------
(***************************************************************************)
(* Three ways in which a store's stock is written beside its sales, on the *)
(* same threads: goods receipts, supplier invoices read by OCR, and the    *)
(* inventory's own updates and audits.  Each keeps its own account of the  *)
(* stock, so a behaviour drives one of them and the others stand still.    *)
(***************************************************************************)
EXTENDS MCPurchaseOrders

CONSTANTS Workers, Jobs, ItemIds, Bodies,
          Suggested, NewRows, Changes, Receipts, Counts, Reorder, MaxCommits,
          i1, i2

VARIABLES part,
          jobs, items, booked, adjusted, reading, queue, direct, drawn, added, misread, jobsOverlapped,
          product, shown, moved, audited, alerts, sugg, sess, lock, safe, applied, lost, commits,
          shopOverlapped

jobVars  == <<jobs, items, booked, adjusted, reading, queue, direct, drawn, added, misread,
              jobsOverlapped>>
shopVars == <<product, shown, moved, audited, alerts, sugg, sess, lock, safe, applied, lost,
              commits, shopOverlapped>>

Ocr  == INSTANCE OcrJobs WITH status <- jobs, stock <- booked, sess <- reading, lost <- misread
Shop == INSTANCE Inventory WITH Sessions <- Threads, Missing <- Foreign

ASSUME StockroomAssumption == Ocr!OcrAssumption /\ Shop!InventoryAssumption

(* What a confirmation lists: nothing; one item; one item twice; two items, *)
(* products in either order; a second entry with no quantity or another     *)
(* store's product.                                                         *)
B(i, p, q) == [item |-> i, product |-> p, qty |-> q]

MCBodies == {<<>>, <<B(i1, p1, 1)>>,
             <<B(i1, p1, 1), B(i1, p1, 2)>>,
             <<B(i1, p1, 1), B(i2, p2, 1)>>,
             <<B(i2, p2, 1), B(i1, p1, 1)>>,
             <<B(i1, p1, 1), B(i2, p2, 0)>>,
             <<B(i1, p1, 1), B(i2, ghost, 1)>>}

(* A product with a cost, and one without. *)
MCNewRows == {[cost |-> 10, price |-> 12], [cost |-> 0, price |-> 12]}

(* A price alone, a cost above the price, and products switched on again.   *)
MCChanges == {[cost |-> None, price |-> 20, active |-> None],
              [cost |-> 15, price |-> None, active |-> TRUE]}

MCReceipts == {[qty |-> 2, price |-> 10, cost |-> FALSE],
               [qty |-> 1, price |-> 11, cost |-> TRUE]}

(* Audits: one count; two, in either order; one product twice; a missing    *)
(* product.                                                                 *)
C(p, n) == [product |-> p, actual |-> n]

MCCounts == {<<C(p1, 0)>>, <<C(p1, 1), C(p2, 1)>>, <<C(p2, 1), C(p1, 1)>>,
             <<C(p1, 1), C(p1, 2)>>, <<C(p1, 1), C(ghost, 1)>>}

(* Sessions of invoices that are under way. *)
Reading == {s \in Ocr!Sessions : reading[s].op # "none"}

(* The order that stands still beside another part. *)
AnyDraft == CHOOSE draft \in Drafts \ {<<>>} : Len(draft) <= MaxLines

StockroomInit ==
  /\ part \in {"orders", "invoices", "inventory"}
  /\ MCInit /\ (part # "orders" => lines = Rows(AnyDraft, 0))
  /\ Ocr!Init /\ (part # "invoices" => ~direct)
  /\ Shop!Init
  /\ jobsOverlapped = FALSE /\ shopOverlapped = FALSE

StockroomNext ==
  /\ UNCHANGED part
  /\ \/ part = "orders" /\ MCNext /\ UNCHANGED <<jobVars, shopVars>>
     \/ /\ part = "invoices" /\ Ocr!Next
        /\ jobsOverlapped' = (jobsOverlapped \/ Cardinality(Reading') > 1)
        /\ UNCHANGED <<vars, overlapped, shopVars>>
     \/ /\ part = "inventory" /\ Shop!Next
        /\ shopOverlapped' = (shopOverlapped \/ Cardinality(Shop!Busy') > 1)
        /\ UNCHANGED <<vars, overlapped, jobVars>>

StockroomSpec ==
  StockroomInit /\ [][StockroomNext]_<<part, vars, overlapped, jobVars, shopVars>>

EveryThread == Permutations(Threads)

(* Stock changes only with the adjustments of confirmed invoices, whatever  *)
(* confirmations, readings, deadlocks and crashes mix.                      *)
InvoicesBooked == Ocr!StockInv

(* As long as no two sessions overlap, what the status of an invoice says   *)
(* was added to stock has been, once.                                       *)
SerialJobTellsTruth == ~jobsOverlapped => Ocr!JobTellsTruth

(* Whoever waits for a row of an order, an invoice or a product waits for   *)
(* someone who can go on, or whom the database will fail.                   *)
NobodyWaitsForNothing == NobodyIsStuck /\ Ocr!NobodyIsStuck /\ Shop!NobodyIsStuck

(* Stock is what its records say less what commits overwrote, and skus      *)
(* count up.                                                                *)
StockRecorded == Shop!StockInv

(* Under the lock of the weekly run a product has one recent suggestion.    *)
OneRecentPending == Shop!OneRecentPending

(* As long as no two sessions overlap, the price history shows the price,   *)
(* a suggestion shown as applied was applied once, and alerts do not        *)
(* repeat.                                                                  *)
SerialRecordsAgree ==
  ~shopOverlapped => Shop!HistoryShowsPrice /\ Shop!SuggestionsOnce /\ Shop!AlertsOnce
=============================================================================
