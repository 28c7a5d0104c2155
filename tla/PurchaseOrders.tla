---------------------------- MODULE PurchaseOrders ----------------------------
(***************************************************************************)
(* One purchase order of a store, from draft to fulfilment: the /purchase- *)
(* orders handlers of app/suppliers, each on a gunicorn thread with its    *)
(* own database session at READ COMMITTED.                                 *)
(*                                                                         *)
(* Every handler reads the order's row unlocked, decides on its status and *)
(* writes the new status when it commits.  Receiving goods also reads each *)
(* line and each product FOR UPDATE, in the order the body lists them;     *)
(* replacing the lines of a draft deletes the rows it saw and inserts new  *)
(* ones.  Prices, notes and dates are left out; quantities are integers.   *)
(***************************************************************************)
EXTENDS Integers, Sequences, FiniteSets, FiniteSetsExt, Waits

CONSTANTS
    Threads,      \* request threads
    Products,     \* products of the store
    Foreign,      \* products the store does not have
    MaxLines,     \* no more purchase_order_items than this in all (a bound)
    Drafts,       \* the lines an order may be given: sequences of [product, ordered]
    Deliveries,   \* what may be received at once: sequences of [product, qty]
    MaxReceived,  \* receive no more than this of a line (bounds the inputs)
    None          \* no value

Statuses  == {"DRAFT", "SENT", "CONFIRMED", "CANCELLED", "FULFILLED"}
Ordered   == [product : Products \union Foreign, ordered : Nat]
LineIds   == 1..MaxLines   \* uuid4 values, numbered as they are drawn
Delivered == [product : Products \union Foreign, qty : Nat \ {0}]

ASSUME OrdersAssumption ==
    /\ IsFiniteSet(Threads) /\ IsFiniteSet(Products) /\ MaxLines \in Nat
    /\ Products \intersect Foreign = {}
    /\ Drafts \subseteq Seq(Ordered)
    /\ Deliveries \subseteq Seq(Delivered) \ {<<>>}
    /\ MaxReceived \in Nat
    /\ None \notin Threads \union Int \union Statuses
    /\ None \notin [product : Products \union Foreign, ordered : Nat, received : Int]

VARIABLES
    status,   \* purchase_orders.status, as committed
    lines,    \* purchase_order_items, as committed
    stock,    \* products.current_stock, as committed, less the opening stock
    req,      \* the request and session of each thread
    lineLock, \* who holds the row lock of each line
    prodLock, \* who holds the row lock of each product
    got,      \* history: quantity committed receipts put on each line
    used      \* history: how many line ids have been drawn

vars == <<status, lines, stock, req, lineLock, prodLock, got, used>>
committed == <<status, lines, stock, got>>

PoLine   == [product : Products \union Foreign, ordered : Nat, received : Int]

Idle == [op      |-> "none",
         pc      |-> "idle",
         todo    |-> <<>>,                         \* deliveries still to book
         status  |-> None,                         \* status to write
         lines   |-> [l \in LineIds |-> None],     \* own uncommitted line rows
         stock   |-> [p \in Products |-> None],    \* own uncommitted product rows
         booked  |-> [l \in LineIds |-> 0],       \* history: what it has put on lines
         deleted |-> {},                           \* lines the DELETE saw
         new     |-> [l \in LineIds |-> None]]     \* lines to insert

Present(ls) == {l \in LineIds : ls[l] # None}

(* The rows of new lines, numbered from n + 1. *)
Rows(draft, n) ==
    [l \in LineIds |->
        IF l - n \in DOMAIN draft
        THEN [product |-> draft[l - n].product, ordered |-> draft[l - n].ordered, received |-> 0]
        ELSE None]

(* POST /purchase-orders has created the order with at least one line. *)
Init ==
    /\ status = "DRAFT"
    /\ \E draft \in Drafts \ {<<>>} :
         Len(draft) <= MaxLines /\ lines = Rows(draft, 0) /\ used = Len(draft)
    /\ stock = [p \in Products |-> 0]
    /\ req = [t \in Threads |-> Idle]
    /\ lineLock = [l \in LineIds |-> None]
    /\ prodLock = [p \in Products |-> None]
    /\ got = [l \in LineIds |-> 0]

-----------------------------------------------------------------------------
(* Sessions. *)

Free_Always(lock, t) == TRUE
Free(lock, t) == lock \in {None, t}

EndSession(t) ==
    /\ req' = [req EXCEPT ![t] = Idle]
    /\ lineLock' = [l \in LineIds |-> IF lineLock[l] = t THEN None ELSE lineLock[l]]
    /\ prodLock' = [p \in Products |-> IF prodLock[p] = t THEN None ELSE prodLock[p]]

Rollback(t) == EndSession(t) /\ UNCHANGED <<committed, used>>

Begin(t, r) ==
    /\ req[t].pc = "idle"
    /\ req' = [req EXCEPT ![t] = r]
    /\ UNCHANGED <<committed, lineLock, prodLock>>

-----------------------------------------------------------------------------
(* Handlers that only write the status they have decided on. *)

Writes(op, new) == [Idle EXCEPT !.op = op, !.pc = "commit", !.status = new]

SendAllowed(s, ls) == s = "DRAFT" /\ Present(ls) # {}

Send(t) ==
    /\ SendAllowed(status, lines)
    /\ Begin(t, Writes("send", "SENT")) /\ UNCHANGED used

Confirm(t) ==
    /\ status = "SENT"
    /\ Begin(t, Writes("confirm", "CONFIRMED")) /\ UNCHANGED used

CancelAllowed(s) == s \in {"DRAFT", "SENT"}

Cancel(t) ==
    /\ CancelAllowed(status)
    /\ Begin(t, Writes("cancel", "CANCELLED")) /\ UNCHANGED used

-----------------------------------------------------------------------------
(* PUT /purchase-orders/<id> with new items. *)

Update(t, draft) ==
    /\ status = "DRAFT"
    /\ used + Len(draft) <= MaxLines
    /\ used' = used + Len(draft)
    /\ Begin(t, [Idle EXCEPT !.op = "update", !.pc = "delete", !.new = Rows(draft, used)])

(* The DELETE statement sees the lines committed when it starts ... *)
UpdateSees(t) ==
    /\ req[t].pc = "delete"
    /\ req' = [req EXCEPT ![t].pc = "lock", ![t].deleted = Present(lines)]
    /\ UNCHANGED <<committed, lineLock, prodLock, used>>

(* ... and locks those of them that still exist. *)
UpdateDeletes(t) ==
    /\ req[t].pc = "lock"
    /\ \A l \in req[t].deleted : Free(lineLock[l], t)
    /\ lineLock' = [l \in LineIds |->
                      IF l \in req[t].deleted \intersect Present(lines) THEN t ELSE lineLock[l]]
    /\ req' = [req EXCEPT ![t].pc = "commit"]
    /\ UNCHANGED <<committed, prodLock, used>>

-----------------------------------------------------------------------------
(* POST /purchase-orders/<id>/receive. *)

Receivable == {"SENT", "CONFIRMED"}

Receive(t, items) ==
    /\ status \in Receivable
    /\ \A i \in DOMAIN items, l \in Present(lines) :
         lines[l].product = items[i].product => got[l] + items[i].qty <= MaxReceived
    /\ Begin(t, [Idle EXCEPT !.op = "receive", !.pc = "line", !.todo = items])
    /\ UNCHANGED used

(* A line or a product as t's database transaction sees it. *)
SeenLine(t, l) == IF req[t].lines[l] # None THEN req[t].lines[l] ELSE lines[l]

SeenStock(t, p) == IF req[t].stock[p] # None THEN req[t].stock[p] ELSE stock[p]

LinesOf(p) == {l \in Present(lines) : lines[l].product = p}

(* The line of the next item is read FOR UPDATE; of several lines of the    *)
(* product any may come first.                                              *)
ReceiveLine(t) ==
    LET item == Head(req[t].todo)
    IN  /\ req[t].pc = "line"
        /\ \/ \E l \in LinesOf(item.product) :
                 /\ Free(lineLock[l], t)
                 /\ lineLock' = [lineLock EXCEPT ![l] = t]
                 /\ req' = [req EXCEPT
                       ![t].pc = "product",
                       ![t].lines[l] = [SeenLine(t, l) EXCEPT !.received = @ + item.qty],
                       ![t].booked[l] = @ + item.qty]
                 /\ UNCHANGED <<committed, prodLock, used>>
           \/ /\ LinesOf(item.product) = {}
              /\ Rollback(t)

(* Then the product, which must be the store's: otherwise the whole receipt *)
(* is rolled back.                                                          *)
NextStage(todo) == IF Tail(todo) = <<>> THEN "check" ELSE "line"

ReceiveProduct(t) ==
    LET item == Head(req[t].todo)
        p    == item.product
    IN  /\ req[t].pc = "product"
        /\ IF p \in Products
           THEN /\ Free(prodLock[p], t)
                /\ prodLock' = [prodLock EXCEPT ![p] = t]
                /\ req' = [req EXCEPT
                      ![t].stock[p] = SeenStock(t, p) + item.qty,
                      ![t].todo = Tail(@),
                      ![t].pc = NextStage(req[t].todo)]
                /\ UNCHANGED <<committed, lineLock, used>>
           ELSE Rollback(t)

(* All lines are read again, the session's own with what it has booked. *)
Complete_Any(t) ==
    \E l \in Present(lines) : SeenLine(t, l).received >= SeenLine(t, l).ordered
Complete(t) ==
    \A l \in Present(lines) : SeenLine(t, l).received >= SeenLine(t, l).ordered

ReceiveCheck(t) ==
    /\ req[t].pc = "check"
    /\ req' = [req EXCEPT ![t].pc = "commit",
                          ![t].status = IF Complete(t) THEN "FULFILLED" ELSE None]
    /\ UNCHANGED <<committed, lineLock, prodLock, used>>

-----------------------------------------------------------------------------
(* db.session.commit(): only changed columns of changed rows are written.   *)
Commit(t) ==
    /\ req[t].pc = "commit"
    /\ status' = IF req[t].status = None THEN status ELSE req[t].status
    /\ lines' = [l \in LineIds |->
                   IF req[t].new[l] # None THEN req[t].new[l]
                   ELSE IF l \in req[t].deleted THEN None
                   ELSE SeenLine(t, l)]
    /\ stock' = [p \in Products |-> SeenStock(t, p)]
    /\ got' = [l \in LineIds |-> got[l] + req[t].booked[l]]
    /\ EndSession(t)
    /\ UNCHANGED used

(* The request dies, or is the victim PostgreSQL chooses in a deadlock. *)
Abort(t) == req[t].pc # "idle" /\ Rollback(t)

(* u holds a row lock that t waits for. *)
WaitsFor(t, u) ==
    \/ /\ req[t].pc = "line" /\ LinesOf(Head(req[t].todo).product) # {}
       /\ \A l \in LinesOf(Head(req[t].todo).product) : ~Free(lineLock[l], t)
       /\ \E l \in LinesOf(Head(req[t].todo).product) : lineLock[l] = u
    \/ /\ req[t].pc = "product" /\ Head(req[t].todo).product \in Products
       /\ ~Free(prodLock[Head(req[t].todo).product], t)
       /\ prodLock[Head(req[t].todo).product] = u
    \/ /\ req[t].pc = "lock"
       /\ \E l \in req[t].deleted : ~Free(lineLock[l], t) /\ lineLock[l] = u

Waiting == {w \in Threads \X Threads : WaitsFor(w[1], w[2])}

Deadlocked_Undetected(t) == FALSE
Deadlocked(t) == OnCycle(t, Waiting, Threads)

DeadlockVictim(t) == Deadlocked(t) /\ Abort(t)

Step(t) ==
    \/ UpdateSees(t) \/ UpdateDeletes(t)
    \/ ReceiveLine(t) \/ ReceiveProduct(t) \/ ReceiveCheck(t)
    \/ Commit(t)

Next ==
    \E t \in Threads :
        \/ Send(t) \/ Confirm(t) \/ Cancel(t)
        \/ \E draft \in Drafts : Update(t, draft)
        \/ \E items \in Deliveries : Receive(t, items)
        \/ Step(t)
        \/ Abort(t)

Spec == Init /\ [][Next]_vars

(* Python and PostgreSQL keep executing a request, a row lock that becomes  *)
(* free goes to the request that waits for it, and a deadlock is broken.    *)
Fairness == \A t \in Threads : SF_vars(Step(t)) /\ WF_vars(DeadlockVictim(t))

FairSpec == Spec /\ Fairness

-----------------------------------------------------------------------------
(* Properties. *)

TypeOK ==
    /\ status \in Statuses
    /\ lines \in [LineIds -> PoLine \union {None}]
    /\ stock \in [Products -> Int]
    /\ used \in 0..MaxLines /\ Present(lines) \subseteq 1..used
    /\ \A t \in Threads :
         /\ req[t].pc \in {"idle", "delete", "lock", "line", "product", "check", "commit"}
         /\ req[t].status \in Statuses \union {None}
         /\ req[t].pc \in {"line", "product"} => req[t].todo # <<>>

(* Receiving is atomic and no receipt is lost: although lines are replaced, *)
(* receipts race on the same and on different lines and some are rolled     *)
(* back half-way, a line shows what its committed receipts put on it, and   *)
(* the stock of all products has grown by what all receipts put on lines.   *)
ReceiptsAddUp ==
    /\ \A l \in Present(lines) : lines[l].received = got[l]
    /\ MapThenSumSet(LAMBDA p : stock[p], Products) = MapThenSumSet(LAMBDA l : got[l], LineIds)

(* What holds of an order and its receipts in every state. *)
ReceiptsInv == TypeOK /\ ReceiptsAddUp

(* The status tells the truth: an order is fulfilled exactly when goods     *)
(* were received and nothing ordered is missing, unless it was cancelled    *)
(* after a partial delivery.  (As long as no two requests overlap.)         *)
Missing == {l \in Present(lines) : lines[l].received < lines[l].ordered}

StatusTellsTruth ==
    /\ status = "FULFILLED" => Missing = {} /\ \E l \in Present(lines) : got[l] > 0
    /\ status \in Receivable => Missing # {} \/ \A l \in LineIds : got[l] = 0

(* An order that was sent has lines.  (As long as no two requests overlap.) *)
HasLinesWhenSent == status \notin {"DRAFT", "CANCELLED"} => Present(lines) # {}

(* No request is stuck: it, or one it waits for directly or through others, *)
(* can go on, or is in a circle, of which the database will fail one.       *)
CanGoOn(t) ==
    \/ req[t].pc \in {"delete", "check", "commit"}
    \/ req[t].pc = "lock" /\ \A l \in req[t].deleted : Free(lineLock[l], t)
    \/ LET p == Head(req[t].todo).product
       IN  \/ /\ req[t].pc = "line"
              /\ LinesOf(p) = {} \/ \E l \in LinesOf(p) : Free(lineLock[l], t)
           \/ req[t].pc = "product" /\ (p \in Products => Free(prodLock[p], t))

NobodyIsStuck ==
    \A t \in Threads : req[t].pc # "idle" =>
        HasWayOut(t, {u \in Threads : CanGoOn(u) \/ Deadlocked(u)}, Waiting, Threads)

(* Every request ends, although receipts may lock lines and products in     *)
(* opposite orders and a draft's lines may be deleted meanwhile.            *)
RequestsFinish == \A t \in Threads : req[t].pc # "idle" ~> req[t].pc = "idle"
=============================================================================
