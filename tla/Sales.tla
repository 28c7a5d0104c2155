-------------------------------- MODULE Sales --------------------------------
(***************************************************************************)
(* Sales, offline batches and returns: app/transactions.                   *)
(*                                                                         *)
(* A request runs on one of the gunicorn threads and owns one database     *)
(* session.  PostgreSQL is at READ COMMITTED, so a request that is not yet *)
(* flushed sees only committed rows and holds no lock: it reads the stock  *)
(* of its products, computes the new stock in Python and writes an         *)
(* absolute value when the session flushes.  From its flush to its commit  *)
(* it holds the row lock of each product it updated and the unique-index   *)
(* entry of each transaction id it inserted, and others wait.              *)
(*                                                                         *)
(* Prices, customers, payments and tax are left out here (CustomerAccounts *)
(* has the customer's side of a sale): a line is a product and a quantity. *)
(***************************************************************************)
EXTENDS Integers, Sequences, FiniteSets, FiniteSetsExt, Functions, Waits

CONSTANTS
    Threads,      \* gunicorn worker threads (gunicorn.conf.py: gthread, 4 of them)
    Products,     \* products of the store
    Foreign,      \* product ids the store does not have
    SaleIds,      \* transaction ids made up by clients, hence possibly retried
    ReturnIds,    \* the uuid4 values the server can draw for returns
    Sales,        \* sales that may be posted alone (bounds the inputs)
    Batches,      \* batches that may be posted (bounds the inputs)
    Returned,     \* the lines a return may have (bounds the inputs)
    OpeningStock, \* [Products -> Int], the stock before the first request
    None          \* no value

Line == [product : Products \union Foreign, qty : Nat \ {0}]
Sale == [id : SaleIds, lines : Seq(Line) \ {<<>>}, of : {None}]

ASSUME SalesAssumption ==
    /\ IsFiniteSet(Threads) /\ IsFiniteSet(Products)
    /\ IsFiniteSet(SaleIds) /\ IsFiniteSet(ReturnIds)
    /\ SaleIds \intersect ReturnIds = {} /\ Products \intersect Foreign = {}
    /\ Sales \subseteq Sale /\ Batches \subseteq Seq(Sale) \ {<<>>}
    /\ Returned \subseteq Seq(Line) \ {<<>>}
    /\ OpeningStock \in [Products -> Int]
    /\ None \notin SaleIds \union ReturnIds \union Int

VARIABLES
    stock,  \* products.current_stock, as committed
    txns,   \* transactions with their transaction_items, as committed
    sess,   \* the request and database session of each thread
    drift   \* history: stock changes of others that commits have overwritten

vars == <<stock, txns, sess, drift>>

Ids == SaleIds \union ReturnIds

(* Quantity of product p on some lines. *)
Qty(lines, p) ==
    MapThenSumSet(LAMBDA i : lines[i].qty,
                  {i \in DOMAIN lines : lines[i].product = p})

Touched(lines) == {lines[i].product : i \in DOMAIN lines}

(* A transactions row: its lines, negative on a return, and the transaction *)
(* it is a return of.  No row is one without lines.                         *)
NoTxn == [lines |-> <<>>, of |-> None]
Row(x) == [lines |-> x.lines, of |-> x.of]
Recorded(i) == txns[i] # NoTxn

Idle == [pc       |-> "idle",
         kind     |-> "single",
         todo     |-> <<>>,                        \* items not yet flushed
         mem      |-> [p \in Products |-> None],   \* stock computed in Python
         row      |-> [p \in Products |-> None],   \* own uncommitted row versions
         txns     |-> {},                          \* own uncommitted inserts
         lost     |-> [p \in Products |-> 0],      \* history, see drift
         asked    |-> <<>>,                        \* ids the request carried
         accepted |-> 0,
         errors   |-> <<>>]

-----------------------------------------------------------------------------
(* Locks. *)

(* u makes t wait: it has flushed, and not yet committed, a row t's pending *)
(* item writes, or the transaction id t's pending item inserts.             *)
Blocks(u, t) ==
    /\ u # t
    /\ sess[t].pc = "loaded"
    /\ LET item == Head(sess[t].todo)
       IN  \/ \E p \in Touched(item.lines) : sess[u].row[p] # None
           \/ \E x \in sess[u].txns : x.id = item.id

(* <<t, u>>: t waits for u. *)
Waiting == {w \in Threads \X Threads : Blocks(w[2], w[1])}

(* t waits for itself: PostgreSQL's deadlock detector will fail one of them. *)
Deadlocked_Undetected(t) == FALSE
Deadlocked(t) ==
    OnCycle(t, Waiting, Threads)

-----------------------------------------------------------------------------
Init ==
    /\ stock = OpeningStock
    /\ txns = [i \in Ids |-> NoTxn]
    /\ sess = [t \in Threads |-> Idle]
    /\ drift = [p \in Products |-> 0]

(* POST /transactions (one sale) or /transactions/batch. *)
Submit(t, kind, sales) ==
    /\ sess[t].pc = "idle"
    /\ sess' = [sess EXCEPT ![t] =
                  [Idle EXCEPT !.pc = "next", !.kind = kind, !.todo = sales,
                               !.asked = [i \in DOMAIN sales |-> sales[i].id]]]
    /\ UNCHANGED <<stock, txns, drift>>

(* The stock a read in t's database transaction returns. *)
Read_Committed(t, p) == stock[p]
Read(t, p) == IF sess[t].row[p] # None THEN sess[t].row[p] ELSE stock[p]

(* The pending item cannot be sold.  A single request is rolled back and    *)
(* answered with an error; in a batch only the item's savepoint is, and the *)
(* item is reported.                                                        *)
Reject_Silently(t) ==
    sess' = [sess EXCEPT ![t].pc = "next", ![t].todo = Tail(@), ![t].mem = Idle.mem]
Reject(t) ==
    IF sess[t].kind = "batch"
    THEN sess' = [sess EXCEPT ![t].pc = "next",
                              ![t].todo = Tail(@),
                              ![t].mem = Idle.mem,
                              ![t].errors = Append(@, Head(sess[t].todo).id)]
    ELSE sess' = [sess EXCEPT ![t] = Idle]

(* The idempotency check finds the row: committed, or inserted earlier in   *)
(* this batch.  A batch skips the sale, neither accepted nor rejected.      *)
Duplicate(t, item) == Recorded(item.id) \/ \E x \in sess[t].txns : x.id = item.id

SkipDuplicate(t) ==
    /\ Duplicate(t, Head(sess[t].todo))
    /\ IF sess[t].kind = "batch"
       THEN sess' = [sess EXCEPT ![t].todo = Tail(@)]
       ELSE Reject(t)

RejectMissing(t) ==
    /\ ~Duplicate(t, Head(sess[t].todo))
    /\ Touched(Head(sess[t].todo).lines) \intersect Foreign # {}
    /\ Reject(t)

(* Whether the stock goes negative is only logged. *)
Deduct(t) ==
    LET item == Head(sess[t].todo)
    IN  /\ ~Duplicate(t, item)
        /\ Touched(item.lines) \subseteq Products
        /\ sess' = [sess EXCEPT
              ![t].pc = "loaded",
              ![t].mem = [p \in Products |->
                            IF p \in Touched(item.lines)
                            THEN Read(t, p) - Qty(item.lines, p)
                            ELSE None]]

(* process_single_transaction up to its first flush. *)
Load(t) ==
    /\ sess[t].pc = "next" /\ sess[t].todo # <<>>
    /\ SkipDuplicate(t) \/ RejectMissing(t) \/ Deduct(t)
    /\ UNCHANGED <<stock, txns, drift>>

(* POST /transactions/<o>/return: the checks against the original's items,  *)
(* of which the map built from them keeps the last line of each product,    *)
(* and the restocking in memory.  A refused return changes nothing.         *)
LastQty(lines, p) ==
    lines[Max({i \in DOMAIN lines : lines[i].product = p})].qty

ReturnLines(items) == [i \in DOMAIN items |-> [items[i] EXCEPT !.qty = -@]]

LoadReturn(t, o, r, items) ==
    /\ sess[t].pc = "idle"
    /\ Recorded(o)
    /\ ~Recorded(r) /\ \A u \in Threads : sess[u].asked # <<r>>    \* uuid4 is fresh
    /\ \A i \in DOMAIN items :
         /\ items[i].product \in Touched(txns[o].lines)
         /\ items[i].qty <= LastQty(txns[o].lines, items[i].product)
    /\ sess' = [sess EXCEPT ![t] =
         [Idle EXCEPT
            !.pc = "loaded", !.kind = "return", !.asked = <<r>>,
            !.todo = <<[id |-> r, lines |-> ReturnLines(items), of |-> o]>>,
            !.mem = [p \in Products |->
                       IF p \in Touched(items) THEN stock[p] + Qty(items, p) ELSE None]]]
    /\ UNCHANGED <<stock, txns, drift>>

(* The first query after the lines flushes: the transaction row and its     *)
(* items are inserted, the products updated with the absolute values        *)
(* computed in memory.  An id that another request committed meanwhile      *)
(* violates the primary key, and the customer's part of a sale may still    *)
(* refuse it (the credit limit, a row inserted by another request): either  *)
(* way the savepoint, or the only sale's request, is rolled back.           *)
KeyTaken_Unchecked(id) == FALSE
KeyTaken(id) == Recorded(id)

Flush(t) ==
    /\ sess[t].pc = "loaded"
    /\ \A u \in Threads : ~Blocks(u, t)
    /\ LET item == Head(sess[t].todo)
           read(p) == sess[t].mem[p] + Qty(item.lines, p)
       IN  \/ /\ KeyTaken(item.id) \/ sess[t].kind # "return"
              /\ Reject(t)
           \/ /\ ~KeyTaken(item.id)
              /\ sess' = [sess EXCEPT
                  ![t].pc = "next",
                  ![t].todo = Tail(@),
                  ![t].mem = Idle.mem,
                  ![t].row = [p \in Products |->
                                IF sess[t].mem[p] # None THEN sess[t].mem[p] ELSE @[p]],
                  ![t].txns = @ \union {item},
                  ![t].lost = [p \in Products |->
                                 IF sess[t].mem[p] # None /\ sess[t].row[p] = None
                                 THEN stock[p] - read(p) ELSE @[p]],
                  ![t].accepted = @ + 1]
    /\ UNCHANGED <<stock, txns, drift>>

(* The deadlock detector picks t among requests that wait for each other. *)
DeadlockVictim(t) ==
    /\ sess[t].pc = "loaded" /\ Deadlocked(t)
    /\ Reject(t)
    /\ UNCHANGED <<stock, txns, drift>>

(* db.session.commit(), and the response: the accepted count and errors. *)
Commit(t) ==
    /\ sess[t].pc = "next" /\ sess[t].todo = <<>>
    /\ stock' = [p \in Products |-> Read(t, p)]
    /\ txns' = [i \in Ids |->
                  IF \E x \in sess[t].txns : x.id = i
                  THEN Row(CHOOSE x \in sess[t].txns : x.id = i)
                  ELSE txns[i]]
    /\ drift' = [p \in Products |-> drift[p] + sess[t].lost[p]]
    /\ sess' = [sess EXCEPT ![t] = Idle]

(* The worker or its connection dies: PostgreSQL rolls everything back. *)
Crash(t) ==
    /\ sess[t].pc # "idle"
    /\ sess' = [sess EXCEPT ![t] = Idle]
    /\ UNCHANGED <<stock, txns, drift>>

-----------------------------------------------------------------------------
Next ==
    \E t \in Threads :
        \/ \E s \in Sales : Submit(t, "single", <<s>>)
        \/ \E b \in Batches : Submit(t, "batch", b)
        \/ \E o \in Ids, r \in ReturnIds, items \in Returned : LoadReturn(t, o, r, items)
        \/ Load(t)
        \/ Flush(t)
        \/ DeadlockVictim(t)
        \/ Commit(t)
        \/ Crash(t)

Spec == Init /\ [][Next]_vars

(* A request runs to its end: Python and PostgreSQL keep executing it, a    *)
(* deadlock is broken after deadlock_timeout, and a row lock that becomes   *)
(* free goes to the request that waits for it (strong fairness of Flush).   *)
Fairness ==
    \A t \in Threads :
        /\ WF_vars(Load(t))
        /\ SF_vars(Flush(t))
        /\ WF_vars(DeadlockVictim(t))
        /\ WF_vars(Commit(t))

FairSpec == Spec /\ Fairness

-----------------------------------------------------------------------------
(* Properties. *)

Amount == Int \union {None}

(* The state has its type, and a batch never accounts for more items than   *)
(* it was asked to process: the loop of process_batch_transactions treats   *)
(* each item once.                                                          *)
TypeOK ==
    /\ stock \in [Products -> Int]
    /\ drift \in [Products -> Int]
    /\ \A i \in Ids : txns[i].of \in Ids \union {None}
    /\ \A t \in Threads :
         /\ sess[t].pc \in {"idle", "next", "loaded"}
         /\ sess[t].mem \in [Products -> Amount] /\ sess[t].row \in [Products -> Amount]
         /\ {x.id : x \in sess[t].txns} \subseteq Range(sess[t].asked)
         /\ sess[t].accepted + Len(sess[t].errors) + Len(sess[t].todo) <= Len(sess[t].asked)

(* The only way stock and sales history can part is a commit that writes a  *)
(* stock value computed before somebody else's commit: up to those          *)
(* overwritten changes, the stock of a product is its opening stock less    *)
(* every line recorded, whatever savepoints, duplicate ids, deadlock        *)
(* victims and crashes happened in between.                                 *)
StockAccounted ==
    \A p \in Products :
        stock[p] + drift[p] =
            OpeningStock[p] - MapThenSumSet(LAMBDA i : Qty(txns[i].lines, p), Ids)

(* What holds of sales and stock in every state. *)
StockInv == TypeOK /\ StockAccounted

(* Sales implement the abstract log of SaleLog: recording is atomic, exactly *)
(* once per id and for ever, and up to the overwritten changes the stock    *)
(* drops by what was recorded.  A cart is what a session has flushed and    *)
(* not committed.                                                           *)
Posted ==
    Sales \union (UNION {Range(b) : b \in Batches})
          \union {[id |-> r, lines |-> ReturnLines(items), of |-> o] :
                    r \in ReturnIds, items \in Returned, o \in Ids}

Log == INSTANCE SaleLog WITH
    Tills   <- Threads,
    Items   <- Posted,
    Opening <- OpeningStock,
    Nothing <- NoTxn,
    Entry   <- Row,
    Sold    <- LAMBDA x, p : Qty(x.lines, p),
    log     <- txns,
    level   <- [p \in Products |-> stock[p] + drift[p]],
    cart    <- [t \in Threads |-> sess[t].txns],
    due     <- [t \in Threads |-> [p \in Products |->
                  IF sess[t].row[p] = None THEN 0
                  ELSE stock[p] - sess[t].row[p] - sess[t].lost[p]]]

ImplementsSaleLog == Log!Spec

(* The contract of the offline sync (API_GUIDE.md:1461): an id that the     *)
(* response to a batch will not list among its errors is recorded when the  *)
(* batch has committed, so the client may forget it.                        *)
UnreportedIsRecorded ==
    \A t \in Threads :
        sess[t].kind = "batch" /\ sess[t].pc = "next" /\ sess[t].todo = <<>> =>
            \A i \in Range(sess[t].asked) \ Range(sess[t].errors) :
                Recorded(i) \/ \E x \in sess[t].txns : x.id = i

(* A request never waits for nothing: it, or one it waits for directly or    *)
(* through others, can load its next item, flush or commit, or is one of a  *)
(* circle, of which the detector will fail one.                             *)
CanLoad(t) ==
    /\ sess[t].pc = "next" /\ sess[t].todo # <<>>
    /\ LET item == Head(sess[t].todo)
       IN  Duplicate(t, item) \/ Touched(item.lines) \intersect Foreign # {}
                              \/ Touched(item.lines) \subseteq Products
CanFlush(t) == sess[t].pc = "loaded" /\ \A u \in Threads : ~Blocks(u, t)
CanGoOn(t) == CanLoad(t) \/ CanFlush(t) \/ (sess[t].pc = "next" /\ sess[t].todo = <<>>)

NobodyIsStuck ==
    \A t \in Threads : sess[t].pc # "idle" =>
        HasWayOut(t, {u \in Threads : CanGoOn(u) \/ Deadlocked(u)}, Waiting, Threads)

(* Every request ends, although batches may take row locks in opposite      *)
(* orders.                                                                  *)
RequestsFinish == \A t \in Threads : sess[t].pc # "idle" ~> sess[t].pc = "idle"

(* What the documentation promises and the code does not do. *)

(* "Cannot return more than originally purchased" (services.py:278). *)
ReturnsWithinPurchase ==
    \A o \in SaleIds : \A p \in Products :
        Recorded(o) =>
            Qty(txns[o].lines, p)
              + MapThenSumSet(LAMBDA r : Qty(txns[r].lines, p),
                              {r \in ReturnIds : txns[r].of = o}) >= 0
=============================================================================
