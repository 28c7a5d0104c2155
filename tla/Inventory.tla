------------------------------ MODULE Inventory ------------------------------
(***************************************************************************)
(* The products of one store with their prices, stock, alerts and pricing  *)
(* suggestions: app/inventory, app/pricing, and the tasks that raise       *)
(* alerts and suggest prices.                                              *)
(*                                                                         *)
(* Every handler reads rows without a lock, changes them in Python, and    *)
(* adds rows to the logs beside them.  SQLAlchemy's UPDATE sets only the   *)
(* columns whose value now differs from the value read.  The session of a  *)
(* web request flushes before a query, so an update that looks for an open *)
(* alert, and an audit that comes to its second product, hold the row lock *)
(* of a product until they commit.  Other handlers flush as they commit.   *)
(*                                                                         *)
(* Names, suppliers and barcodes are left out; prices and quantities are   *)
(* integers, and a product is created with no stock and a generated sku.   *)
(* Queries that follow each other with no flush are one step.              *)
(***************************************************************************)
EXTENDS Integers, Sequences, FiniteSets, FiniteSetsExt, Waits

CONSTANTS
    Sessions,   \* request threads and task processes
    Products,   \* ids of products
    Missing,    \* ids that are no product of this store
    Suggested,  \* ids of pricing_suggestions (a bound)
    NewRows,    \* [cost, price] of products that may be created (bounds the inputs)
    Changes,    \* what an update may set, [cost, price, active], None if not given
    Receipts,   \* stock updates, [qty, price, cost : BOOLEAN] (bounds the inputs)
    Counts,     \* audits: sequences of [product, actual] (bounds the inputs)
    Reorder,    \* reorder_level
    MaxCommits, \* no more commits than this (a bound)
    None        \* no value

Row   == [sku : Nat, stock : Int, cost : Nat, price : Nat, active : BOOLEAN]
Shown == (Nat \union {None}) \X Nat    \* cost and price, of the price history
Types == {"MARGIN_WARNING", "LOW_STOCK"}
Sugg  == [product : Products, price : Nat, recent : BOOLEAN,
          status : {"PENDING", "APPLIED", "DISMISSED"}]

(* What a module that gives the constants their values has to assume.  That *)
(* prices are not negative bounds the inputs: the code does not check it.   *)
InventoryAssumption ==
    /\ IsFiniteSet(Sessions) /\ IsFiniteSet(Products) /\ Products \intersect Missing = {}
    /\ NewRows \subseteq {n \in [cost : Nat, price : Nat] : n.cost <= n.price}
    /\ Changes \subseteq [cost : Nat \union {None}, price : Nat \union {None},
                       active : BOOLEAN \union {None}]
    /\ Receipts \subseteq [qty : Int, price : Nat, cost : BOOLEAN]
    /\ MaxCommits \in Nat
    /\ Counts \subseteq Seq([product : Products \union Missing, actual : Int]) \ {<<>>}
    /\ None \notin Row \union Sugg \union Nat \union BOOLEAN \union Shown
                      \union [id : Products, row : Row]

VARIABLES
    product, \* products, as committed
    shown,   \* newest product_price_history row of each product: cost and price
    moved,   \* stock_adjustments and transaction_items of each product, summed
    audited, \* stock_audit_items of each product: discrepancies, summed
    alerts,  \* alerts of each type and product: which are unresolved, oldest first
    sugg,    \* pricing_suggestions
    sess,    \* the session of each thread and task
    lock,    \* the Redis key pricing:weekly exists
    safe,    \* history: Redis has answered, and no run has outlived its key
    applied, \* history: how often each suggestion was applied
    lost,    \* history: stock changes of others that commits have overwritten
    commits  \* history: how many

vars == <<product, shown, moved, audited, alerts, sugg, sess, lock, safe, applied, lost, commits>>
committed == <<product, shown, moved, audited, alerts, sugg, applied, lost, commits>>

Existing == {p \in Products : product[p] # None}

Idle == [op      |-> "none",
         new     |-> None,                        \* the product to insert
         seen    |-> [p \in Products |-> None],   \* rows as read
         now     |-> [p \in Products |-> None],   \* rows as changed
         held    |-> {},                          \* products flushed, hence locked
         counts  |-> <<>>,                        \* items an audit has still to do
         shown   |-> [p \in Products |-> None],   \* price history to add
         moved   |-> [p \in Products |-> 0],      \* adjustments and sales to add
         audited |-> [p \in Products |-> 0],      \* discrepancies to add
         raised  |-> {},                          \* alerts to insert
         solved  |-> {},                          \* alerts to resolve
         locked  |-> FALSE,                       \* deletes the Redis key when it ends
         sugg    |-> [s \in Suggested |-> None]]  \* suggestions to write

-----------------------------------------------------------------------------
(* Sessions. *)

Get(r, p) == IF r.now[p] # None THEN r.now[p] ELSE product[p]

(* The session r with product p read, if it was not, and set to row. *)
Set(r, p, row) ==
    [r EXCEPT !.seen[p] = IF @ = None THEN product[p] ELSE @, !.now[p] = row]

(* Columns that an UPDATE of p sends. *)
Net(r, p) ==
    IF r.now[p] = None THEN {}
    ELSE {f \in DOMAIN r.now[p] : r.now[p][f] # r.seen[p][f]}

Dirty(r) == {p \in Products : Net(r, p) # {}} \ r.held

(* What p becomes by the UPDATE. *)
Written(r, p) ==
    IF product[p] = None THEN None
    ELSE [f \in DOMAIN product[p] |-> IF f \in Net(r, p) THEN r.now[p][f] ELSE product[p][f]]

Blocks(u, s) == u # s /\ sess[u].held \intersect Dirty(sess[s]) # {}
Waiting == {w \in Sessions \X Sessions : Blocks(w[2], w[1])}   \* <<s, u>>: s waits for u
CanFlush(s)  == \A u \in Sessions : ~Blocks(u, s)
Ready(s, op) == sess[s].op = op /\ CanFlush(s)
Flushed(r)   == [r EXCEPT !.held = @ \union Dirty(r)]

Become(s, r) == sess' = [sess EXCEPT ![s] = r]
Busy         == {s \in Sessions : sess[s].op # "none"}
Free(s)      == s \notin Busy /\ commits + Cardinality(Busy) < MaxCommits

-----------------------------------------------------------------------------
Init ==
    /\ product = [p \in Products |-> None]
    /\ shown = [p \in Products |-> None]
    /\ moved = [p \in Products |-> 0] /\ audited = [p \in Products |-> 0]
    /\ alerts = [x \in Types \X Products |-> <<>>]
    /\ sugg = [s \in Suggested |-> None]
    /\ sess = [s \in Sessions |-> Idle]
    /\ lock = FALSE /\ safe = TRUE
    /\ applied = [s \in Suggested |-> 0]
    /\ lost = [p \in Products |-> 0] /\ commits = 0

(* POST /inventory without a sku_code: the next number after the count.     *)
NextSku == Cardinality(Existing) + 1

Create(s, p, n) ==
    /\ Free(s) /\ p \notin Existing
    /\ \A u \in Sessions : sess[u].new # None => sess[u].new.id # p
    /\ Become(s, [Idle EXCEPT !.op = "commit", !.shown[p] = <<n.cost, n.price>>,
          !.new = [id  |-> p,
                   row |-> [sku |-> NextSku, stock |-> 0, cost |-> n.cost,
                            price |-> n.price, active |-> TRUE]]])

(* PUT /inventory/<p>.  A price below cost is looked up among the alerts,   *)
(* after the flush that this query brings about.                            *)
PriceChanged(old, new) == new.cost # old.cost \/ new.price # old.price

Update(s, p, change) ==
    /\ Free(s) /\ p \in Existing
    /\ LET given == {f \in DOMAIN change : change[f] # None}
           new   == [f \in DOMAIN product[p] |->
                       IF f \in given THEN change[f] ELSE product[p][f]]
           r     == Set(Idle, p, new)
       IN  IF PriceChanged(product[p], new)
           THEN Become(s, [r EXCEPT !.shown[p] = <<new.cost, new.price>>,
                                    !.op = IF new.cost > new.price THEN "warn" ELSE "commit"])
           ELSE Become(s, [r EXCEPT !.op = "commit"])

(* ProductService.create_alert: an open alert is only reworded. *)
Open(type, p) == \E i \in DOMAIN alerts[<<type, p>>] : alerts[<<type, p>>][i]

Warn(s) ==
    /\ Ready(s, "warn")
    /\ LET r == sess[s]
           p == CHOOSE q \in Products : r.now[q] # None
       IN  Become(s, [Flushed(r) EXCEPT !.op = "commit",
              !.raised = IF Open("MARGIN_WARNING", p) THEN {} ELSE {<<"MARGIN_WARNING", p>>}])

(* DELETE /inventory/<p>. *)
Deactivate(s, p) ==
    /\ Free(s) /\ p \in Existing
    /\ Become(s, [Set(Idle, p, [product[p] EXCEPT !.active = FALSE]) EXCEPT !.op = "commit"])

(* POST /inventory/<p>/stock-update. *)
StockUpdate(s, p, x) ==
    /\ Free(s) /\ p \in Existing
    /\ LET cost == IF x.cost THEN x.price ELSE product[p].cost
           r    == Set(Idle, p, [product[p] EXCEPT !.stock = @ + x.qty, !.cost = cost])
       IN  Become(s, [r EXCEPT !.op = "commit", !.moved[p] = x.qty,
              !.shown[p] = IF cost # product[p].cost THEN <<cost, product[p].price>> ELSE None])

(* A sale of one piece, as another component makes it. *)
Sell(s, p) ==
    /\ Free(s) /\ p \in Existing
    /\ Become(s, [Set(Idle, p, [product[p] EXCEPT !.stock = @ - 1])
                    EXCEPT !.op = "commit", !.moved[p] = -1])

(* POST /inventory/stock-audit: item by item; a missing product undoes all. *)
Audit(s, counts) ==
    /\ Free(s)
    /\ Become(s, [Idle EXCEPT !.op = "audit", !.counts = counts])

Discrepancy_Committed(r, p, actual) == actual - product[p].stock
Discrepancy(r, p, actual) == actual - Get(r, p).stock

AuditItem(s) ==
    /\ Ready(s, "audit")
    /\ LET c == Head(sess[s].counts)
           r == [Flushed(sess[s]) EXCEPT !.counts = Tail(@),
                   !.op = IF Len(sess[s].counts) = 1 THEN "commit" ELSE "audit"]
       IN  IF c.product \in Existing
           THEN Become(s, [Set(r, c.product, [Get(r, c.product) EXCEPT !.stock = c.actual])
                  EXCEPT !.audited[c.product] = @ + Discrepancy(r, c.product, c.actual)])
           ELSE Become(s, Idle)

(* evaluate_alerts: a product at or below its reorder level, unless it has  *)
(* ever had an alert of this type.                                          *)
NeverLow(p) == alerts[<<"LOW_STOCK", p>>] = <<>>

EvaluateAlerts(s) ==
    /\ Free(s)
    /\ LET low == {p \in Existing : product[p].stock <= Reorder /\ NeverLow(p)}
       IN  Become(s, [Idle EXCEPT !.op = "commit", !.raised = {<<"LOW_STOCK", p>> : p \in low}])

(* DELETE /inventory/alerts/<id>. *)
DismissAlert(s, type, p) ==
    /\ Free(s)
    /\ \E i \in DOMAIN alerts[<<type, p>>] :
         Become(s, [Idle EXCEPT !.op = "commit", !.solved = {<<type, p, i>>}])

-----------------------------------------------------------------------------
(* Pricing. *)

(* generate_optimal_price, in tenths: a margin below 15% asks for 30% on    *)
(* top of the cost, one above 35% for 10% less.                             *)
Recommended(cost, price) ==
    IF cost = 0 THEN price
    ELSE IF 100 * (price - cost) < 15 * price THEN (13 * cost) \div 10
    ELSE IF 100 * (price - cost) > 35 * price THEN (9 * price) \div 10
    ELSE price

(* A price of zero with a cost above it is a division by zero: the run      *)
(* raises, and changes nothing.                                             *)
Analysable == \A p \in Existing : product[p].cost > 0 => product[p].price > 0

RecentlyPending(p) ==
    {x \in Suggested : sugg[x] # None /\ sugg[x].product = p
                         /\ sugg[x].status = "PENDING" /\ sugg[x].recent}

(* The next free ids for the products due, one each. *)
Drawn(due) ==
    LET fresh == {x \in Suggested : sugg[x] = None
                                      /\ \A u \in Sessions : sess[u].sugg[x] = None}
    IN  {f \in [due -> fresh] : \A p, q \in due : f[p] = f[q] => p = q}

Suggest(s, locked) ==
    \E f \in Drawn({p \in Existing : RecentlyPending(p) = {}}) :
      Become(s, [Idle EXCEPT !.op = "commit", !.locked = locked,
        !.sugg = [x \in Suggested |->
           IF \A p \in DOMAIN f : f[p] # x THEN None
           ELSE LET p == CHOOSE p \in DOMAIN f : f[p] = x
                IN  [product |-> p, recent |-> TRUE, status |-> "PENDING",
                     price |-> Recommended(product[p].cost, product[p].price)]]])

(* run_weekly_pricing_analysis: a run that finds the key ends; one that     *)
(* cannot ask Redis, or gets no answer, goes on without it, and in the      *)
(* second case deletes the key all the same.                                *)
Acquirable_Always == TRUE
Acquirable == ~lock

WeeklyPricing(s) ==
    /\ Free(s) /\ Acquirable /\ Analysable
    /\ Suggest(s, TRUE)
    /\ lock' = TRUE /\ UNCHANGED safe

WeeklyPricingUnlocked(s) ==
    /\ Free(s) /\ Analysable
    /\ \E asked \in BOOLEAN : Suggest(s, asked)
    /\ safe' = FALSE /\ UNCHANGED lock

(* The key of a run that ends is deleted, whoever has set it last, if Redis *)
(* answers.                                                                 *)
Release(s) == lock' \in IF sess[s].locked THEN {FALSE, lock} ELSE {lock}

(* 900 seconds after it was set. *)
LockExpires ==
    /\ lock
    /\ lock' = FALSE
    /\ safe' = (safe /\ \A s \in Sessions : ~sess[s].locked)
    /\ UNCHANGED <<committed, sess>>

(* Seven days after it was made. *)
SuggestionAges(x) ==
    /\ sugg[x] # None /\ sugg[x].recent
    /\ sugg' = [sugg EXCEPT ![x].recent = FALSE]
    /\ UNCHANGED <<product, shown, moved, audited, alerts, sess, lock, safe, applied, lost, commits>>

(* POST /pricing/suggestions/<x>/apply and /dismiss. *)
Actionable_Any(x) == sugg[x] # None
Actionable(x) == sugg[x] # None /\ sugg[x].status = "PENDING"

Known(cost) == IF cost = 0 THEN None ELSE cost

Apply(s, x) ==
    /\ Free(s) /\ Actionable(x)
    /\ LET p == sugg[x].product
           r == Set(Idle, p, [product[p] EXCEPT !.price = sugg[x].price])
       IN  Become(s, [r EXCEPT !.op = "commit",
              !.shown[p] = <<Known(product[p].cost), sugg[x].price>>,
              !.sugg[x] = [sugg[x] EXCEPT !.status = "APPLIED"]])

Dismiss(s, x) ==
    /\ Free(s) /\ Actionable(x)
    /\ Become(s, [Idle EXCEPT !.op = "commit",
                              !.sugg[x] = [sugg[x] EXCEPT !.status = "DISMISSED"]])

-----------------------------------------------------------------------------
(* The last flush and the commit of a handler or a task.  A sku that exists *)
(* violates the unique index.                                               *)
SkuTaken(new) == new # None /\ \E p \in Existing : product[p].sku = new.row.sku

Commit(s) ==
    LET r == sess[s]
    IN  /\ Ready(s, "commit") /\ ~SkuTaken(r.new)
        /\ product' = [p \in Products |->
               IF r.new # None /\ r.new.id = p THEN r.new.row ELSE Written(r, p)]
        /\ shown' = [p \in Products |-> IF r.shown[p] # None THEN r.shown[p] ELSE shown[p]]
        /\ moved' = [p \in Products |-> moved[p] + r.moved[p]]
        /\ audited' = [p \in Products |-> audited[p] + r.audited[p]]
        /\ alerts' = [a \in Types \X Products |->
               [i \in DOMAIN alerts[a] |-> alerts[a][i] /\ <<a[1], a[2], i>> \notin r.solved]
                 \o (IF a \in r.raised THEN <<TRUE>> ELSE <<>>)]
        /\ sugg' = [x \in Suggested |->
               IF r.sugg[x] = None THEN sugg[x]
               ELSE IF sugg[x] = None THEN r.sugg[x]
               ELSE [sugg[x] EXCEPT !.status = r.sugg[x].status]]
        /\ applied' = [x \in Suggested |->
               IF r.sugg[x] # None /\ r.sugg[x].status = "APPLIED" THEN applied[x] + 1
               ELSE applied[x]]
        /\ lost' = [p \in Products |->
               IF "stock" \in Net(r, p) THEN lost[p] + product[p].stock - r.seen[p].stock
               ELSE lost[p]]
        /\ commits' = commits + 1
        /\ Release(s)
        /\ Become(s, Idle)
        /\ UNCHANGED safe

(* An exception or the loss of the process: rollback.  A run that is lost   *)
(* leaves its key to expire.                                                *)
Rollback(s) ==
    /\ Become(s, Idle)
    /\ UNCHANGED <<committed, safe>>

CommitRefused(s) ==
    /\ sess[s].op = "commit" /\ SkuTaken(sess[s].new)
    /\ Rollback(s) /\ UNCHANGED lock

Deadlocked(s) == OnCycle(s, Waiting, Sessions)

DeadlockVictim(s) == Deadlocked(s) /\ Rollback(s) /\ Release(s)

Crash(s) ==
    /\ sess[s].op # "none"
    /\ Rollback(s) /\ UNCHANGED lock

-----------------------------------------------------------------------------
Request(s) ==
    \/ \E p \in Products :
         \/ \E n \in NewRows : Create(s, p, n)
         \/ \E c \in Changes : Update(s, p, c)
         \/ \E x \in Receipts : StockUpdate(s, p, x)
         \/ Deactivate(s, p) \/ Sell(s, p)
         \/ \E type \in Types : DismissAlert(s, type, p)
    \/ \E counts \in Counts : Audit(s, counts)
    \/ \E x \in Suggested : Apply(s, x) \/ Dismiss(s, x)
    \/ EvaluateAlerts(s)

Next ==
    \/ \E s \in Sessions :
         \/ (Request(s) \/ Warn(s) \/ AuditItem(s)) /\ UNCHANGED <<committed, lock, safe>>
         \/ (WeeklyPricing(s) \/ WeeklyPricingUnlocked(s)) /\ UNCHANGED committed
         \/ Commit(s) \/ CommitRefused(s) \/ DeadlockVictim(s) \/ Crash(s)
    \/ LockExpires
    \/ \E x \in Suggested : SuggestionAges(x)

Spec == Init /\ [][Next]_vars

-----------------------------------------------------------------------------
(* The types of the variables. *)
TypeOK ==
    /\ product \in [Products -> Row \union {None}]
    /\ shown \in [Products -> Shown \union {None}]
    /\ moved \in [Products -> Int] /\ audited \in [Products -> Int]
    /\ lost \in [Products -> Int]
    /\ alerts \in [Types \X Products -> Seq(BOOLEAN)]
    /\ sugg \in [Suggested -> Sugg \union {None}]
    /\ applied \in [Suggested -> Nat] /\ commits \in 0 .. MaxCommits
    /\ lock \in BOOLEAN /\ safe \in BOOLEAN
    /\ \A s \in Sessions : sess[s].held \subseteq Products

(* The stock of a product is what its sales, adjustments and audit          *)
(* discrepancies say, less exactly the changes that a commit overwrote      *)
(* because it had read the row before them: an audit that counts what it    *)
(* read overwrites nothing.                                                 *)
StockExplained ==
    \A p \in Existing : product[p].stock + lost[p] = moved[p] + audited[p]

(* Generated skus are the numbers from one on, without gap or repetition,   *)
(* however many products are created at once.                               *)
SkusCount == {product[p].sku : p \in Existing} = 1 .. Cardinality(Existing)

(* What holds of products and stock in every state. *)
StockInv == TypeOK /\ StockExplained /\ SkusCount

(* While Redis answers and no run outlives its key, a product has at most   *)
(* one suggestion of the last seven days that waits for an answer.          *)
OneRecentPending ==
    safe => \A p \in Products : Cardinality(RecentlyPending(p)) <= 1

(* No session is stuck: it, or one it waits for directly or through others, *)
(* can go on, or is in a circle, of which the database will fail one.       *)
(* Audits lock products in the order of their counts.                       *)
CanGoOn(s) ==
    \/ \E op \in {"warn", "audit", "commit"} : Ready(s, op)
    \/ sess[s].op = "commit" /\ SkuTaken(sess[s].new)

NobodyIsStuck ==
    \A s \in Busy :
        HasWayOut(s, {u \in Sessions : CanGoOn(u) \/ Deadlocked(u)}, Waiting, Sessions)

(* The newest row of the price history is the price and the cost in force;  *)
(* the row of an applied suggestion leaves out a cost of zero.              *)
Shows(entry, row) ==
    entry \in {<<row.cost, row.price>>, <<Known(row.cost), row.price>>}

HistoryShowsPrice == \A p \in Existing : Shows(shown[p], product[p])

(* A suggestion shown as applied was applied once, any other never. *)
SuggestionsOnce ==
    \A x \in Suggested :
      applied[x] = IF sugg[x] # None /\ sugg[x].status = "APPLIED" THEN 1 ELSE 0

(* An open alert is not raised again, and a low stock is reported once.     *)
AlertsOnce ==
    \A type \in Types, p \in Products :
      LET open == {i \in DOMAIN alerts[<<type, p>>] : alerts[<<type, p>>][i]}
      IN  /\ Cardinality(open) <= 1
          /\ type = "LOW_STOCK" => Len(alerts[<<type, p>>]) <= 1
=============================================================================
