------------------------------- MODULE OcrJobs -------------------------------
(***************************************************************************)
(* Supplier invoices read by OCR and booked into stock: app/vision and     *)
(* process_ocr_job of app/tasks.                                           *)
(*                                                                         *)
(* Web requests and tasks each have a database session at READ COMMITTED   *)
(* and lock no row to read it.  The web session flushes what it has        *)
(* changed before its next query, so a confirmation holds the rows of its  *)
(* first item while it looks at the second; the session of a task flushes  *)
(* only when told, but tells it to at once, so a task holds the row of its *)
(* job while it reads the image.                                           *)
(*                                                                         *)
(* An upload asks for its task through _DelayWrapper, which sends every    *)
(* task under one name, one that no worker has registered.  What runs      *)
(* process_ocr_job is a direct call, as in the tests.                      *)
(***************************************************************************)
EXTENDS Integers, Sequences, FiniteSets, Waits

CONSTANTS
    Threads,   \* request threads
    Workers,   \* processes that run tasks
    Jobs,      \* ids of ocr_jobs, drawn by uploads
    ItemIds,   \* ids of ocr_job_items, drawn by tasks (a bound)
    Products,  \* products of the store
    Foreign,   \* products the store does not have
    Bodies,    \* what a confirmation may list (bounds the inputs)
    None       \* no value

Statuses == {"QUEUED", "PROCESSING", "REVIEW", "APPLIED", "FAILED"}
Entry    == [item : ItemIds, product : Products \union Foreign, qty : Nat]

(* What a module that gives the constants their values has to assume. *)
OcrAssumption ==
    /\ IsFiniteSet(Threads \union Workers) /\ Threads \intersect Workers = {}
    /\ Jobs \intersect ItemIds = {} /\ Products \intersect Foreign = {}
    /\ (Jobs \union ItemIds) \intersect (Products \union Foreign) = {}
    /\ Bodies \subseteq Seq(Entry)
    /\ None \notin Int \union Entry \union Jobs \union Statuses
                      \union [job : Jobs, given : Entry \union {None}]

VARIABLES
    status,   \* ocr_jobs.status, as committed
    items,    \* ocr_job_items, as committed
    stock,    \* products.current_stock, as committed, less the opening stock
    adjusted, \* sum of the stock_adjustments of each product
    sess,     \* the session of each thread and worker
    queue,    \* messages on the broker
    direct,   \* process_ocr_job is also called directly
    drawn,    \* history: item ids given to rows
    added,    \* history: confirmations of each job since it was last read
    lost      \* history: stock changes of others that commits have overwritten

vars == <<status, items, stock, adjusted, sess, queue, direct, drawn, added, lost>>
committed == <<status, items, stock, adjusted, added, lost>>

Item     == [job : Jobs, given : Entry \union {None}]   \* given when is_confirmed
Sessions == Threads \union Workers
Rows     == Jobs \union ItemIds \union Products

Idle == [op    |-> "none",
         job   |-> None,
         write |-> None,                        \* the status to write
         body  |-> <<>>,                        \* entries still to book
         dirty |-> {},                          \* rows changed and not flushed
         held  |-> {},                          \* rows flushed, hence locked
         read  |-> [p \in Products |-> None],   \* stock as read
         own   |-> [p \in Products |-> None],   \* stock as computed
         given |-> [i \in ItemIds |-> None],    \* entries booked on items
         last  |-> None,                        \* the entry booked last
         gone  |-> {},                          \* items to delete
         new   |-> {}]                          \* items to insert

RowsOf(j) == {i \in ItemIds : items[i] # None /\ items[i].job = j}

-----------------------------------------------------------------------------
(* Flushes and locks. *)

(* An entry of the same item and product as the one before: both rows are   *)
(* still in the session, which neither queries nor flushes for it.          *)
Repeats(r) ==
    /\ r.op = "confirm" /\ r.body # <<>> /\ r.last # None
    /\ Head(r.body).item = r.last.item /\ Head(r.body).product = r.last.product

Blocks(u, s) ==
    u # s /\ ~Repeats(sess[s]) /\ sess[u].held \intersect sess[s].dirty # {}

CanFlush(s) == \A u \in Sessions : ~Blocks(u, s)

(* An UPDATE of a row that a task has deleted matches nothing, and raises.  *)
Stale(s) == \E i \in sess[s].dirty \intersect ItemIds : items[i] = None

Flushed(r) == [r EXCEPT !.held = @ \union r.dirty, !.dirty = {}]

(* <<s, u>>: s waits for u. *)
Waiting == {w \in Sessions \X Sessions : Blocks(w[2], w[1])}

Deadlocked_Undetected(s) == FALSE
Deadlocked(s) ==
    OnCycle(s, Waiting, Sessions)

Become(s, r) == sess' = [sess EXCEPT ![s] = r]

(* An exception in a request: rollback.  In a task: rollback, and the job   *)
(* is read again to be marked FAILED.                                       *)
Raise(s) ==
    IF sess[s].op \in {"ocr", "read"}
    THEN Become(s, [Idle EXCEPT !.op = "failing", !.job = sess[s].job,
                                !.write = "FAILED", !.dirty = {sess[s].job}])
    ELSE Become(s, Idle)

-----------------------------------------------------------------------------
Init ==
    /\ status = [j \in Jobs |-> None]
    /\ items = [i \in ItemIds |-> None]
    /\ stock = [p \in Products |-> 0]
    /\ adjusted = [p \in Products |-> 0]
    /\ sess = [s \in Sessions |-> Idle]
    /\ queue = {}
    /\ direct \in BOOLEAN
    /\ drawn = {}
    /\ added = [j \in Jobs |-> 0]
    /\ lost = [p \in Products |-> 0]

(* POST /ocr/upload: the row is committed before the task is asked for.     *)
Upload(t, j) ==
    /\ sess[t].op = "none" /\ status[j] = None
    /\ status' = [status EXCEPT ![j] = "QUEUED"]
    /\ Become(t, [Idle EXCEPT !.op = "delay", !.job = j])
    /\ UNCHANGED <<items, stock, adjusted, queue, direct, drawn, added, lost>>

(* process_ocr_job.delay(job).  The broker takes the message, or refuses    *)
(* it: then the task is called with a session, an argument it does not      *)
(* have, and the request fails.                                             *)
SentAs(task) == "app.tasks.tasks.compile_monthly_gst"
Registered   == {"tasks.deliver_webhook", "tasks.sync_api_usage"}

Delay(t) ==
    /\ sess[t].op = "delay"
    /\ \/ queue' = queue \union {[task |-> SentAs("process_ocr_job"), job |-> sess[t].job]}
       \/ queue' = queue
    /\ Become(t, Idle)
    /\ UNCHANGED <<committed, direct, drawn>>

(* A worker takes a message.  A task it does not know is discarded.         *)
Begin(w, j) ==
    Become(w, [Idle EXCEPT !.op = "start", !.job = j, !.write = "PROCESSING", !.dirty = {j}])

Take(w, m) ==
    /\ sess[w].op = "none" /\ m \in queue
    /\ queue' = queue \ {m}
    /\ IF m.task \in Registered THEN Begin(w, m.job) ELSE UNCHANGED sess
    /\ UNCHANGED <<committed, direct, drawn>>

Call(w, j) ==
    /\ direct /\ sess[w].op = "none" /\ status[j] # None
    /\ Begin(w, j)
    /\ UNCHANGED <<committed, queue, direct, drawn>>

(* process_ocr_job up to session.flush(): the status is not looked at.      *)
CanStart(w) == sess[w].op = "start" /\ CanFlush(w)

Start(w) ==
    /\ CanStart(w)
    /\ Become(w, [Flushed(sess[w]) EXCEPT !.op = "ocr"])
    /\ UNCHANGED <<committed, queue, direct, drawn>>

(* The image is read and parsed, the rows of an earlier reading are         *)
(* selected to be deleted; or the image, tesseract or the parser fails.     *)
Recognise(w) ==
    /\ sess[w].op = "ocr"
    /\ \/ \E found \in SUBSET (ItemIds \ drawn) :
            /\ Become(w, [sess[w] EXCEPT !.op = "read", !.write = "REVIEW",
                                         !.gone = RowsOf(sess[w].job), !.new = found,
                                         !.dirty = RowsOf(sess[w].job)])
            /\ drawn' = drawn \union found
       \/ Raise(w) /\ UNCHANGED drawn
    /\ UNCHANGED <<committed, queue, direct>>

(* POST /ocr/<j>/confirm: the status, read without a lock.                  *)
Reviewable_Any(j) == status[j] # None
Reviewable(j) == status[j] = "REVIEW"

Confirm(t, j, body) ==
    /\ sess[t].op = "none" /\ Reviewable(j)
    /\ Become(t, [Idle EXCEPT !.op = "confirm", !.job = j, !.write = "APPLIED", !.body = body,
                              !.dirty = IF body = <<>> THEN {j} ELSE {}])
    /\ UNCHANGED <<committed, queue, direct, drawn>>

(* One entry: the query for its item, or its product, flushes what the      *)
(* entry before changed.                                                    *)
Known(r, i) == r.given[i] # None \/ i \in RowsOf(r.job)

Stock_Committed(r, p) == stock[p]
Stock(r, p) == IF r.own[p] # None THEN r.own[p] ELSE stock[p]

Booked(r, e) ==
    LET p == e.product  i == e.item
        before == IF r.given[i] # None THEN r.given[i] ELSE items[i].given
    IN  [(IF Repeats(r) THEN r ELSE Flushed(r)) EXCEPT
           !.body     = Tail(@),
           !.last     = e,
           !.read[p]  = IF @ = None THEN stock[p] ELSE @,
           !.own[p]   = Stock(r, p) + e.qty,
           !.given[i] = e,
           !.dirty    = @ \union {p} \union (IF e # before THEN {i} ELSE {})
                          \union (IF Len(r.body) = 1 THEN {r.job} ELSE {})]

CanConfirmItem(t) == sess[t].op = "confirm" /\ sess[t].body # <<>> /\ CanFlush(t)

ConfirmItem(t) ==
    /\ CanConfirmItem(t)
    /\ LET e == Head(sess[t].body)
           acceptable == Known(sess[t], e.item) /\ e.product \in Products /\ e.qty > 0
           flushed    == Repeats(sess[t]) \/ ~Stale(t)
       IN  IF acceptable /\ flushed THEN Become(t, Booked(sess[t], e)) ELSE Raise(t)
    /\ UNCHANGED <<committed, queue, direct, drawn>>

(* POST /ocr/<j>/dismiss: a job has no status of its own for it. *)
Dismissed == "FAILED"

Dismiss(t, j) ==
    /\ sess[t].op = "none" /\ status[j] \in {"REVIEW", "QUEUED", "PROCESSING"}
    /\ Become(t, [Idle EXCEPT !.op = "dismiss", !.job = j, !.write = Dismissed, !.dirty = {j}])
    /\ UNCHANGED <<committed, queue, direct, drawn>>

(* The last flush and the commit, of a request or a task.                   *)
CanCommit(s) ==
    /\ sess[s].op \in {"confirm", "dismiss", "read", "failing"} /\ sess[s].body = <<>>
    /\ CanFlush(s) /\ ~Stale(s)

Commit(s) ==
    LET r == sess[s]
        stocked == {p \in Products : r.own[p] # None}
    IN  /\ CanCommit(s)
        /\ status' = [status EXCEPT ![r.job] = r.write]
        /\ items' = [i \in ItemIds |->
               IF i \in r.gone THEN None
               ELSE IF i \in r.new THEN [job |-> r.job, given |-> None]
               ELSE IF r.given[i] # None /\ items[i] # None
                    THEN [items[i] EXCEPT !.given = r.given[i]]
               ELSE items[i]]
        /\ stock' = [p \in Products |-> Stock(r, p)]
        /\ adjusted' = [p \in Products |->
               IF p \in stocked THEN adjusted[p] + r.own[p] - r.read[p] ELSE adjusted[p]]
        /\ lost' = [p \in Products |->
               IF p \in stocked THEN lost[p] + stock[p] - r.read[p] ELSE lost[p]]
        /\ added' = [added EXCEPT ![r.job] = CASE r.op = "confirm" -> @ + 1
                                               [] r.op = "read"    -> 0
                                               [] OTHER            -> @]
        /\ Become(s, Idle)
        /\ UNCHANGED <<queue, direct, drawn>>

CanFailStale(s) ==
    /\ sess[s].op = "confirm" /\ sess[s].body = <<>>
    /\ CanFlush(s) /\ Stale(s)

CommitStale(s) ==
    /\ CanFailStale(s)
    /\ Raise(s)
    /\ UNCHANGED <<committed, queue, direct, drawn>>

DeadlockVictim(s) ==
    /\ Deadlocked(s)
    /\ Raise(s)
    /\ UNCHANGED <<committed, queue, direct, drawn>>

(* The process is lost, and with it the session. *)
Crash(s) ==
    /\ sess[s].op # "none"
    /\ Become(s, Idle)
    /\ UNCHANGED <<committed, queue, direct, drawn>>

-----------------------------------------------------------------------------
Step(s) ==
    \/ s \in Threads /\ (Delay(s) \/ ConfirmItem(s))
    \/ s \in Workers /\ (Start(s) \/ Recognise(s))
    \/ Commit(s) \/ CommitStale(s)

Next ==
    \/ \E t \in Threads, j \in Jobs :
         Upload(t, j) \/ Dismiss(t, j) \/ \E body \in Bodies : Confirm(t, j, body)
    \/ \E w \in Workers : (\E m \in queue : Take(w, m)) \/ (\E j \in Jobs : Call(w, j))
    \/ \E s \in Sessions : Step(s) \/ DeadlockVictim(s) \/ Crash(s)

(* Threads and workers run, PostgreSQL grants a lock to who waits for it    *)
(* and breaks deadlocks; nobody has to upload, confirm or call anything.    *)
Fairness ==
    /\ \A s \in Sessions : SF_vars(Step(s)) /\ WF_vars(DeadlockVictim(s))
    /\ \A w \in Workers : WF_vars(\E m \in queue : Take(w, m))

Spec == Init /\ [][Next]_vars
FairSpec == Spec /\ Fairness

-----------------------------------------------------------------------------
(* Properties. *)

(* The state has its type, and no row is locked by two sessions.            *)
TypeOK ==
    /\ status \in [Jobs -> Statuses \union {None}]
    /\ items \in [ItemIds -> Item \union {None}]
    /\ stock \in [Products -> Int] /\ adjusted \in [Products -> Int]
    /\ \A s \in Sessions : sess[s].held \union sess[s].dirty \subseteq Rows
    /\ \A s, u \in Sessions : s # u => sess[s].held \intersect sess[u].held = {}

(* Stock and stock_adjustments part only by what a commit has overwritten:  *)
(* a confirmation that fails at a later entry, loses a deadlock, finds its  *)
(* items deleted or dies leaves neither stock nor an adjustment.            *)
StockFollowsAdjustments ==
    \A p \in Products : stock[p] + lost[p] = adjusted[p]

(* What holds of items and stock in every state. *)
StockInv == TypeOK /\ StockFollowsAdjustments

(* What the status says of a job: queued or waiting for review, its reading *)
(* has added nothing to stock and confirmed no item; applied, it was added  *)
(* once; in no case twice.                                                  *)
JobTellsTruth ==
    \A j \in Jobs :
        /\ added[j] <= 1
        /\ status[j] = "APPLIED" => added[j] = 1
        /\ status[j] \in {"QUEUED", "REVIEW"} =>
             added[j] = 0 /\ \A i \in RowsOf(j) : items[i].given = None

(* No request and no task is stuck: it, or one it waits for directly or     *)
(* through others, can go on, or is in a circle, of which the database will *)
(* fail one.  A confirmation holds items and waits for the job, a task      *)
(* holds the job and waits to delete the items; only a confirmation can     *)
(* find its items deleted when it commits.                                  *)
CanGoOn(s) ==
    \/ s \in Threads /\ (sess[s].op = "delay" \/ CanConfirmItem(s))
    \/ s \in Workers /\ (CanStart(s) \/ sess[s].op = "ocr")
    \/ CanCommit(s) \/ CanFailStale(s)

NobodyIsStuck ==
    \A s \in Sessions : sess[s].op # "none" =>
        HasWayOut(s, {u \in Sessions : CanGoOn(u) \/ Deadlocked(u)}, Waiting, Sessions)

(* "Celery 5.4 for async jobs (forecasting, OCR, notifications)"            *)
(* (README.md:48): an invoice whose task the broker has accepted is read in *)
(* the end, or fails.                                                       *)
AcceptedUploadsAreRead ==
    \A j \in Jobs : (\E m \in queue : m.job = j) ~> status[j] # "QUEUED"
=============================================================================
