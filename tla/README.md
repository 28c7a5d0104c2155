# RetailIQ in TLA+

RetailIQ is the backend of a chain of shops: a Flask application over PostgreSQL
(SQLAlchemy), with Redis and Celery tasks. This directory holds TLA+ modules of the parts
of it that keep the records a shop lives by - stock, what customers owe and have earned,
purchase orders, products and prices, supplier invoices, the finance ledger, GST returns, staff
sessions, chains - of the delivery of webhooks, of signing in, and of how a release migrates its
database and starts; the TLC configurations that check them; and TLAPS proofs of what holds for
every number of threads, customers, sales, orders, invoices, products and loans.

The program's difficulty is not in its algorithms but in its transactions. gunicorn runs
four threads per worker (`gunicorn.conf.py:18`), Celery two tasks, and all of them read
rows, compute in Python and write absolute values at READ COMMITTED. Only four queries in
the whole application are `FOR UPDATE` (redeeming points `loyalty/routes.py:362`, repaying
credit `loyalty/routes.py:593`, receiving goods `suppliers/routes.py:501` and `:514`). The
modules therefore model what a database session does step by step: what it has read, what
it has changed and not flushed, which row locks it holds, what its commit overwrites.

    tlc -workers 2 -config MCSales.cfg MCSales
    tlapm CustomerAccounts_proofs.tla

## The system

State is in PostgreSQL unless said otherwise. "RMW" is a read-modify-write without a lock.

| component (`src/app`) | state | operations | hard behaviour |
| --- | --- | --- | --- |
| `transactions` | transactions, their items, `products.current_stock` | single sale, batch of offline sales, return, queries | stock RMW; retried posts; savepoints; deadlocks |
| `loyalty` | loyalty programme and accounts, credit ledgers, their logs | enrol, redeem, adjust, bulk adjust, tiers, repay, settings | locked and unlocked writers of one row; logs that must follow the balance |
| `suppliers` | suppliers, purchase orders, their lines, receipts | create, update, send, confirm, cancel, receive | status checked before the lock; deadlocks; write skew |
| `utils/webhooks.py`, `tasks/webhook_tasks.py` | webhook events; broker queue | broadcast, deliver, retry, test; usage counters in Redis | retries, stalls, a row that is never committed |
| `finance` | financial accounts, ledger entries, loans, treasury, policies | apply, approve, disburse, repay, sweep, yield, enrol, claim, scores, KYC | balance RMW; check-then-insert; two disbursements |
| `marketplace` | RFQs, orders, recommendations | create RFQ, order (with a financed loan), matching | status RMW; a loan outside the loan product's limits |
| `inventory` | products, stock audits, adjustments, alerts | create, update, stock-update, audit, dismiss | stock RMW against every other writer of stock |
| `vision` | OCR jobs and items | upload, process (task), confirm, dismiss | status checked unlocked by four actors |
| `tasks/tasks.py` | aggregates, GST filings, snapshots, forecasts, alerts | thirteen periodic tasks under a Redis lock | expiring lock; two queries of one total |
| `pricing` | suggestions, rules, price history | generate, apply, dismiss, rules | apply against dismiss |
| `gst`, `einvoicing` | configuration, HSN mappings, GST rows, filing periods, e-invoices; a file per period | configure, map, compile, file, generate | compilation against filing; a file that no rollback undoes |
| `chain` | groups, memberships, transfer suggestions; the group in an owner's token | create, add, remove, suggest, confirm | check-then-insert; a token that is behind |
| `staff_performance` | sessions, targets | start, end, targets | two starts at once |
| `developer` | applications, subscriptions, usage | register, subscribe, test, delete | see webhooks |
| `offline`, mobile `SyncEngine.kt` | snapshots; queue of the device | build, sync | a flag that is checked and then set |
| `auth` | users; codes and tokens in Redis | register, verify, log in, refresh | two stores and one rollback; a token taken twice |
| `tax_engine` | registrations | calculators for India, the US and VAT countries | rounding |
| `migrations/`, `scripts/`, `start_combined.sh` | the schema and its revision; a lock in Redis | upgrade, downgrade, start a container | crash with the lock; rows in the way; releases side by side |
| `whatsapp`, `kyc`, `receipts`, `events` | one row per message, invoice, check, print job, event | create, poll | adapters with fixed answers |
| `forecasting`, `analytics`, `dashboard`, `market_intelligence`, `nlp`, `ai_v2`, `decisions`, `i18n`, `store`, `customers`, `team`, `ops`, `websocket` | caches and single records | queries, numerical models, rules, single-row updates | few |

How they meet. A sale writes stock, the customer's credit ledger and loyalty account, and
the GST records in one database transaction, dispatches Celery tasks, and after its commit
broadcasts an event to the subscribed applications. Stock is also written by returns,
goods receipts, stock updates, audits and OCR confirmations. A financed marketplace order
inserts a loan for `finance`. The expiry task writes the loyalty accounts that sales,
redemptions and adjustments write. Tasks share nothing with requests but the database,
Redis and the broker.

What makes each part correct: stock is what was delivered less what was sold; a posted sale
is recorded once and its parts with it; a customer's balances are the sum of their
statements and stay within the limits; an order's status tells what has arrived; the finance
ledger balances and a loan's status follows the money; an event is delivered, or tried so
often and no more; a row that is final stays final; a return that is filed says what its file
says; a member of staff has one session and a store one chain; a container serves only on a
schema that has what its models name. `PROJECT.json` lists under "hazards"
where each of these can go wrong.

## The modules

`Waits` is the graph of sessions that wait for each other's row locks, as PostgreSQL's deadlock
detector sees it. `Sales`, `PurchaseOrders`, `OcrJobs` and `Inventory` use it: each says who waits for
whom (`Waiting`) and who can go on (`CanGoOn`), and the detector fails whoever is on a circle (`Deadlocked`).

### Sales

`stock` and `txns` are the committed tables; `sess` is the request and session of each
thread; `drift`, a history variable, counts the stock changes a commit has overwritten.

| action | code |
| --- | --- |
| `Submit`, `SkipDuplicate`, `RejectMissing`, `Deduct` | `create_transaction`, `create_batch_transactions`, `process_single_transaction`; a batch takes one sale after the other, each in its savepoint |
| `LoadReturn` | `process_return_transaction` |
| `Flush` | the first autoflush after the sale's rows: row locks, unique index; or the credit limit refuses the sale, which undoes the flush |
| `Commit`, `Abort`, `DeadlockVictim` | commit, loss of the worker, the database's deadlock detector |

One flush takes all product locks of a sale; products of a batch are locked sale by sale,
which is where deadlocks come from. Prices and payments are not modelled. The dispatch of
tasks before the commit (`services.py:215`) only sends ids and is left out.

### SaleLog

The abstract specification of recording sales: an append-only `log` of transactions, the `level`
of stock that it explains, and for each till a `cart` that is settled as a whole or dropped as a
whole, with the stock that is `due` for it. `Sales` implements it (`ImplementsSaleLog`, the
instance `Log`): the log is `txns`; the level is the stock with the changes that commits have
overwritten added back (`stock` + `drift`); a cart is what a session has flushed and not committed.
So whatever savepoints, duplicates, retries, deadlock victims and crashes do, an id is in one cart
at most and never in a cart when it is in the log, and a session's transactions and their stock
arrive together or not at all.

### CustomerAccounts

One customer's `ledger` (credit) and `account` (points) with the statements `creditLog` and
`pointsLog`; `ledLock` and `accLock` are the row locks; `ledNew`, `accNew` and `posts` are what a
session has changed. Actions follow the order of the queries in the handlers: a sale inserts
its row, charges the ledger, creates one if the customer has none, flushes before the query
of the loyalty programme, and then adds points (`SaleBegin` ... `SaleEnroll`); `Repay` and
`Redeem` lock; `AdjustBegin` and `AdjustItem` are the loop of the bulk adjustment; `Expire` is
the monthly task, one commit for all accounts; `Enroll` and `SwitchProgram` are one step each.
The check of the programme in `redeem` is merged with its locking read. Left out:
`lifetime_earned` and tiers, and changes of amount zero. A redemption stores the
`transaction_id` of its request (`loyalty/routes.py:377`): the foreign key refuses an id no sale has, and
nothing else is asked of it, so it may name any committed sale (`sold`), also one that earned points and
also twice. The sale of a store that is not modelled shows as `None`.

### PurchaseOrders

One order: `status`, `lines`, the products' `stock`, and the requests. `receive` is a request
that reads the status, then locks a line and a product for each item of the body, then reads all
lines to decide on FULFILLED, and commits; the body is undone when it names an unknown line or
product. `update` deletes the lines and inserts the new ones. Dates and notes are left out.

### WebhookDelivery

`event` rows, messages `queued` at the broker, tasks on the workers, the handler's session in
which a row is `pending` until the request ends. One application. The countdown of a retry is
not timed: under `prompt` (a variable chosen once) a retry becomes due only after the task that
sent it has ended, without `prompt` a stalled task may be overtaken by its own retry. Workers
acknowledge a message when they take it (Celery's default), so a lost worker loses its task.

### FinanceLedger

`accounts` holds, per account type, the rows in the order of their commits, each with the sums
of its entries; `loans` the applications; `sweep` and `policies`; `loanLock` the row locks of
loans. A posting is `SelectDebit`, `SelectCredit` and `Commit`: `record_transaction` selects two
accounts, creates those it does not find, and writes what it computed; `Written` is SQLAlchemy's
UPDATE of changed columns only. A disbursement has changed its loan before the first select,
which flushes it, so it holds the loan's row lock while it posts. `approvals`, `disbursed`,
`posted` and the `lost` field are histories.

`record_repayment` always fails: it gives `LoanRepayment` a `created_at`, which the model class
does not have (`loan_engine.py:131`, `finance_models.py:104`), and SQLAlchemy's constructor raises. `Repay`
therefore posts and is rolled back, a loan stays DISBURSED, and its statuses REPAYING and CLOSED are
unreachable; no route or test calls it. Amounts are whole paise; a loan's tenure, and whether its
product is active, are left out. approve, repay, sweep, yield and insurance are called by tests only.

### OcrJobs

A supplier's invoice: `status` and `items` of each job, `stock` with the sum `adjusted` of its
adjustments, the broker's `queue`. `Upload` commits the job and then asks for its task; `Delay`
sends it under the name all tasks share, so the worker (`Take`) discards it. `Begin`, `Start` and
`Recognise` are `process_ocr_job`, which a direct `Call` runs (the tests do): `Start` flushes
PROCESSING and so holds the job's row while the image is read; `Raise` is its except branch.
`Confirm` and `ConfirmItem` are the check and the loop of `confirm_job`, whose autoflush takes the
rows of one item before it reads the next; `Dismiss` is `dismiss_job`. `CommitStale` is the error
of an UPDATE whose row a reading has deleted. What the parser makes of the text is left out: a
reading finds any new items. An entry that names the item and the product of the one before it
(`Repeats`) is booked without a flush: both rows are in the session.

### Inventory

One store's products: the committed row `product[p]`, the newest price history row `shown`, and
sums of what the stock records say (`moved` by sales and stock updates, `audited` by audits);
`alerts` of two types, `sugg` the pricing suggestions, `lock` the Redis key of the weekly run.
A session's `seen` and `now` are the rows as read and as changed: `Net` is what SQLAlchemy's UPDATE
sends, so that an audit that counts exactly what it read writes no stock, and a concurrent sale
survives it. `Warn` is the query in `create_alert`, before which an update of a price is flushed;
`AuditItem` is one turn of the audit's loop. `WeeklyPricing` sets the key, `LockExpires` takes it
away, `Release` deletes it, whoever has it by then; `WeeklyPricingUnlocked` is the run without
Redis. An applied suggestion leaves a
cost of zero out of the price history (`Known`). `safe` says that Redis has answered so far and no run has outlived its key. A given
`sku_code` and opening stock, pricing rules and market context are left out.

### GstFiling

One store and one period: `config`, the sales with a GST row (`rows`), the period's row `filing`, the
JSON `file` on disk, the e-invoices of each sale, the HSN `mappings`. A figure is the set of sales
summed into it, so that a total and a list agree when the sets do. `compile_monthly_gst` is `Sum`,
`FindPeriod`, `List`, `WriteFile`, `CommitCompiled`: two queries of the sales with a third between
them, a file, and a commit that sends the columns that differ from the row read (`Compiled`).
`FindReturn` ... `CommitFiled` is the filing, which stamps the file before its commit. `FindInvoice`,
`DraftInvoice` and `AcceptInvoice` are one e-invoice: a draft is committed before the authority
answers. `Crash` undoes what the database would, not the file. Writing a file is one step.

### StaffSessions, Chain, UsageSync

Three small services that look and then write.

`StaffSessions` is one member of staff: `FindOpen`, `FlushClosed`, `CommitStart` are `start_session`, which
keeps the rows it closes locked from its flush; `FindToEnd` and `CommitEnd` are `end_session`;
`FindToSell` and `CommitSale` the session that a sale is booked on; `SetTarget` the day's target. `raced`
counts the starts that committed while a session was open that they had not found.

`Chain` has the owner of each group, the memberships, the transfers and the group in each owner's
`token`, which `Login` copies and nothing updates. `LookForGroup` and `CreateGroup`, `LookForMember` and
`AddStore` are the two steps of a request; `strays` and `strayMembers` mark the rows that committed
beside one their request had not seen.

`UsageSync` is one counter of API calls on its way from a Redis hash to its record: `ReadHash`,
`FindRecord`, `DeleteHash` and `Commit` are `sync_api_usage`; `Fail` is the loss of the worker or of the
commit. `gone`, `twice` and `stale` name what can happen to a call on the way.

### SignIn

One person: the `user` row and the thread `inserting` it, the one-time `code` and the refresh `tokens`
in Redis, the `inbox`. Every step that talks to Redis or the mail server may fail (`MaxFaults`), and the
handlers go on as the code does: a code that was not stored is mailed, a token that was not stored is
handed out, a delete that failed is passed over. `FindNobody` ... `CommitUser` is the registration,
`FindUser` resending and logging in, `CheckCode`, `UseCode`, `Activate` and `IssueToken` the
verification, `FindToken` and `Rotate` the refresh. Passwords, MFA and the account lock are left out.

### TaxFigures

The figures of a basket: those `process_single_transaction` records for GST, and those of the three
calculators of `tax_engine`. Exact sums are kept in fractions of a paisa (`Scale` is a common
denominator of the rates), and `RoundHalfEven` is what `quantize` does. `TakeLine` adds one line.

### Schema, Revisions, Routes, Deployment

`Schema` is a PostgreSQL schema - tables, references, parts (columns, constraints and indexes), types,
and the tables that hold rows - with the operations of a migration: `Legal` says which PostgreSQL or
Alembic refuses, `Effect` what one does. `Revisions` gives the 23 revisions of `migrations/versions` in
both directions as sequences of these operations, in the order of their chain, and the `Models` of
`app/models`. Names are those the code uses; types, lengths and seed rows are left out, and only the
columns that some revision touches outside the creation of its table are told apart.

`Routes` follows the revisions from an empty database, up and down in any order. They lead to 63 places (a
revision with a schema). Its four assumptions name no constant: that this is all there is, that the last
revision has what the models name wherever one comes from, and that all upgrades go through on tables
without rows. They are computations that TLC carries out before the run `deployment`.

`Deployment` runs them. A container starts with `entrypoint.sh` (lock in Redis, `alembic upgrade head`,
unlock, serve) or with `start_combined.sh` (no lock, and no `set -e`); `at` is its place in the script,
`image` its release and script, `saw` the revision its alembic found, `tx` the one open migration
transaction: `env.py` applies all missing revisions in one, and the first statement of a second
migration waits for the changes of the first. `Expire` ends the lock's 300 seconds, `Write` puts rows into tables, and
`Crash`, `Outage`, `Redeploy` and `Downgrade` are faults, `MaxFaults` of them.

## Runs

| run | question | distinct states |
| --- | --- | --- |
| `sales` | are all stock changes accounted for, with retries, batches, crashes and deadlocks; is recording the atomic, exactly-once log of `SaleLog`; does every request end? | 210,000 |
| `sales_over_return` | is no more returned than bought? **No** | |
| `accounts_races` | do limits, totals and statements survive the races; do the books balance without them? | 1,200,000 |
| `orders` | does every request on an order end, also receipts that deadlock? | 130,000 |
| `stockroom` | do receipts add up, and does an order's status tell the truth when requests do not overlap; does stock change only with the adjustment of an invoice or a record of the inventory; does an invoice's status tell what was booked without overlap; do skus count up; is there one recent suggestion under the lock; do price history, suggestions and alerts agree without overlap; does nobody wait for nothing? | 630,000 |
| `webhooks` | are attempts bounded, is success final, do committed events settle? | 1,100,000 |
| `webhooks_unannounced` | is a sale announced? **No** | |
| `finance` | does the ledger balance and do loans follow it, whatever overlaps? | 310,000 |
| `ocr_never_read` | is an accepted upload read? **No** | |
| `deployment` | does every path of upgrades, downgrades, crashes and releases lead to a schema that fits the models; does the lock work; does alembic only give up for a reason; does everyone serve in the end? | 140,000 |
| `office` | do a return and its file agree, are sessions, chains, API calls, codes and tokens accounted for, do rounded figures agree? | 750,000 |

The runs answered "No" are findings; each quotes the line that says otherwise. The
others pass, and for each of their properties `PROJECT.json` names a change of the code's
definition that makes TLC find it violated. `office` checks six modules that share no state, and
`stockroom` three (`PurchaseOrders`, `OcrJobs`, `Inventory`), each with its own account of the stock: a
behaviour picks one of them (`part`) and the others stand still, which adds their state spaces
instead of multiplying them.

An invariant that several conjuncts make up is a named conjunction, so that a run says in one word
what is kept: `StockInv` of `Sales`, `InvoicesBooked` and `StockRecorded` (the type, and stock accounted for),
`StatementsInv` (`CreditWithinLimit`, `PointsAgree`, `EachSaleOnce`, `LastEntryIsBalance`),
`ReceiptsInv`, `PostsInv` (`AttemptsBounded`, `NoRepeatAfterSuccess`), `BooksInv` (`BalancesAccounted`,
`LoanFollowsMoney`, `OwesWhatWasApproved`) and `SchemaInv`; `OfficeTypeOK` is the type of all parts.

Four kinds of properties recur. *Accounting for lost updates*: `StockAccounted`, `StockExplained`,
`StockFollowsAdjustments`, `BalancesAccounted` and `CallsExplained` say that the stored value and the
records differ by exactly what commits overwrote (a history variable that only those commits add to),
so that no other loss - a rollback that leaves something, a savepoint that does not undo, an entry
without its balance - can hide behind the known one. *Explained exceptions*: `OpenSessionsExplained`,
`ChainsExplained`, `SessionsExplained` and `GivesUpForAReason` say the same of rows that should not be
there and of failures. *Serial truth*: `SerialStatusTellsTruth`, `SerialBooksBalance`,
`SerialBooksAgree`, `SerialJobTellsTruth`, `SerialRecordsAgree`, `SerialFilingAgrees`,
`SerialSubmitsOnce` and `SerialCodesWork` say what holds as long as no two requests have overlapped
(and, in the last three, nothing failed), which is what the code's tests assume; a history variable
keeps that. `StartHeals` goes further: after any races, one undisturbed request restores order.
*What survives every race*: the rest.

### Bounds

Two threads: every race listed under "hazards" is between two requests, and a third adds
only waiting. Two sale ids make a retry and a rival possible at once; two products are what
two requests need to deadlock; a batch of two has a first and a second savepoint. Limits and amounts are
chosen so that a limit is hit exactly and exceeded by one (`MCLimit` 3 against sales of 2), a line
is named twice, and a product or an account is missing. `MaxEntries`, `MaxPostings`,
`MaxLoans`, `MaxCommits` (four: two products and two sessions that deadlock on them, or a suggestion
and two answers to it) and the input sets bound the counters; each is a constant and its comment says so.

In `office`: four staff sessions (two races and a healing start), two groups and two stores of one
owner, four calls (one before and one after each of two reads), three codes and tokens (a second one
that replaces the first, and a rival), one failure, two sales and two e-invoices each with one crash.
`Amounts` and `Rates` are chosen so that halves of a paisa, odd taxes and three lines whose roundings go
one way occur: each bound of `FiguresAgree` is reached.

In `deployment`: the last release and one that ends with the reconciling revision 121021f2b187, four
revisions earlier, with either script, on two containers: an old and a new one side by side, and two
of a kind. One `Busy`
table, `loan_products`, is one that a revision gives NOT NULL columns. Two faults are a crash and a
redeployment, or a rollback and the way back, or two downgrades.

A run with `CHECK_DEADLOCK FALSE` is one in which all inputs can be used up. Threads and sale ids
are symmetric in the runs without liveness.

### Fairness

`sales`, `orders` and `ocr_never_read` assume that a request which began goes on: weak fairness
of the steps that wait for nobody, and of the deadlock detector, as gunicorn's threads run and PostgreSQL
always breaks a deadlock; strong fairness of the steps that may wait for a row lock, as PostgreSQL queues
the waiters of a row, so that a lock which becomes free again and again is granted.
Nothing forces a client to post anything. `WebhookDelivery` assumes weak fairness of the workers and of
the end of a request; `EventsSettle` is stated under no failures, no stalls and a lasting subscription.
`ocr_never_read` assumes that an idle worker takes a message. `Deployment` assumes
weak fairness of each container's script and of its restart by the orchestrator, of the expiry of
the key (Redis keeps the time), and of the recovery of Redis; not of faults, redeployments or writes.
`EveryoneServes` then holds as long as no release is `Stuck`: a database ahead of it, or rows in the way
of its revisions. The other runs state safety only.

## Proofs

The `_proofs` modules hold for every value of the constants that satisfies the ASSUME of the module
(which only says what sort of value each is) or of the theorem. `Sums` is a module of lemmas: the sum
and the product over a finite set, which the models write with the folds of the community modules, are
the one function that their recursion describes (it exists and is unique, as a non-empty family of
subsets of a finite set has a minimal member), and so taking an element out takes its amount out. With
it the invariants that add up entries, receipts, stock changes, API calls and taxes are proved, not
only those that compare single rows. The same minimal member gives what deadlocks need: if finitely many
sessions all wait for each other and none waits for itself through others, each is left out by a set that holds all it waits for
in the end; but the smallest of these sets holds another such session and could do without it. So one is on a
circle (`SomeoneOnCycle`), and nobody is without a way out (`EveryoneHasWayOut`).

*CustomerAccounts*: `AccountsInv` is the inductive
invariant: `LimitInv` adds to `CreditWithinLimit` that an unflushed ledger row and the balance a
session has read respect the limit; `PointsInv` that every unflushed account row has its two totals
equal; `LastInv` that a session's pending entries end with its pending row, or that it writes no
row; `OnceInv` that a session that charges holds a sale id which is not sold and which no other
charging session has, that its reward is its one entry of points for that sale, and that any other
entry a session will post names a committed sale or none. There is a lemma for each action
that says which rows it leaves alone, and one per conjunct it can disturb. `StatementsKept` joins
them. `ChainInv` adds to `LockedEntriesChain` what a lock is for: a repayment or redemption holds its row
from its read to its commit, and so does every session that has flushed a ledger row; so the row it
read is still the stored one, which by `LastInv` is what the entry before shows (`LockedStepsChain`).
`SerialInv` says of the one session there is that what it has read is what is stored, and that the row
it will write is the stored one plus the entries it will post; so a balance is the sum of its
statement (`SerialBooks`).

*Sales*: `SalesInv` is inductive: a session that waits to flush remembers what it read, less its item; rows and
transaction ids are locked by one session only, and a flushed id is not recorded yet; a commit takes
exactly what was flushed; and the stock is accounted for. Under the refinement mapping each step is a Take,
a Settle, a Drop or a stutter of `SaleLog` (`SalesRefineTheLog`, `StockKept`, `BatchesTold`).
Whoever waits waits for one that can go on or is on a circle the detector breaks (`SalesMove`): a session at rest
holds nothing (`AtRest`), and what is about to be flushed is of the store's products (`Stocked`). And every step of
a request leaves it less to do (`SalesEndUp`, over the variant `Left`); what remains to conclude that all requests
end is fairness, which is TLC's. `EachReturnIsWithin` is what is true of the claim that `sales_over_return`
refutes: one return stays within a line of its sale, several together need not.

*Stockroom_proofs* proves the three parts of the run `stockroom`, and then that a behaviour of `MCStockroom`
is one of each of them (`Parts`).

- Purchase orders: `PoInv` says what a receipt knows of the lines and products it has locked: a line in its
  session is the stored one plus what it has put on it, the lines an update is to insert are nobody else's,
  and what it takes to the stock is what it has put on lines, except between a line and its product. A
  commit then adds the same to both (`ReceiptsHold`, `StockroomReceipts`). `PoSerial` adds what a lone request has decided - the
  status it read, the lines it counted - and that this still holds when it commits (`SerialOrders`, `StockroomOrders`).
- Invoices: `OcrInv` says that a session holds the rows it has changed and has computed a stock for each
  product it has read; what its commit adds to a product is what it adds to the adjustments, and the
  difference to what is stored then is what it overwrites (`InvoicesHold`, `StockroomInvoices`). `Told` is what a lone
  session knows of its job: a confirmation that it is in REVIEW and nothing has been added, a reading
  which items it is to delete (`SerialInvoices`, `StockroomJobs`).
- Inventory, stock: `Fit` says that a session changes the stock of a row it has read by what it adds to the
  records, leaves its sku alone, and inserts a product that is none yet, and `OwnNew` that no two insert
  one; a commit then keeps stock and records apart by what it overwrites, and adds the next sku
  (`StockHolds`, `StockroomStock`).
- Inventory, suggestions: a suggestion is inserted by one session (`Single`); under the lock only by the session
  that holds it (`Exclusive`), for products without a recent one (`Due`), and no two for one product
  (`OneSuggestion`, `StockroomSuggestions`).
- Inventory, records: what a lone session has read of a product, an alert or a suggestion is still so when
  it commits, and the history it adds is the price it writes (`Reads`); a session at rest knows nothing
  (`Resting`) (`StockroomRecords`).
- Waiting: a session that holds a row is at work (`Held`, `AtWork`, `Resting`), and one that is at work can go on
  unless another holds what it needs next; so nobody waits for nothing in any of the three (`StockroomMoves`). And a request on an order that moves has
  less to do, items, check and commit (`ToDo`, `OrdersEndUp`): what is left of `RequestsFinish` is fairness.
- Uploads: unless `process_ocr_job` is called directly, every invoice is QUEUED or FAILED and has booked nothing,
  for ever (`Unread`, `InvoicesNeverRead`): `ocr_never_read` shows one that waits, this that all do.

*WebhookDelivery*: `DeliveryInv` relates a row to the messages and tasks in flight: at most one of
them per event has not posted yet, its number of retries bounds the attempts, and after a
success none may post. From it follow `AttemptsBounded` and `NoRepeatAfterSuccess` (`PostsKept`).
`HonestInv` adds what a worker knows between its post and its write, so that the row says what the posts
came to (`StatusTellsTruth`); and where tasks are prompt no message or task is left for a row that is
final (`FinalRowsStay`, an action property).

*FinanceLedger*: `TypeOK` includes `InStage` (a session that has seen a row knows that it exists;
accounts and loans are never deleted), and with `BalancesAccounted` it is inductive.
`LoansInv` strengthens `LoanFollowsMoney` and `OwesWhatWasApproved`: a loan not yet approved is blank;
a request that disburses it knows that an approval is committed, and, while there is only one, that
the loan owed nothing and will owe what was approved. `Onward` is what a loan may go through
meanwhile, and `WorkStays` that such a request's knowledge survives it (`BooksKept`). `DoubleEntry` needs
no strengthening but the types: debits and credits of all rows are two sums over account types and rows,
and a commit adds its amount to one term of each. `SerialInv` is what a lone request knows: the accounts it
has seen and the loan it changes are as committed, so nothing is overwritten and no loan is paid out
twice (`SerialBooks`).

*Deployment*: `LockInv` says that, while the lock has not expired under a migration, whoever
migrates through `entrypoint.sh` is the one who set it, and that only such a container reaches the
command that deletes it (`LockWorks`). `VersionInv` says that an open migration is ahead of the
database, so the version only grows until a downgrade and a container past its migration keeps
finding at least its release (`ServesMigrated`).

The schema is proved about in two parts. What a list of operations does to a schema does not depend on the
rows, except that it may fail (`RunBare`, an induction over the list for whatever operations it has). So, with
their rows left out, the schema of the database and that of the open transaction are always at a place
of `Routes`, and before any downgrade at one of `Uphill` (`SchemasSound`), however many containers upgrade,
crash, write and downgrade. What `Routes` computes of the 63 places then holds of them: at the last revision the
models find what they name (`SchemaFits`), and where an upgrade fails that goes through without rows there are rows in
its way, or another migration came first, or a downgrade left something behind (`GivesUpRightly`, an action property).

*Office_proofs* proves the services of the run `office`, and then that a behaviour of `MCOffice` is one of each
of them (`OfficeImplements`: the steps of the other five are stutters), so that each property of the run
follows from the service's own theorem.

- Staff sessions: the inductive `StaffInv` adds to `OpenSessionsExplained` that a request nothing
  overlapped is alone, and if it is a start has found every open session. `StartOpens` says what a start leaves
  open: what it did not find, and its own session; so the count grows only with `raced`, and an
  undisturbed start leaves one (`SessionsCounted`, `StartsHeal`).
- Chains: `ChainInv` says without counting that two groups of an owner which are not strays are one
  (and chains of a store likewise), and that every request is blind: it goes on only when it has seen
  no group. The row an insert adds is then a stray unless it is the first (`OfficeChains`).
- Tokens: a thread about to issue one holds a number above every token so far, so that the issue is a new
  token; every other step only moves a token from one term of the count to another (`OfficeTokens`).
- Codes: `CodeInv` says, as long as nothing failed or overlapped, at which place of which handler the one
  request is, and what the user row, the code in Redis and the mail then are (`OfficeCodes`).
- API calls: the calls a task has read and not yet deleted are one more term of the sum, as are those
  of a task that found the hash changed behind it (`OfficeCalls`).
- GST filing: `GstInv` says that the list of a compilation has all that its sums counted, as rows of sales are
  only added (`OfficeLists`). `GstAll` adds, for sessions one at a time, what each place in a
  compilation, a filing and an e-invoice knows of row, file and drafts (`OfficeFiling`, `OfficeSubmits`); and that
  a compilation which saw a COMPILED row writes the same status (`OfficeReopens`).
- Tax figures: `Scale` is a product over the rates, so every rate divides it and exact figures are
  integers; they add up to the price, and each rounded figure is within half a scale of its exact one
  and each sum of n roundings within n halves (`OfficeFigures`).
- Types: each service's type invariant includes its foreign keys and uniqueness constraints, and is inductive but for
  the bounds: that codes and tokens stay within theirs needs that a request which is to make one has
  room for it, and that all such requests together have it (`SignFits`). Of tax figures it is that no amount is
  below zero (`OfficeTypes`).

What the theorems assume of constants: where a theorem is about requests one at a time or a count of sessions,
`Threads` is finite; `None` is no file, owner, row, code or number (each theorem names which); rates are
natural numbers and a finite set, amounts are integers (`TaxInputs`). `OfficeTypes` assumes `OfficeConstants`: bounds are
natural numbers, a configuration is a flag, and amounts are not negative. Theorems about who waits for whom
assume a finite set of sessions and that `None` is none of them; those about migrations, that releases are among the revisions and that
`MaxFaults` is a natural number (`DeploymentAssumption`), and what `Routes` computes.

Only model-checked: liveness (`RequestsFinish`, `EventsSettle`, `EveryoneServes`), as the prover has no ENABLED and no
fairness; and the four computations of `Routes`, which are data to run and not a claim for every constant. All
other properties of the passing runs are theorems.

## Noticed while modelling

Things the runs do not state, for whoever maintains the code:

- A stored balance stays within the credit limit (`CreditWithinLimit`), but two concurrent
  credit sales can both pass `services.py:94` and one charge is overwritten, so that a
  customer has bought more on credit than the limit.
- Two concurrent sales of one product lose a deduction (`services.py:60`), and a sale that read the
  account before a redemption writes the old points back (`services.py:127`).
- A receipt that checked the status before a cancellation committed books its goods on the cancelled order (`suppliers/routes.py:491`).
- Two overlapping confirmations book one invoice twice, and two answers to one pricing suggestion both take effect (`vision/routes.py:117`, `pricing/routes.py:107`).
- A redemption may name any sale, also one of another customer or store, or one that earned points (`loyalty/routes.py:377`): the points log shows a sale's id more than once.
- A direct run of `process_ocr_job` on an APPLIED job opens it for review again (`tasks.py:304` has no check).
- Nothing in `tasks.py` is registered with Celery and there is no beat schedule: expiry, aggregates, GST compilation and pricing run only when called. When the broker refuses, the fallback passes `session`, which most tasks do not take (`tasks.py:128`).
- `detect_slow_movers` adds alerts to one session and commits another (`tasks.py:253`).
- A product that ever had a LOW_STOCK alert gets no other, also after the first is dismissed (`tasks.py:512`).
- Generated skus are a count: a given sku of that form makes every later creation fail (`inventory/services.py:18`).
- A product with a cost and the price zero stops the pricing run for all stores (`pricing/engine.py:32`); line 33, "Raise to 30% margin", adds 30% to the cost.
- A draft can be emptied by `update` while `send` reads it (`suppliers/routes.py:417`, `:461`), and two updates double its lines.
- An exception in the broadcast answers 500 although the sale is committed (`transactions/routes.py:52`).
- A duplicate in a batch is counted neither as accepted nor as rejected (`services.py:223`; compare `API_GUIDE.md:1461`).
- After the last attempt fails with a network error the row shows FAILED, not DEAD_LETTERED (`webhook_tasks.py:95`: the retry raises outside the handler that would mark it).
- `get_ledger` (`finance/routes.py:149`) reads a column that does not exist; a claim never marks its policy CLAIMED.
- `sync_api_usage` deletes the counters in Redis before its commit (`webhook_tasks.py:207`).
- The offline snapshot builder reads `Alert.status` (`offline/builder.py:126`), which the model class does not have.

From runs with smaller bounds, each now part of a serial property:

- Two concurrent receipts of different lines leave a complete order SENT or CONFIRMED, as each sees the other's line unreceived (`suppliers/routes.py:525`, "check if fully fulfilled").
- Two first postings insert two accounts of a type, after which every posting of that type raises (`finance/ledger.py:19`).

GST and e-invoices:

- A compilation after the filing takes the period back to COMPILED if it had read it in another state, and always drops the acknowledgement from the file (`tasks.py:65`).
- `hsn_breakdown` rounds per item while totals round once (`services.py:196`), items without a code share "NONE" with the first one's rate, and CGST and SGST can differ from `total_gst` by a paisa.
- An e-invoice whose process was lost is submitted again by every retry: its query has no order and may find the old draft each time (`einvoicing/routes.py:63`).
- GET `/gst/summary` calls `.delay`, which starts nothing.

Staff, chains, usage:

- Two overlapping starts leave two open sessions; a sale may be booked on a session that was closed meanwhile.
- `confirm_transfer` moves no stock, `create_transfer` does not ask whether the stores are members, and nothing writes `ChainDailyAggregate`, so the dashboards show zero.
- A token carries the group of its login; creating a group does not renew it.
- `sync_api_usage` loses the calls between its `hgetall` and its `delete`, and two runs count twice.

Signing in:

- The code of a registration is mailed before the account is committed; a verification that races with a resend deletes the newer code; a code that could not be stored is mailed all the same.
- Refreshing one token twice at once leaves two live tokens.

Deployment:

- A container that waits for the lock exits with 10, and `set -e` ends the script before it can look at that (`DEPLOYMENT.md:174`: "Skip migrations (already done)"); the orchestrator's restart heals it.
- `entrypoint.sh:87`, "Release the lock regardless of migration outcome", is never reached when `alembic` fails: the lock stays for its 300 seconds.
- Without Redis the client raises and the container exits (`DEPLOYMENT.md:679` says that it migrates without a lock).
- A rollback to an older image does not start, as its alembic does not know the revision (`DEPLOYMENT.md:713`), and takes the lock on every attempt.
- `ef7d1bae1e6e` adds NOT NULL columns without a default, and its downgrade raises; the downgrade of `121021f2b187` drops 27 parts that others had added; downgrades leave enumeration types that make the next upgrade fail.
- The lock is deleted without a look at its owner. `start_combined.sh` has no `set -e` and serves after a failed migration; `start-app.sh` and `docker-compose` migrate without the lock.

Elsewhere:

- `send_campaign` asks nobody's preference and can be sent again (`whatsapp/routes.py`).
- `SyncEngine.kt` marks its tasks COMPLETED without sending them, and its ids are milliseconds.

## What is left

1. Proofs: variants like `ToDo` for the sessions of `OcrJobs` and `Inventory`; that a container
   which is not obstructed climbs `Uphill` to its release.
2. `StockLevels`: every writer of `products.current_stock` over one abstract session, with the
   accounting property that `Sales`, `OcrJobs` and `Inventory` each state for their own writers.
3. RFQs and orders of the marketplace, tiers of the loyalty programme, passwords and the account lock.

Not modelled: numerical forecasting and text processing (no state, no protocol); analytics, dashboards and
reports (queries); WhatsApp, receipts, KYC, events, i18n, store, customers, team (each request inserts or
updates one row in one commit, and its adapters answer with fixed data); market intelligence (its tasks
import a module that does not exist); offline snapshots and `SyncEngine.kt` (one row that is overwritten,
and a queue that is never sent); logging, rate limits and wiring; Kubernetes manifests and settings.
`PROJECT.json` gives the reason for each component.
