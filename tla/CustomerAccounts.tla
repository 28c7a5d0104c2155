--------------------------- MODULE CustomerAccounts ---------------------------
(***************************************************************************)
(* What a customer owes and what points a customer has: the credit ledger  *)
(* and the loyalty account, and every handler that moves them (a sale in   *)
(* app/transactions, redemption, repayment and adjustments in app/loyalty, *)
(* the nightly expiry in app/tasks).                                       *)
(*                                                                         *)
(* Some handlers read the row FOR UPDATE and hold its lock until they      *)
(* commit; the others read it unlocked, compute an absolute value and take *)
(* the lock only when SQLAlchemy flushes the UPDATE, which it does before  *)
(* the next query and at commit.  One store; amounts are integers (the     *)
(* columns are NUMERIC(12,2)).  The products of a sale are in module       *)
(* Sales: here sales are of different products and do not meet there.      *)
(***************************************************************************)
EXTENDS Integers, Sequences, Functions

CONSTANTS
    Threads,    \* request threads and Celery workers
    Customers,  \* customers of the store
    SaleIds,    \* client-made transaction ids
    Limit,      \* [Customers -> Nat or None], None: no credit ledger yet
    Rate,       \* points_per_rupee
    MinRedeem,  \* min_redemption_points
    Totals,     \* what a sale may add up to (bounds the inputs)
    Amounts,    \* what may be repaid or redeemed at once (bounds the inputs)
    Batches,    \* the bulk adjustments an owner may send (bounds the inputs)
    MaxEntries, \* no repayment, redemption or adjustment beyond these entries
    None        \* no value

Item == [c : Customers, points : Int \ {0}]

ASSUME AccountsAssumption ==
    /\ None \notin Threads /\ None \notin Int /\ None \notin SaleIds
    /\ None \notin [balance : Int, limit : Nat]
    /\ None \notin [total : Int, redeemable : Int]
    /\ Limit \in [Customers -> Nat \union {None}]
    /\ Rate \in Nat
    /\ MinRedeem \in Nat /\ MaxEntries \in Nat
    /\ Totals \subseteq Int \ {0}
    /\ Amounts \subseteq Nat \ {0}
    /\ Batches \subseteq Seq(Item) \ {<<>>}

VARIABLES
    ledger,    \* credit_ledger rows, as committed
    account,   \* customer_loyalty_accounts rows, as committed
    creditLog, \* credit_transactions of each customer, in commit order
    pointsLog, \* loyalty_transactions of each customer, in commit order
    sold,      \* ids in transactions, as committed
    active,    \* loyalty_programs.is_active
    dormant,   \* last_activity_at is older than expiry_days
    req,       \* the request of each thread
    pc,        \* how far it is
    ledNew,    \* ledger row the session has computed, not committed
    accNew,    \* account rows the session has computed, not committed
    posts,     \* loyalty entries the session has added, not committed
    ledLock,   \* who holds the row lock of each ledger
    accLock    \* who holds the row lock of each account

committed == <<ledger, account, creditLog, pointsLog, sold>>
sessions == <<req, pc, ledNew, accNew, posts, ledLock, accLock>>
vars == <<ledger, account, creditLog, pointsLog, sold, active, dormant,
          req, pc, ledNew, accNew, posts, ledLock, accLock>>

-----------------------------------------------------------------------------
(* Types. *)

Ledger  == [balance : Int, limit : Nat]
Account == [total : Int, redeemable : Int]
Entry   == [type   : {"CREDIT_SALE", "REPAYMENT", "EARN", "REDEEM", "EXPIRE", "ADJUST"},
            amount : Int,
            after  : Int,                     \* balance_after
            txn    : SaleIds \union {None}]   \* transaction_id

Ops == {"none", "sale", "repay", "redeem", "adjust", "expire"}

Request == [op     : Ops,
            c      : Customers \union {None},
            id     : SaleIds \union {None},  \* of a sale, or that a redemption names
            credit : BOOLEAN,                \* sold on credit
            amount : Int,                    \* total, repaid amount or redeemed points
            todo   : Seq(Item)]              \* adjustments still to make

SaleStages == {"insert", "ledger", "create", "owe", "points", "enroll"}
Stages == SaleStages \union {"idle", "adjust", "commit"}

Asks(op, c, id, credit, amount, todo) ==
    [op |-> op, c |-> c, id |-> id, credit |-> credit, amount |-> amount, todo |-> todo]

NoRequest == Asks("none", None, None, FALSE, 0, <<>>)
NoRows    == [c \in Customers |-> None]
NoPosts   == [c \in Customers |-> <<>>]

Init ==
    /\ ledger = [c \in Customers |->
                   IF Limit[c] = None THEN None ELSE [balance |-> 0, limit |-> Limit[c]]]
    /\ account = NoRows
    /\ creditLog = NoPosts /\ pointsLog = NoPosts
    /\ sold = {}
    /\ active = TRUE
    /\ dormant = [c \in Customers |-> FALSE]
    /\ req = [t \in Threads |-> NoRequest]
    /\ pc = [t \in Threads |-> "idle"]
    /\ ledNew = [t \in Threads |-> None]
    /\ accNew = [t \in Threads |-> NoRows]
    /\ posts = [t \in Threads |-> NoPosts]
    /\ ledLock = NoRows /\ accLock = NoRows

-----------------------------------------------------------------------------
(* Sessions. *)

Free_Always(lock, t) == TRUE
Free(lock, t) == lock \in {None, t}

(* Rows of t's session that its next flush updates. *)
Pending(t) == {c \in Customers : accNew[t][c] # None}

(* The account rows after t's flush: waits for their locks, then holds them. *)
FlushAccounts(t) ==
    /\ \A c \in Pending(t) : Free(accLock[c], t)
    /\ accLock' = [c \in Customers |-> IF c \in Pending(t) THEN t ELSE accLock[c]]

(* The session of t is closed: its locks go, and the thread is idle. *)
EndSession(t) ==
    /\ req' = [req EXCEPT ![t] = NoRequest]
    /\ pc' = [pc EXCEPT ![t] = "idle"]
    /\ ledNew' = [ledNew EXCEPT ![t] = None]
    /\ accNew' = [accNew EXCEPT ![t] = NoRows]
    /\ posts' = [posts EXCEPT ![t] = NoPosts]
    /\ ledLock' = [c \in Customers |-> IF ledLock[c] = t THEN None ELSE ledLock[c]]
    /\ accLock' = [c \in Customers |-> IF accLock[c] = t THEN None ELSE accLock[c]]

(* db.session.rollback(), or PostgreSQL's when the connection is lost. *)
Rollback(t) == EndSession(t) /\ UNCHANGED <<committed, active, dormant>>

Move(t, c, base, points, type, id) ==
    /\ accNew' = [accNew EXCEPT ![t][c] =
         [total |-> base.total + points, redeemable |-> base.redeemable + points]]
    /\ posts' = [posts EXCEPT ![t][c] =
         Append(@, [type |-> type, amount |-> points,
                    after |-> base.total + points, txn |-> id])]

-----------------------------------------------------------------------------
(* A sale: the customer's part of process_single_transaction. *)

(* The idempotency check. *)
SaleBegin(t, c, id, total, credit) ==
    /\ pc[t] = "idle"
    /\ id \notin sold
    /\ req' = [req EXCEPT ![t] = Asks("sale", c, id, credit, total, <<>>)]
    /\ pc' = [pc EXCEPT ![t] = "insert"]
    /\ UNCHANGED <<committed, active, dormant, ledNew, accNew, posts, ledLock, accLock>>

(* Threads whose session has inserted the transaction id. *)
Inserted_None(id) == {}
Inserted(id) ==
    {u \in Threads : req[u].op = "sale" /\ pc[u] # "insert" /\ req[u].id = id}

(* The first flush inserts the transaction row.  It waits while another     *)
(* session has inserted the id, and fails if that one has committed.        *)
SaleInsert(t) ==
    /\ pc[t] = "insert"
    /\ Inserted(req[t].id) = {}
    /\ \/ /\ req[t].id \in sold
          /\ Rollback(t)
       \/ /\ req[t].id \notin sold
          /\ pc' = [pc EXCEPT ![t] = IF req[t].credit THEN "ledger" ELSE "points"]
          /\ UNCHANGED <<committed, active, dormant, req, ledNew, accNew, posts,
                         ledLock, accLock>>

WithinLimit_Unchecked(l, total) == TRUE
WithinLimit(l, total) == l.balance + total <= l.limit

Charged(l, n) == [balance |-> l.balance + n, limit |-> l.limit]

(* The ledger is read without a lock and its new balance computed. *)
SaleOwe(t) ==
    LET l == ledger[req[t].c]
    IN  /\ pc[t] = "ledger"
        /\ l # None
        /\ IF WithinLimit(l, req[t].amount)
           THEN /\ ledNew' = [ledNew EXCEPT ![t] = Charged(l, req[t].amount)]
                /\ pc' = [pc EXCEPT ![t] = "owe"]
                /\ UNCHANGED <<committed, active, dormant, req, accNew, posts,
                               ledLock, accLock>>
           ELSE Rollback(t)

(* No ledger was found: one with credit limit 0 is to be inserted. *)
SaleNoLedger(t) ==
    /\ pc[t] = "ledger"
    /\ ledger[req[t].c] = None
    /\ pc' = [pc EXCEPT ![t] = "create"]
    /\ UNCHANGED <<committed, active, dormant, req, ledNew, accNew, posts,
                   ledLock, accLock>>

SaleCreateLedger(t) ==
    LET c   == req[t].c
        new == [balance |-> 0, limit |-> 0]
    IN  /\ pc[t] = "create"
        /\ Free(ledLock[c], t)
        /\ IF ledger[c] = None /\ WithinLimit(new, req[t].amount)
           THEN /\ ledNew' = [ledNew EXCEPT ![t] = Charged(new, req[t].amount)]
                /\ ledLock' = [ledLock EXCEPT ![c] = t]
                /\ pc' = [pc EXCEPT ![t] = "owe"]
                /\ UNCHANGED <<committed, active, dormant, req, accNew, posts, accLock>>
           ELSE Rollback(t)     \* uq_credit_ledger_cust_store, or over the limit

(* The query for the loyalty program flushes the ledger's UPDATE. *)
SaleFlushLedger(t) ==
    /\ pc[t] = "owe"
    /\ Free(ledLock[req[t].c], t)
    /\ ledLock' = [ledLock EXCEPT ![req[t].c] = t]
    /\ pc' = [pc EXCEPT ![t] = "points"]
    /\ UNCHANGED <<committed, active, dormant, req, ledNew, accNew, posts, accLock>>

(* The account is read without a lock and the points earned are added.  A   *)
(* customer without an account gets one.                                    *)
SaleEarn(t) ==
    LET c      == req[t].c
        points == req[t].amount * Rate
    IN  /\ pc[t] = "points"
        /\ \/ /\ ~active \/ points <= 0
              /\ pc' = [pc EXCEPT ![t] = "commit"]
              /\ UNCHANGED <<accNew, posts>>
           \/ /\ active /\ points > 0 /\ account[c] = None
              /\ pc' = [pc EXCEPT ![t] = "enroll"]
              /\ UNCHANGED <<accNew, posts>>
           \/ /\ active /\ points > 0 /\ account[c] # None
              /\ pc' = [pc EXCEPT ![t] = "commit"]
              /\ Move(t, c, account[c], points, "EARN", req[t].id)
        /\ UNCHANGED <<committed, active, dormant, req, ledNew, ledLock, accLock>>

SaleEnroll(t) ==
    LET c == req[t].c
    IN  /\ pc[t] = "enroll"
        /\ Free(accLock[c], t)
        /\ \/ /\ account[c] # None               \* customer_id is unique
              /\ Rollback(t)
           \/ /\ account[c] = None
              /\ Move(t, c, [total |-> 0, redeemable |-> 0],
                      req[t].amount * Rate, "EARN", req[t].id)
              /\ accLock' = [accLock EXCEPT ![c] = t]
              /\ pc' = [pc EXCEPT ![t] = "commit"]
              /\ UNCHANGED <<committed, active, dormant, req, ledNew, ledLock>>

-----------------------------------------------------------------------------
(* Handlers that hold the row lock from their read on. *)

Room(log) == Len(log) < MaxEntries

(* POST /credit/customers/<c>/repay.  The balance may go below zero. *)
Repay(t, c, amount) ==
    /\ pc[t] = "idle"
    /\ Room(creditLog[c])
    /\ ledger[c] # None
    /\ Free(ledLock[c], t)
    /\ req' = [req EXCEPT ![t] = Asks("repay", c, None, FALSE, amount, <<>>)]
    /\ pc' = [pc EXCEPT ![t] = "commit"]
    /\ ledNew' = [ledNew EXCEPT ![t] = Charged(ledger[c], -amount)]
    /\ ledLock' = [ledLock EXCEPT ![c] = t]
    /\ UNCHANGED <<committed, active, dormant, accNew, posts, accLock>>

(* POST /loyalty/customers/<c>/redeem.  The client may name a sale, of      *)
(* whatever customer and as often as it likes; the foreign key lets no id   *)
(* pass but a committed sale's, and the request ends with any other.        *)
Redeem(t, c, points, id) ==
    /\ pc[t] = "idle"
    /\ Room(pointsLog[c])
    /\ active /\ points >= MinRedeem
    /\ Free(accLock[c], t)
    /\ account[c] # None
    /\ account[c].redeemable >= points
    /\ id \in sold \union {None}
    /\ req' = [req EXCEPT ![t] = Asks("redeem", c, id, FALSE, points, <<>>)]
    /\ pc' = [pc EXCEPT ![t] = "commit"]
    /\ Move(t, c, account[c], -points, "REDEEM", id)
    /\ accLock' = [accLock EXCEPT ![c] = t]
    /\ UNCHANGED <<committed, active, dormant, ledNew, ledLock>>

-----------------------------------------------------------------------------
(* Handlers that read without a lock. *)

(* POST /loyalty/customers/<c>/adjust (one item) or .../adjustments/bulk. *)
AdjustBegin(t, items) ==
    /\ pc[t] = "idle"
    /\ \A i \in DOMAIN items : Room(pointsLog[items[i].c])
    /\ req' = [req EXCEPT ![t] = Asks("adjust", None, None, FALSE, 0, items)]
    /\ pc' = [pc EXCEPT ![t] = "adjust"]
    /\ UNCHANGED <<committed, active, dormant, ledNew, accNew, posts, ledLock, accLock>>

(* An account row as t's database transaction sees it after a flush. *)
SeenAccount_Committed(t, c) == account[c]
SeenAccount(t, c) == IF accNew[t][c] # None THEN accNew[t][c] ELSE account[c]

(* One item of the loop: the query flushes what the items before changed; a *)
(* customer without an account is reported and the loop goes on.            *)
AdjustItem(t) ==
    LET item == Head(req[t].todo)
        row  == SeenAccount(t, item.c)
    IN  /\ pc[t] = "adjust"
        /\ FlushAccounts(t)
        /\ IF row = None THEN UNCHANGED <<accNew, posts>>
           ELSE Move(t, item.c, row, item.points, "ADJUST", None)
        /\ req' = [req EXCEPT ![t].todo = Tail(@)]
        /\ pc' = [pc EXCEPT ![t] = IF Tail(req[t].todo) = <<>> THEN "commit" ELSE @]
        /\ UNCHANGED <<committed, active, dormant, ledNew, ledLock>>

(* The nightly task: every account inactive for longer than expiry_days. *)
Expired == {c \in Customers :
              account[c] # None /\ dormant[c] /\ account[c].redeemable > 0}

Emptied(a) == [total |-> a.total - a.redeemable, redeemable |-> 0]

Expire(t) ==
    /\ pc[t] = "idle"
    /\ active /\ Expired # {}
    /\ req' = [req EXCEPT ![t] = Asks("expire", None, None, FALSE, 0, <<>>)]
    /\ pc' = [pc EXCEPT ![t] = "commit"]
    /\ accNew' = [accNew EXCEPT ![t] = [c \in Customers |->
         IF c \in Expired THEN Emptied(account[c]) ELSE None]]
    /\ posts' = [posts EXCEPT ![t] = [c \in Customers |->
         IF c \in Expired
         THEN <<[type |-> "EXPIRE", amount |-> -account[c].redeemable,
                 after |-> Emptied(account[c]).total, txn |-> None]>>
         ELSE <<>>]]
    /\ UNCHANGED <<committed, active, dormant, ledNew, ledLock, accLock>>

-----------------------------------------------------------------------------
(* The credit_transactions row of the request. *)
CreditEntry(t) ==
    IF req[t].op = "sale"
    THEN [type |-> "CREDIT_SALE", amount |-> req[t].amount,
          after |-> ledNew[t].balance, txn |-> req[t].id]
    ELSE [type |-> "REPAYMENT", amount |-> -req[t].amount,
          after |-> ledNew[t].balance, txn |-> None]

(* db.session.commit(): what is still unflushed waits for its locks. *)
Commit(t) ==
    /\ pc[t] = "commit"
    /\ \A c \in Pending(t) : Free(accLock[c], t)
    /\ IF ledNew[t] = None THEN UNCHANGED <<ledger, creditLog>>
       ELSE /\ ledger' = [ledger EXCEPT ![req[t].c] = ledNew[t]]
            /\ creditLog' = [creditLog EXCEPT ![req[t].c] = Append(@, CreditEntry(t))]
    /\ account' = [c \in Customers |->
                     IF accNew[t][c] = None THEN account[c] ELSE accNew[t][c]]
    /\ pointsLog' = [c \in Customers |-> pointsLog[c] \o posts[t][c]]
    /\ sold' = IF req[t].op = "sale" THEN sold \union {req[t].id} ELSE sold
    /\ dormant' = [c \in Customers |->
                     dormant[c] /\ (accNew[t][c] = None \/ req[t].op = "expire")]
    /\ EndSession(t)
    /\ UNCHANGED active

(* The request dies, or is the victim PostgreSQL chooses in a deadlock. *)
Abort(t) == pc[t] # "idle" /\ Rollback(t)

-----------------------------------------------------------------------------
(* The owner enrols a customer or switches the program; time passes. *)

Enroll(c) ==
    /\ account[c] = None /\ accLock[c] = None
    /\ account' = [account EXCEPT ![c] = [total |-> 0, redeemable |-> 0]]
    /\ UNCHANGED <<ledger, creditLog, pointsLog, sold, active, dormant, sessions>>

SwitchProgram ==
    /\ active' = ~active
    /\ UNCHANGED <<committed, dormant, sessions>>

BecomeDormant(c) ==
    /\ account[c] # None
    /\ dormant' = [dormant EXCEPT ![c] = TRUE]
    /\ UNCHANGED <<committed, active, sessions>>

SaleStep(t) ==
    \/ \E c \in Customers, id \in SaleIds, total \in Totals, credit \in BOOLEAN :
          SaleBegin(t, c, id, total, credit)
    \/ SaleInsert(t)
    \/ SaleOwe(t)
    \/ SaleNoLedger(t)
    \/ SaleCreateLedger(t)
    \/ SaleFlushLedger(t)
    \/ SaleEarn(t)
    \/ SaleEnroll(t)

AccountStep(t) ==
    \/ \E c \in Customers, n \in Amounts :
          Repay(t, c, n) \/ \E id \in SaleIds \union {None} : Redeem(t, c, n, id)
    \/ \E items \in Batches : AdjustBegin(t, items)
    \/ AdjustItem(t)
    \/ Expire(t)

Next ==
    \/ \E t \in Threads : SaleStep(t) \/ AccountStep(t) \/ Commit(t) \/ Abort(t)
    \/ \E c \in Customers : Enroll(c) \/ BecomeDormant(c)
    \/ SwitchProgram

Spec == Init /\ [][Next]_vars

-----------------------------------------------------------------------------
(* Properties. *)

RowOrNone(S) == S \union {None}

(* A request in a stage is one that reaches it, with the fields it needs. *)
InStage(t) ==
    /\ pc[t] = "idle" => req[t].op = "none"
    /\ pc[t] \in SaleStages => req[t].op = "sale"
    /\ pc[t] = "adjust" => req[t].op = "adjust" /\ req[t].todo # <<>>
    /\ req[t].op \in {"sale", "repay", "redeem"} => req[t].c \in Customers
    /\ req[t].op = "sale" => req[t].id \in SaleIds
    /\ ledNew[t] # None => req[t].op \in {"sale", "repay"}

(* Every row, log, request and lock has its type. *)
TypeOK ==
    /\ ledger \in [Customers -> RowOrNone(Ledger)]
    /\ account \in [Customers -> RowOrNone(Account)]
    /\ creditLog \in [Customers -> Seq(Entry)]
    /\ pointsLog \in [Customers -> Seq(Entry)]
    /\ sold \subseteq SaleIds
    /\ active \in BOOLEAN
    /\ dormant \in [Customers -> BOOLEAN]
    /\ req \in [Threads -> Request]
    /\ pc \in [Threads -> Stages]
    /\ ledNew \in [Threads -> RowOrNone(Ledger)]
    /\ accNew \in [Threads -> [Customers -> RowOrNone(Account)]]
    /\ posts \in [Threads -> [Customers -> Seq(Entry)]]
    /\ ledLock \in [Customers -> RowOrNone(Threads)]
    /\ accLock \in [Customers -> RowOrNone(Threads)]
    /\ \A t \in Threads : InStage(t)

(* The stored balance never exceeds the credit limit, although the limit is *)
(* checked against a balance read without a lock.                           *)
CreditWithinLimit ==
    \A c \in Customers : ledger[c] # None => ledger[c].balance <= ledger[c].limit

(* total_points and redeemable_points are moved by five handlers, one of    *)
(* which computes them from each other, and never part.                     *)
PointsAgree ==
    \A c \in Customers : account[c] # None => account[c].total = account[c].redeemable

(* The newest entry of a statement shows the balance that is stored: a      *)
(* statement and a balance are never from different requests, even when one *)
(* request has overwritten another.                                         *)
LastIs(log, n) == log[Len(log)].after = n

CreditShows(c) ==
    creditLog[c] # <<>> => ledger[c] # None /\ LastIs(creditLog[c], ledger[c].balance)

PointsShow(c) ==
    pointsLog[c] # <<>> => account[c] # None /\ LastIs(pointsLog[c], account[c].total)

LastEntryIsBalance == \A c \in Customers : CreditShows(c) /\ PointsShow(c)

(* A repayment and a redemption take exactly their amount off the balance   *)
(* the entry before shows: no other handler's commit can fall between the   *)
(* read under FOR UPDATE and the commit.                                    *)
Chains(log, type) ==
    \A i \in DOMAIN log :
        i > 1 /\ log[i].type = type => log[i].after = log[i-1].after + log[i].amount

LockedEntriesChain ==
    \A c \in Customers :
        Chains(creditLog[c], "REPAYMENT") /\ Chains(pointsLog[c], "REDEEM")

(* Retries of a sale, by whatever thread and for whatever customer, charge  *)
(* and reward it once: of all statements one entry at most is the sale's    *)
(* charge and one its reward, whichever redemptions name it besides, and no *)
(* entry names a sale that is not committed.                                *)
OncePerSale(log, type, ids) ==
    \A c \in Customers : \A i \in DOMAIN log[c] :
        /\ log[c][i].txn \in ids \union {None}
        /\ log[c][i].type = type =>
             /\ log[c][i].txn \in ids
             /\ \A d \in Customers : \A j \in DOMAIN log[d] :
                  log[d][j].type = type /\ log[d][j].txn = log[c][i].txn
                     => d = c /\ j = i

EachSaleOnce ==
    OncePerSale(creditLog, "CREDIT_SALE", sold) /\ OncePerSale(pointsLog, "EARN", sold)

(* What holds of a customer's rows and statements in every state, however   *)
(* the handlers race.                                                       *)
StatementsInv ==
    TypeOK /\ CreditWithinLimit /\ PointsAgree /\ LastEntryIsBalance /\ EachSaleOnce

(* What these properties rest on: the same facts about the rows and *)
(* entries a session has computed and not committed.                        *)

LimitInv ==
    /\ CreditWithinLimit
    /\ \A t \in Threads : ledNew[t] # None => ledNew[t].balance <= ledNew[t].limit

PointsInv ==
    /\ PointsAgree
    /\ \A t \in Threads, c \in Customers :
         accNew[t][c] # None => accNew[t][c].total = accNew[t][c].redeemable

SessionShows(t) ==
    \A c \in Customers :
        /\ accNew[t][c] = None <=> posts[t][c] = <<>>
        /\ posts[t][c] # <<>> => LastIs(posts[t][c], accNew[t][c].total)

LastInv == LastEntryIsBalance /\ \A t \in Threads : SessionShows(t)

Charging(t) == req[t].op = "sale" /\ pc[t] # "insert"

ChargesOneSale(t) ==
    /\ pc[t] \in SaleStages \union {"idle"} => posts[t] = NoPosts
    /\ \A c \in Customers : \A i \in DOMAIN posts[t][c] :
         IF posts[t][c][i].type = "EARN"
         THEN /\ Charging(t) /\ posts[t][c][i].txn = req[t].id
              /\ Len(posts[t][c]) = 1 /\ c = req[t].c
         ELSE posts[t][c][i].txn \in sold \union {None}

ChargesAlone ==
    \A t \in Threads : Charging(t) =>
        /\ req[t].id \notin sold
        /\ \A u \in Threads : Charging(u) /\ req[u].id = req[t].id => u = t

OnceInv == EachSaleOnce /\ ChargesAlone /\ \A t \in Threads : ChargesOneSale(t)

AccountsInv == LimitInv /\ PointsInv /\ LastInv /\ OnceInv

(* A session that has flushed a ledger row holds its lock, and a repayment  *)
(* has held it since its read: its new balance still follows the stored one.*)
HoldsLedger(t) ==
    LET c == req[t].c
    IN  /\ req[t].op = "sale" /\ ledNew[t] # None /\ pc[t] # "owe" => ledLock[c] = t
        /\ req[t].op = "repay" =>
             /\ pc[t] = "commit" /\ ledLock[c] = t /\ ledger[c] # None
             /\ ledNew[t] = Charged(ledger[c], -req[t].amount)

(* A redemption is the one entry of its session, under the account's lock. *)
HoldsAccount(t) ==
    \A c \in Customers : \A i \in DOMAIN posts[t][c] :
        posts[t][c][i].type = "REDEEM" =>
            /\ i = 1 /\ pc[t] = "commit" /\ accLock[c] = t /\ account[c] # None
            /\ posts[t][c][i].after = account[c].total + posts[t][c][i].amount

ChainInv ==
    LockedEntriesChain /\ \A t \in Threads : HoldsLedger(t) /\ HoldsAccount(t)

(* With one request at a time the books balance: what is owed and what is   *)
(* held is the sum of the entries.                                          *)
SumOf(log) == FoldFunction(LAMBDA e, sum : e.amount + sum, 0, log)

BooksBalance ==
    \A c \in Customers :
        /\ ledger[c] # None => ledger[c].balance = SumOf(creditLog[c])
        /\ account[c] # None => account[c].total = SumOf(pointsLog[c])
=============================================================================
