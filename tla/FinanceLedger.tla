---------------------------- MODULE FinanceLedger ----------------------------
(***************************************************************************)
(* The embedded finance of one store, app/finance: the double-entry ledger *)
(* and what posts to it - loans, treasury sweeps and yield, insurance -    *)
(* with the loans the marketplace grants to finance an order.              *)
(*                                                                         *)
(* No row is read FOR UPDATE.  record_transaction selects the debited and  *)
(* then the credited account, creates the one it does not find, and writes *)
(* balances computed from what it read; SQLAlchemy sends them, and all     *)
(* other changes that are left, at the end, and writes only the columns a  *)
(* request has changed.  A disbursement's changed loan goes out before the *)
(* first select, so it holds the loan's row lock while it reads accounts.  *)
(*                                                                         *)
(* Entries are kept as what get_account_balance makes of them: sums per    *)
(* account, with the newest balance_after.  Amounts are integers (paise).  *)
(***************************************************************************)
EXTENDS Integers, Sequences, FiniteSets, FiniteSetsExt

CONSTANTS
    Threads,     \* request threads and whatever else calls the services
    MaxLoans,    \* no more loan_applications than this (a bound)
    Principals,  \* amounts a merchant may ask for or be granted
    LoanRange,   \* min_amount .. max_amount of the loan product
    Payments,    \* amounts repaid or claimed (bounds the inputs)
    Premium,     \* premium_rate of the insurance product
    Thresholds,  \* values of min_balance_threshold (bounds the inputs)
    Yield, Days, \* a day's yield is Yield / Days of the reserve
    MaxPostings, \* start no posting after this many (a bound)
    None         \* no value

LoanIds == 1..MaxLoans
Types   == {"OPERATING", "RESERVE", "REVENUE", "SAVINGS", "CURRENT"}
Assets  == {"OPERATING", "RESERVE"}

Statuses == {"PENDING", "APPROVED", "DISBURSED"}

Loan == [status : Statuses, approved : Nat, outstanding : Nat]

(* A financial_accounts row with its entries.                              *)
Row == [balance : Int, debits : Nat, credits : Nat, after : Int,
        lost    : Int]   \* history: changes of others that it has overwritten

ASSUME FinanceAssumption ==
    /\ None \notin Threads \union Loan \union Nat /\ MaxLoans \in Nat /\ MaxPostings \in Nat
    /\ Principals \subseteq Nat \ {0} /\ Payments \subseteq Nat \ {0}
    /\ LoanRange \subseteq Nat /\ Premium \in Nat \ {0} /\ Thresholds \subseteq Nat
    /\ Yield \in Nat /\ Days \in Nat \ {0}

VARIABLES
    accounts,  \* financial_accounts of each type in the order of their commits
    loans,     \* loan_applications as committed
    sweep,     \* treasury_configs: the threshold, None when inactive
    policies,  \* insurance_policies, all ACTIVE
    req,       \* the request and session of each thread
    loanLock,  \* who holds the row lock of each loan
    approvals, \* history: approvals of each loan
    disbursed, \* history: disbursements of each loan in the ledger
    posted     \* history: ledger transactions committed

vars == <<accounts, loans, sweep, policies, req, loanLock, approvals, disbursed, posted>>
committed == <<accounts, loans, policies, approvals, disbursed, posted>>

(* What a session holds of an account: nothing, a row, or (0) a new one.    *)
Seen   == [row : {0, 1}, balance : Int, known : BOOLEAN]
Unseen == [row |-> 0, balance |-> 0, known |-> FALSE]

(* What a request makes of a loan, and what it posts to the ledger.         *)
Work    == [loan : LoanIds, old : Loan, new : Loan]
NoWork  == [loan |-> None, old |-> None, new |-> None]
Entry   == [debit : Types, credit : Types, amount : Nat]
NoEntry == [debit |-> None, credit |-> None, amount |-> 0]

LoanOps == {"approve", "disburse"}
Ops     == LoanOps \union {"none", "repay", "sweep", "accrue", "enroll", "claim"}
Stages  == {"idle", "debit", "credit", "commit"}

Request == [op : Ops, pc : Stages, work : Work \union {NoWork}, entry : Entry \union {NoEntry},
            debitSeen : Seen, creditSeen : Seen]

Asks(op, pc, work, entry, ds, cs) ==
    [op |-> op, pc |-> pc, work |-> work, entry |-> entry, debitSeen |-> ds, creditSeen |-> cs]

Idle == Asks("none", "idle", NoWork, NoEntry, Unseen, Unseen)

Init ==
    /\ accounts = [ty \in Types |-> <<>>]
    /\ loans = [l \in LoanIds |-> None]
    /\ sweep = None
    /\ policies = 0
    /\ req = [t \in Threads |-> Idle]
    /\ loanLock = [l \in LoanIds |-> None]
    /\ approvals = [l \in LoanIds |-> 0] /\ disbursed = [l \in LoanIds |-> 0]
    /\ posted = 0

-----------------------------------------------------------------------------
(* Sessions. *)

EndSession(t) ==
    /\ req' = [req EXCEPT ![t] = Idle]
    /\ loanLock' = [l \in LoanIds |-> IF loanLock[l] = t THEN None ELSE loanLock[l]]

(* An exception, or the loss of the request: nothing is committed. *)
Rollback(t) == EndSession(t) /\ UNCHANGED <<committed, sweep>>

Begin(t, r) ==
    /\ req[t].pc = "idle"
    /\ req' = [req EXCEPT ![t] = r]
    /\ UNCHANGED <<committed, sweep, loanLock>>

Making(l, new) == [loan |-> l, old |-> loans[l], new |-> new]
Posting(debit, credit, amount) == [debit |-> debit, credit |-> credit, amount |-> amount]

Post(t, op, work, entry, ds, cs) ==
    posted < MaxPostings /\ Begin(t, Asks(op, "debit", work, entry, ds, cs))

-----------------------------------------------------------------------------
(* Loans. *)

State(status, approved, outstanding) ==
    [status |-> status, approved |-> approved, outstanding |-> outstanding]

Insert(row) ==
    /\ \E l \in LoanIds :
         /\ loans[l] = None /\ \A k \in 1..(l - 1) : loans[k] # None
         /\ loans' = [loans EXCEPT ![l] = row]
         /\ approvals' = [approvals EXCEPT ![l] = IF row.status = "APPROVED" THEN 1 ELSE 0]
    /\ UNCHANGED <<accounts, sweep, policies, req, loanLock, disbursed, posted>>

(* POST /finance/loans/apply. *)
Apply(n) == n \in LoanRange /\ Insert(State("PENDING", 0, 0))

(* A financed marketplace order inserts its loan approved, for the order's  *)
(* total, without the product's limits.                                     *)
FinanceOrder(n) == Insert(State("APPROVED", n, 0))

Has(l, statuses) == loans[l] # None /\ loans[l].status \in statuses

Approve(t, l, n) ==
    /\ Has(l, {"PENDING"})
    /\ Begin(t, Asks("approve", "commit",
                     Making(l, State("APPROVED", n, loans[l].outstanding)),
                     NoEntry, Unseen, Unseen))

(* POST /finance/loans/<id>/disburse. *)
Paid(loan) == State("DISBURSED", loan.approved, loan.approved)

Disburse(t, l) ==
    /\ Has(l, {"APPROVED"})
    /\ Post(t, "disburse", Making(l, Paid(loans[l])),
            Posting("OPERATING", "REVENUE", loans[l].approved), Unseen, Unseen)

(* record_repayment passes LoanRepayment a created_at it does not have: it   *)
(* raises after the posting, and whoever called it rolls everything back.   *)
Repay(t, l, n) ==
    /\ Has(l, {"DISBURSED"})
    /\ Post(t, "repay", NoWork, Posting("REVENUE", "OPERATING", n), Unseen, Unseen)

-----------------------------------------------------------------------------
(* Treasury and insurance. *)

(* round(n / d, 2) of a Decimal: half to even. *)
HalfEven(n, d) ==
    LET q == n \div d
        r == n % d
    IN  IF 2 * r > d \/ (2 * r = d /\ q % 2 = 1) THEN q + 1 ELSE q

(* PUT /finance/treasury/sweep-config. *)
SetSweep(n) ==
    /\ sweep' = n
    /\ UNCHANGED <<committed, req, loanLock>>

Only(ty) == accounts[ty][1].balance

(* What a request has read of an account stays in its session.             *)
Held(ty) == [row |-> 1, balance |-> Only(ty), known |-> TRUE]

Surplus(balance, threshold) == balance - threshold

Sweep(t) ==
    /\ sweep # None
    /\ Len(accounts["OPERATING"]) = 1
    /\ Only("OPERATING") > sweep
    /\ Post(t, "sweep", NoWork,
            Posting("RESERVE", "OPERATING", Surplus(Only("OPERATING"), sweep)),
            Unseen, Held("OPERATING"))

DayYield == HalfEven(Only("RESERVE") * Yield, Days)

Accrue(t) ==
    /\ Len(accounts["RESERVE"]) = 1
    /\ Only("RESERVE") > 0 /\ DayYield > 0
    /\ Post(t, "accrue", NoWork, Posting("RESERVE", "REVENUE", DayYield),
            Held("RESERVE"), Unseen)

Enroll(t) == Post(t, "enroll", NoWork, Posting("SAVINGS", "CURRENT", Premium), Unseen, Unseen)

Claim(t, n) ==
    /\ policies > 0
    /\ Post(t, "claim", NoWork, Posting("OPERATING", "REVENUE", n), Unseen, Unseen)

-----------------------------------------------------------------------------
(* record_transaction. *)

(* What selecting the account of a type gives the session: the row it holds *)
(* already, the row, or a new one.                                          *)
Selected_New(held, ty) == [row |-> 0, balance |-> 0, known |-> TRUE]
Selected(held, ty) ==
    IF held.known THEN held
    ELSE IF accounts[ty] = <<>> THEN [row |-> 0, balance |-> 0, known |-> TRUE]
    ELSE Held(ty)

(* scalar_one_or_none raises when there are several. *)
Ambiguous(ty) == Len(accounts[ty]) > 1

Free(lock, t) == lock \in {None, t}

(* Only the columns that a session has changed are written. *)
Written(now, old, new) ==
    State(IF new.status # old.status THEN new.status ELSE now.status,
          IF new.approved # old.approved THEN new.approved ELSE now.approved,
          IF new.outstanding # old.outstanding THEN new.outstanding ELSE now.outstanding)

WriteLoan(t) ==
    LET w == req[t].work
    IN  IF req[t].op \in LoanOps
        THEN Free(loanLock[w.loan], t) /\ loans' = [loans EXCEPT ![w.loan] = Written(@, w.old, w.new)]
        ELSE UNCHANGED loans

(* What a request does that cannot post. *)
Refused_KeepsLoan(t) ==
    /\ WriteLoan(t) /\ EndSession(t)
    /\ UNCHANGED <<accounts, sweep, policies, approvals, disbursed, posted>>
Refused(t) == Rollback(t)

(* The debited account.  The query first flushes a disbursement's loan.    *)
SelectDebit(t) ==
    LET r == req[t]
    IN  /\ r.pc = "debit"
        /\ r.op = "disburse" => Free(loanLock[r.work.loan], t)
        /\ IF Ambiguous(r.entry.debit) THEN Refused(t)
           ELSE /\ req' = [req EXCEPT ![t] =
                      Asks(r.op, "credit", r.work, r.entry,
                           Selected(r.debitSeen, r.entry.debit), r.creditSeen)]
                /\ loanLock' = IF r.op = "disburse" THEN [loanLock EXCEPT ![r.work.loan] = t]
                               ELSE loanLock
                /\ UNCHANGED <<committed, sweep>>

SelectCredit(t) ==
    LET r == req[t]
    IN  /\ r.pc = "credit"
        /\ IF Ambiguous(r.entry.credit) \/ r.op = "repay" THEN Refused(t)
           ELSE /\ req' = [req EXCEPT ![t] =
                      Asks(r.op, "commit", r.work, r.entry, r.debitSeen,
                           Selected(r.creditSeen, r.entry.credit))]
                /\ UNCHANGED <<committed, sweep, loanLock>>

(* What an entry does to the balance of an account. *)
Signed(ty, debit, amount) == IF debit <=> ty \in Assets THEN amount ELSE -amount

(* An account row after an entry whose session had seen a balance.         *)
Entered(row, ty, debit, amount, balance) ==
    [balance |-> balance + Signed(ty, debit, amount),
     debits  |-> row.debits + (IF debit THEN amount ELSE 0),
     credits |-> row.credits + (IF debit THEN 0 ELSE amount),
     after   |-> balance + Signed(ty, debit, amount),
     lost    |-> row.lost + row.balance - balance]

Opened == [balance |-> 0, debits |-> 0, credits |-> 0, after |-> 0, lost |-> 0]

With_Replaced(rows, ty, debit, amount, seen) ==
    <<Entered(IF seen.row = 0 THEN Opened ELSE rows[1], ty, debit, amount, seen.balance)>>
With(rows, ty, debit, amount, seen) ==
    IF seen.row = 0
    THEN Append(rows, Entered(Opened, ty, debit, amount, 0))
    ELSE [rows EXCEPT ![1] = Entered(@, ty, debit, amount, seen.balance)]

Tally(count, l) == [count EXCEPT ![l] = @ + 1]

WriteEntry(t) ==
    LET r == req[t]
        e == req[t].entry
    IN  IF r.op = "approve" THEN UNCHANGED <<accounts, posted>>
        ELSE /\ accounts' = [ty \in Types |->
                    IF ty = e.debit THEN With(accounts[ty], ty, TRUE, e.amount, r.debitSeen)
                    ELSE IF ty = e.credit
                    THEN With(accounts[ty], ty, FALSE, e.amount, r.creditSeen)
                    ELSE accounts[ty]]
             /\ posted' = posted + 1

(* The histories of the request's loan. *)
TallyLoan(t) ==
    LET w == req[t].work
    IN  /\ approvals' = IF req[t].op = "approve" THEN Tally(approvals, w.loan) ELSE approvals
        /\ disbursed' = IF req[t].op = "disburse" THEN Tally(disbursed, w.loan) ELSE disbursed

(* The rest of the changes are flushed, and the caller commits. *)
Commit(t) ==
    /\ req[t].pc = "commit"
    /\ WriteLoan(t)
    /\ WriteEntry(t)
    /\ TallyLoan(t)
    /\ policies' = IF req[t].op = "enroll" THEN policies + 1 ELSE policies
    /\ EndSession(t)
    /\ UNCHANGED sweep

Abort(t) == req[t].pc # "idle" /\ Rollback(t)

-----------------------------------------------------------------------------
Next ==
    \/ \E n \in Principals : Apply(n) \/ FinanceOrder(n)
    \/ \E n \in Thresholds \union {None} : SetSweep(n)
    \/ \E t \in Threads :
         \/ \E l \in LoanIds :
              \/ \E n \in Principals : Approve(t, l, n)
              \/ Disburse(t, l)
              \/ \E n \in Payments : Repay(t, l, n)
         \/ Sweep(t) \/ Accrue(t) \/ Enroll(t)
         \/ \E n \in Payments : Claim(t, n)
         \/ SelectDebit(t) \/ SelectCredit(t) \/ Commit(t) \/ Abort(t)

Spec == Init /\ [][Next]_vars

-----------------------------------------------------------------------------
(* Properties. *)

(* A request has what its stage needs, and the rows it has seen exist.      *)
InStage(t) ==
    /\ req[t].pc # "idle" /\ req[t].op # "approve" =>
         /\ req[t].entry \in Entry /\ req[t].entry.debit # req[t].entry.credit
         /\ req[t].debitSeen.row = 1 => accounts[req[t].entry.debit] # <<>>
         /\ req[t].creditSeen.row = 1 => accounts[req[t].entry.credit] # <<>>
    /\ req[t].op = "approve" => req[t].pc = "commit"
    /\ req[t].op \in LoanOps => req[t].work \in Work /\ loans[req[t].work.loan] # None

(* Rows and requests keep their types: in particular nothing is posted that *)
(* is negative, whatever balance it was computed from.                      *)
TypeOK ==
    /\ accounts \in [Types -> Seq(Row)]
    /\ loans \in [LoanIds -> Loan \union {None}]
    /\ sweep \in Nat \union {None}
    /\ policies \in Nat /\ posted \in Nat
    /\ req \in [Threads -> Request]
    /\ loanLock \in [LoanIds -> Threads \union {None}]
    /\ approvals \in [LoanIds -> Nat] /\ disbursed \in [LoanIds -> Nat]
    /\ \A t \in Threads : InStage(t)

(* get_account_balance. *)
AuditedBalance(ty, row) ==
    IF ty \in Assets THEN row.debits - row.credits ELSE row.credits - row.debits

(* What a stored balance and the entries of its account differ by is what   *)
(* requests have overwritten with balances computed before somebody else's  *)
(* commit; and the newest entry shows the stored balance even then.         *)
BalancesAccounted ==
    \A ty \in Types : \A i \in DOMAIN accounts[ty] :
        LET row == accounts[ty][i]
        IN  row.balance + row.lost = AuditedBalance(ty, row) /\ row.after = row.balance

(* Double entry: the entries of all accounts balance, whatever was rolled   *)
(* back half-way.                                                           *)
TotalOf(field(_)) ==
    MapThenSumSet(LAMBDA x : field(accounts[x[1]][x[2]]),
                  UNION {{ty} \X DOMAIN accounts[ty] : ty \in Types})

EntriesBalance == TotalOf(LAMBDA row : row.debits) = TotalOf(LAMBDA row : row.credits)

(* The status of a loan and the ledger agree: a loan that shows as paid out *)
(* has its disbursement in the ledger, and one that is still to be approved *)
(* has not.                                                                 *)
LoanFollowsMoney ==
    \A l \in LoanIds :
        /\ Has(l, {"DISBURSED"}) => disbursed[l] > 0
        /\ Has(l, {"PENDING"}) => disbursed[l] = 0

(* However disbursements of a loan race, once it is paid out it owes what   *)
(* was approved, as long as it has not been approved twice.                 *)
OwesWhatWasApproved ==
    \A l \in LoanIds :
        Has(l, {"DISBURSED"}) /\ approvals[l] = 1 => loans[l].outstanding = loans[l].approved

(* What holds of accounts and loans in every state. *)
BooksInv == TypeOK /\ BalancesAccounted /\ LoanFollowsMoney /\ OwesWhatWasApproved

(* What the last two facts about loans rest on.  Until it is approved a loan is blank; and a  *)
(* request that disburses it knows, as long as the loan is not approved a   *)
(* second time, what was approved.                                          *)
LoanHistory(l) ==
    /\ loans[l] = None => approvals[l] = 0 /\ disbursed[l] = 0
    /\ Has(l, {"PENDING"}) => approvals[l] = 0 /\ loans[l].approved = 0 /\ loans[l].outstanding = 0
    /\ Has(l, {"APPROVED", "DISBURSED"}) => approvals[l] > 0 /\ loans[l].approved > 0
    /\ Has(l, {"APPROVED"}) /\ approvals[l] = 1 => loans[l].outstanding = 0

ApproveInv(w) ==
    /\ w.old.status = "PENDING" /\ w.new.status = "APPROVED"
    /\ w.old.approved = 0 /\ w.new.approved > 0
    /\ w.new.outstanding = w.old.outstanding

DisburseInv(w) ==
    /\ w.old.status = "APPROVED" /\ w.new.status = "DISBURSED"
    /\ w.new.approved = w.old.approved
    /\ approvals[w.loan] > 0 /\ Has(w.loan, {"APPROVED", "DISBURSED"})
    /\ approvals[w.loan] = 1 =>
          w.old.outstanding = 0 /\ w.new.outstanding = loans[w.loan].approved

WorkInv(t) ==
    /\ req[t].op = "approve" => ApproveInv(req[t].work)
    /\ req[t].op = "disburse" => DisburseInv(req[t].work)

LoansInv ==
    /\ LoanFollowsMoney /\ OwesWhatWasApproved
    /\ \A l \in LoanIds : LoanHistory(l)
    /\ \A t \in Threads : WorkInv(t)

(* One request at a time, a loan is paid out once and owes what was paid    *)
(* out, there is one account of each type and its balance is that of its    *)
(* entries.                                                                 *)
BooksAgree ==
    /\ \A l \in LoanIds :
         /\ disbursed[l] <= 1
         /\ Has(l, {"DISBURSED"}) => loans[l].outstanding = loans[l].approved
    /\ \A ty \in Types : Len(accounts[ty]) <= 1
    /\ \A ty \in Types : \A i \in DOMAIN accounts[ty] : accounts[ty][i].lost = 0
=============================================================================
