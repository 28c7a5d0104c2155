------------------------- MODULE FinanceLedger_proofs -------------------------
(* What holds of the finance ledger for any number of requests, loans and   *)
(* postings.                                                                *)
EXTENDS MCFinanceLedger, Sums, SequenceTheorems

-----------------------------------------------------------------------------
(* Amounts and loans. *)

(* Rounding half to even gives a natural number. *)
LEMMA HalfEvenNat ==
  ASSUME NEW n \in Nat, NEW d \in Nat \ {0}
  PROVE  HalfEven(n, d) \in Nat
<1>1. n \div d \in Nat
  OBVIOUS
<1> QED
  BY <1>1 DEF HalfEven

(* What a request writes of a loan is a loan. *)
LEMMA WrittenLoan ==
  ASSUME NEW now \in Loan, NEW old \in Loan, NEW new \in Loan
  PROVE  Written(now, old, new) \in Loan
  BY DEF Written, State, Loan

-----------------------------------------------------------------------------
(* An account row after an entry. *)

(* An entry keeps the row's type and moves the stored and the audited       *)
(* balance by the same amount, up to what it overwrites.                    *)
LEMMA EnteredRow ==
  ASSUME NEW row \in Row, NEW ty \in Types, NEW debit \in BOOLEAN, NEW amount \in Nat,
         NEW balance \in Int
  PROVE  LET new == Entered(row, ty, debit, amount, balance)
         IN  /\ new \in Row /\ new.after = new.balance
             /\ (new.balance + new.lost) - AuditedBalance(ty, new)
                  = (row.balance + row.lost) - AuditedBalance(ty, row)
<1> DEFINE new == Entered(row, ty, debit, amount, balance)
           Moved == (new.balance + new.lost) - AuditedBalance(ty, new)
                      = (row.balance + row.lost) - AuditedBalance(ty, row)
<1>1. /\ row.balance \in Int /\ row.debits \in Nat /\ row.credits \in Nat /\ row.lost \in Int
  BY DEF Row
<1>2. Signed(ty, debit, amount) \in Int
  BY DEF Signed
<1>3. /\ new.balance = balance + Signed(ty, debit, amount)
      /\ new.debits = row.debits + (IF debit THEN amount ELSE 0)
      /\ new.credits = row.credits + (IF debit THEN 0 ELSE amount)
      /\ new.after = new.balance
      /\ new.lost = row.lost + row.balance - balance
  BY DEF Entered
<1>4. new \in Row
  BY <1>1, <1>2 DEF Entered, Row
<1> HIDE DEF new
<1>5. ASSUME debit, ty \in Assets PROVE Moved
  <2>1. /\ Signed(ty, debit, amount) = amount
        /\ new.debits = row.debits + amount /\ new.credits = row.credits
    BY <1>1, <1>3, <1>5 DEF Signed
  <2> QED
    BY <2>1, <1>1, <1>3, <1>4, <1>5 DEF AuditedBalance
<1>6. ASSUME debit, ty \notin Assets PROVE Moved
  <2>1. /\ Signed(ty, debit, amount) = -amount
        /\ new.debits = row.debits + amount /\ new.credits = row.credits
    BY <1>1, <1>3, <1>6 DEF Signed
  <2> QED
    BY <2>1, <1>1, <1>3, <1>4, <1>6 DEF AuditedBalance
<1>7. ASSUME ~debit, ty \in Assets PROVE Moved
  <2>1. /\ Signed(ty, debit, amount) = -amount
        /\ new.debits = row.debits /\ new.credits = row.credits + amount
    BY <1>1, <1>3, <1>7 DEF Signed
  <2> QED
    BY <2>1, <1>1, <1>3, <1>4, <1>7 DEF AuditedBalance
<1>8. ASSUME ~debit, ty \notin Assets PROVE Moved
  <2>1. /\ Signed(ty, debit, amount) = amount
        /\ new.debits = row.debits /\ new.credits = row.credits + amount
    BY <1>1, <1>3, <1>8 DEF Signed
  <2> QED
    BY <2>1, <1>1, <1>3, <1>4, <1>8 DEF AuditedBalance
<1> QED
  BY <1>3, <1>4, <1>5, <1>6, <1>7, <1>8 DEF new

(* The rows of one type, as BalancesAccounted wants them.                   *)
Accounted(ty, rows) ==
    /\ rows \in Seq(Row)
    /\ \A i \in DOMAIN rows :
         rows[i].balance + rows[i].lost = AuditedBalance(ty, rows[i]) /\ rows[i].after = rows[i].balance

(* Posting to a type's rows keeps them accounted for.                       *)
LEMMA WithAccounted ==
  ASSUME NEW ty \in Types, NEW rows, Accounted(ty, rows), NEW debit \in BOOLEAN,
         NEW amount \in Nat, NEW seen \in Seen, seen.row = 1 => rows # <<>>
  PROVE  /\ Accounted(ty, With(rows, ty, debit, amount, seen))
         /\ With(rows, ty, debit, amount, seen) # <<>>
<1>1. rows \in Seq(Row) /\ seen.row \in {0, 1} /\ seen.balance \in Int
  BY DEF Accounted, Seen
<1>2. CASE seen.row = 0
  <2> DEFINE new == Entered(Opened, ty, debit, amount, 0)
  <2>1. /\ Opened \in Row /\ Opened.balance + Opened.lost = AuditedBalance(ty, Opened)
        /\ AuditedBalance(ty, Opened) \in Int
    BY DEF Opened, Row, AuditedBalance
  <2>2. /\ new \in Row /\ new.after = new.balance
        /\ (new.balance + new.lost) - AuditedBalance(ty, new)
             = (Opened.balance + Opened.lost) - AuditedBalance(ty, Opened)
    BY <2>1, EnteredRow
  <2> HIDE DEF new
  <2>3. new.balance + new.lost = AuditedBalance(ty, new)
    <3>1. new.balance + new.lost \in Int /\ AuditedBalance(ty, new) \in Int
      BY <2>2 DEF Row, AuditedBalance
    <3> QED
      BY <2>1, <2>2, <3>1
  <2>4. Accounted(ty, Append(rows, new))
    <3>1. Append(rows, new) \in Seq(Row) /\ DOMAIN Append(rows, new) = 1..(Len(rows) + 1)
      BY <1>1, <2>2
    <3>2. ASSUME NEW i \in 1..(Len(rows) + 1)
          PROVE  Append(rows, new)[i] = IF i = Len(rows) + 1 THEN new ELSE rows[i]
      BY <1>1
    <3>3. \A i \in 1..(Len(rows) + 1) : i = Len(rows) + 1 \/ i \in DOMAIN rows
      BY <1>1
    <3> QED
      BY <2>2, <2>3, <3>1, <3>2, <3>3 DEF Accounted
  <2>5. Append(rows, new) # <<>>
    BY <1>1
  <2>6. With(rows, ty, debit, amount, seen) = Append(rows, new)
    BY <1>2 DEF With, new
  <2> QED
    BY <2>4, <2>5, <2>6
<1>3. CASE seen.row = 1
  <2> DEFINE new == Entered(rows[1], ty, debit, amount, seen.balance)
  <2>1. /\ rows # <<>> /\ 1 \in DOMAIN rows /\ rows[1] \in Row
        /\ rows[1].balance + rows[1].lost = AuditedBalance(ty, rows[1])
    BY <1>1, <1>3 DEF Accounted
  <2>2. /\ new \in Row /\ new.after = new.balance
        /\ (new.balance + new.lost) - AuditedBalance(ty, new)
             = (rows[1].balance + rows[1].lost) - AuditedBalance(ty, rows[1])
    BY <1>1, <2>1, EnteredRow
  <2> HIDE DEF new
  <2>3. new.balance + new.lost = AuditedBalance(ty, new)
    <3>1. new.balance + new.lost \in Int /\ AuditedBalance(ty, new) \in Int
      BY <2>2 DEF Row, AuditedBalance
    <3>2. AuditedBalance(ty, rows[1]) \in Int
      BY <2>1 DEF Row, AuditedBalance
    <3> QED
      BY <2>1, <2>2, <3>1, <3>2
  <2>4. With(rows, ty, debit, amount, seen) = [rows EXCEPT ![1] = new]
    BY <1>3, <2>1 DEF With, new
  <2>5. /\ [rows EXCEPT ![1] = new] \in Seq(Row)
        /\ DOMAIN [rows EXCEPT ![1] = new] = DOMAIN rows
    BY <1>1, <2>1, <2>2
  <2>6. \A i \in DOMAIN rows : [rows EXCEPT ![1] = new][i] = IF i = 1 THEN new ELSE rows[i]
    BY <1>1
  <2>7. [rows EXCEPT ![1] = new] # <<>>
    BY <2>1, <2>5
  <2> QED
    BY <2>2, <2>3, <2>4, <2>5, <2>6, <2>7 DEF Accounted
<1> QED
  BY <1>1, <1>2, <1>3

LEMMA AllAccounted ==
  TypeOK /\ BalancesAccounted => \A ty \in Types : Accounted(ty, accounts[ty])
  BY DEF TypeOK, BalancesAccounted, Accounted

-----------------------------------------------------------------------------
(* Types and balances. *)

(* InStage, of a request. *)
Fits(r) ==
    /\ r.pc # "idle" /\ r.op # "approve" =>
         /\ r.entry \in Entry /\ r.entry.debit # r.entry.credit
         /\ r.debitSeen.row = 1 => accounts[r.entry.debit] # <<>>
         /\ r.creditSeen.row = 1 => accounts[r.entry.credit] # <<>>
    /\ r.op = "approve" => r.pc = "commit"
    /\ r.op \in LoanOps => r.work \in Work /\ loans[r.work.loan] # None

LEMMA IdleFits == Idle \in Request /\ Fits(Idle)
  BY DEF Idle, Asks, Request, Fits, Ops, LoanOps, Stages, NoWork, NoEntry, Seen, Unseen

LEMMA InsertKeeps ==
  ASSUME TypeOK, NEW row \in Loan, Insert(row)
  PROVE  TypeOK'
<1>1. PICK l \in LoanIds :
        /\ loans[l] = None
        /\ loans' = [loans EXCEPT ![l] = row]
        /\ approvals' = [approvals EXCEPT ![l] = IF row.status = "APPROVED" THEN 1 ELSE 0]
  BY DEF Insert
<1>2. UNCHANGED <<accounts, sweep, policies, req, loanLock, disbursed, posted>>
  BY DEF Insert
<1>3. row # None
  BY FinanceAssumption
<1>4. loans' \in [LoanIds -> Loan \union {None}] /\ approvals' \in [LoanIds -> Nat]
  BY <1>1 DEF TypeOK
<1>5. \A k \in LoanIds : loans[k] # None => loans'[k] # None
  BY <1>1, <1>3 DEF TypeOK
<1>6. ASSUME NEW t \in Threads PROVE InStage(t)'
  <2>1. InStage(t)
    BY DEF TypeOK
  <2>2. req[t].op \in LoanOps => req[t].work.loan \in LoanIds
    BY <2>1 DEF InStage, Work
  <2> QED
    BY <1>2, <1>5, <2>1, <2>2 DEF InStage
<1> QED
  BY <1>2, <1>4, <1>6 DEF TypeOK

(* A step that only changes a request and the locks. *)
LEMMA RequestKeeps ==
  ASSUME TypeOK, NEW t \in Threads, NEW r \in Request, Fits(r),
         req' = [req EXCEPT ![t] = r], loanLock' \in [LoanIds -> Threads \union {None}],
         UNCHANGED <<committed, sweep>>
  PROVE  TypeOK'
<1>1. req' \in [Threads -> Request]
  BY DEF TypeOK
<1>2. ASSUME NEW u \in Threads PROVE InStage(u)'
  <2>1. CASE u = t
    <3>1. req'[u] = r
      BY <2>1 DEF TypeOK
    <3> QED
      BY <3>1 DEF Fits, InStage, committed
  <2>2. CASE u # t
    <3>1. req'[u] = req[u] /\ InStage(u)
      BY <2>2 DEF TypeOK
    <3> QED
      BY <3>1 DEF InStage, committed
  <2> QED
    BY <2>1, <2>2
<1> QED
  BY <1>1, <1>2 DEF TypeOK, committed

LEMMA EndedLocks ==
  ASSUME TypeOK, NEW t \in Threads
  PROVE  [l \in LoanIds |-> IF loanLock[l] = t THEN None ELSE loanLock[l]]
           \in [LoanIds -> Threads \union {None}]
  BY DEF TypeOK

LEMMA RollbackKeeps ==
  ASSUME TypeOK, NEW t \in Threads, Rollback(t)
  PROVE  TypeOK'
  BY RequestKeeps, IdleFits, EndedLocks DEF Rollback, EndSession

LEMMA BeginKeeps ==
  ASSUME TypeOK, NEW t \in Threads, NEW r \in Request, Fits(r), Begin(t, r)
  PROVE  TypeOK'
<1>1. loanLock' \in [LoanIds -> Threads \union {None}]
  BY DEF Begin, TypeOK
<1> QED
  BY <1>1, RequestKeeps DEF Begin

LEMMA ApproveKeeps ==
  ASSUME TypeOK, NEW t \in Threads, NEW l \in LoanIds, NEW n \in Principals, Approve(t, l, n)
  PROVE  TypeOK'
<1> DEFINE new == State("APPROVED", n, loans[l].outstanding)
           r == Asks("approve", "commit", Making(l, new), NoEntry, Unseen, Unseen)
<1>1. loans[l] \in Loan /\ loans[l] # None
  BY DEF TypeOK, Approve, Has
<1>2. new \in Loan
  BY <1>1, FinanceAssumption DEF State, Loan, Statuses
<1>3. Making(l, new) \in Work /\ Making(l, new).loan = l
  BY <1>1, <1>2 DEF Making, Work
<1> HIDE DEF new
<1>4. r \in Request
  BY <1>3 DEF Asks, Request, Ops, LoanOps, Stages, NoEntry, Seen, Unseen
<1>5. Fits(r)
  BY <1>1, <1>3 DEF Asks, Fits
<1>6. Begin(t, r)
  BY DEF Approve, new
<1> QED
  BY <1>4, <1>5, <1>6, BeginKeeps

(* A request that is about to post to the ledger.                           *)
LEMMA PostKeeps ==
  ASSUME TypeOK, NEW t \in Threads, NEW op \in Ops \ {"approve"}, NEW work \in Work \union {NoWork},
         NEW entry \in Entry, NEW ds \in Seen, NEW cs \in Seen,
         entry.debit # entry.credit,
         ds.row = 1 => accounts[entry.debit] # <<>>, cs.row = 1 => accounts[entry.credit] # <<>>,
         op \in LoanOps => work \in Work /\ loans[work.loan] # None,
         Post(t, op, work, entry, ds, cs)
  PROVE  TypeOK'
<1> DEFINE r == Asks(op, "debit", work, entry, ds, cs)
<1>1. r \in Request
  BY DEF Asks, Request, Stages
<1>2. Fits(r)
  BY DEF Asks, Fits
<1>3. Begin(t, r)
  BY DEF Post
<1> QED
  BY <1>1, <1>2, <1>3, BeginKeeps

LEMMA NothingHeld == Unseen \in Seen /\ Unseen.row # 1 /\ NoWork \in Work \union {NoWork}
  BY DEF Unseen, Seen

LEMMA DisburseKeeps ==
  ASSUME TypeOK, NEW t \in Threads, NEW l \in LoanIds, Disburse(t, l)
  PROVE  TypeOK'
<1> DEFINE e == Posting("OPERATING", "REVENUE", loans[l].approved)
           w == Making(l, Paid(loans[l]))
<1>1. loans[l] \in Loan /\ loans[l] # None
  BY DEF TypeOK, Disburse, Has
<1>2. Paid(loans[l]) \in Loan
  BY <1>1 DEF Paid, State, Loan, Statuses
<1>3. w \in Work /\ w.loan = l
  BY <1>1, <1>2 DEF Making, Work
<1>4. e \in Entry /\ e.debit # e.credit
  BY <1>1 DEF Posting, Entry, Types, Loan
<1>5. Post(t, "disburse", w, e, Unseen, Unseen)
  BY DEF Disburse
<1> HIDE DEF e, w
<1> QED
  BY <1>1, <1>3, <1>4, <1>5, PostKeeps, NothingHeld DEF Ops, LoanOps

LEMMA RepayKeeps ==
  ASSUME TypeOK, NEW t \in Threads, NEW l \in LoanIds, NEW n \in Payments, Repay(t, l, n)
  PROVE  TypeOK'
<1> DEFINE e == Posting("REVENUE", "OPERATING", n)
<1>1. e \in Entry /\ e.debit # e.credit
  BY FinanceAssumption DEF Posting, Entry, Types
<1>2. Post(t, "repay", NoWork, e, Unseen, Unseen)
  BY DEF Repay
<1> HIDE DEF e
<1> QED
  BY <1>1, <1>2, PostKeeps, NothingHeld DEF Ops, LoanOps

LEMMA HeldSeen ==
  ASSUME TypeOK, NEW ty \in Types, Len(accounts[ty]) = 1
  PROVE  Held(ty) \in Seen /\ Only(ty) \in Int /\ accounts[ty] # <<>>
<1>1. accounts[ty] \in Seq(Row)
  BY DEF TypeOK
<1>2. accounts[ty][1] \in Row
  BY <1>1
<1>3. accounts[ty] # <<>>
  BY <1>1
<1> QED
  BY <1>2, <1>3 DEF Held, Only, Seen, Row

LEMMA SweepKeeps ==
  ASSUME TypeOK, NEW t \in Threads, Sweep(t)
  PROVE  TypeOK'
<1> DEFINE e == Posting("RESERVE", "OPERATING", Surplus(Only("OPERATING"), sweep))
<1>1. /\ Held("OPERATING") \in Seen /\ Only("OPERATING") \in Int
      /\ accounts["OPERATING"] # <<>>
  BY HeldSeen DEF Sweep, Types
<1>2. sweep \in Nat /\ Only("OPERATING") > sweep
  BY DEF Sweep, TypeOK
<1>3. e \in Entry /\ e.debit # e.credit /\ e.credit = "OPERATING"
  BY <1>1, <1>2 DEF Posting, Entry, Types, Surplus
<1>4. Post(t, "sweep", NoWork, e, Unseen, Held("OPERATING"))
  BY DEF Sweep
<1> HIDE DEF e
<1> QED
  BY <1>1, <1>3, <1>4, PostKeeps, NothingHeld DEF Ops, LoanOps

LEMMA AccrueKeeps ==
  ASSUME TypeOK, NEW t \in Threads, Accrue(t)
  PROVE  TypeOK'
<1> DEFINE e == Posting("RESERVE", "REVENUE", DayYield)
<1>1. /\ Held("RESERVE") \in Seen /\ Only("RESERVE") \in Int
      /\ accounts["RESERVE"] # <<>>
  BY HeldSeen DEF Accrue, Types
<1>2. Only("RESERVE") * Yield \in Nat
  BY <1>1, FinanceAssumption DEF Accrue
<1>3. DayYield \in Nat
  BY <1>2, HalfEvenNat, FinanceAssumption DEF DayYield
<1>4. e \in Entry /\ e.debit # e.credit /\ e.debit = "RESERVE"
  BY <1>3 DEF Posting, Entry, Types
<1>5. Post(t, "accrue", NoWork, e, Held("RESERVE"), Unseen)
  BY DEF Accrue
<1> HIDE DEF e
<1> QED
  BY <1>1, <1>4, <1>5, PostKeeps, NothingHeld DEF Ops, LoanOps

LEMMA InsuranceKeeps ==
  ASSUME TypeOK, NEW t \in Threads, Enroll(t) \/ \E n \in Payments : Claim(t, n)
  PROVE  TypeOK'
<1>1. CASE Enroll(t)
  <2> DEFINE e == Posting("SAVINGS", "CURRENT", Premium)
  <2>1. e \in Entry /\ e.debit # e.credit
    BY FinanceAssumption DEF Posting, Entry, Types
  <2>2. Post(t, "enroll", NoWork, e, Unseen, Unseen)
    BY <1>1 DEF Enroll
  <2> HIDE DEF e
  <2> QED
    BY <2>1, <2>2, PostKeeps, NothingHeld DEF Ops, LoanOps
<1>2. ASSUME NEW n \in Payments, Claim(t, n) PROVE TypeOK'
  <2> DEFINE e == Posting("OPERATING", "REVENUE", n)
  <2>1. e \in Entry /\ e.debit # e.credit
    BY FinanceAssumption DEF Posting, Entry, Types
  <2>2. Post(t, "claim", NoWork, e, Unseen, Unseen)
    BY <1>2 DEF Claim
  <2> HIDE DEF e
  <2> QED
    BY <2>1, <2>2, PostKeeps, NothingHeld DEF Ops, LoanOps
<1> QED
  BY <1>1, <1>2

LEMMA SelectedSeen ==
  ASSUME TypeOK, NEW ty \in Types, NEW held \in Seen, held.row = 1 => accounts[ty] # <<>>,
         ~Ambiguous(ty)
  PROVE  Selected(held, ty) \in Seen /\ (Selected(held, ty).row = 1 => accounts[ty] # <<>>)
<1>1. CASE held.known
  BY <1>1 DEF Selected
<1>2. CASE ~held.known /\ accounts[ty] = <<>>
  BY <1>2 DEF Selected, Seen
<1>3. CASE ~held.known /\ accounts[ty] # <<>>
  <2>1. accounts[ty] \in Seq(Row)
    BY DEF TypeOK
  <2>2. Len(accounts[ty]) \in Nat /\ Len(accounts[ty]) # 0
    BY <2>1, <1>3
  <2>3. ~(Len(accounts[ty]) > 1)
    BY Zenon DEF Ambiguous
  <2>4. Len(accounts[ty]) = 1
    <3>1. \A k \in Nat : k # 0 /\ ~(k > 1) => k = 1
      OBVIOUS
    <3> QED
      BY <2>2, <2>3, <3>1
  <2> QED
    BY <2>4, <1>3, HeldSeen DEF Selected
<1> QED
  BY <1>1, <1>2, <1>3

LEMMA SelectDebitKeeps ==
  ASSUME TypeOK, NEW t \in Threads, SelectDebit(t)
  PROVE  TypeOK'
<1> DEFINE r == req[t]
           seen == Selected(r.debitSeen, r.entry.debit)
           new == Asks(r.op, "credit", r.work, r.entry, seen, r.creditSeen)
<1>1. InStage(t) /\ r \in Request /\ r.pc = "debit" /\ r.op # "approve"
  BY DEF TypeOK, InStage, SelectDebit
<1>2. r.entry \in Entry /\ r.entry.debit \in Types
  BY <1>1 DEF InStage, Entry
<1>3. CASE Ambiguous(r.entry.debit)
  BY <1>3, RollbackKeeps DEF SelectDebit, Refused
<1>4. CASE ~Ambiguous(r.entry.debit)
  <2>1. r.debitSeen \in Seen /\ (r.debitSeen.row = 1 => accounts[r.entry.debit] # <<>>)
    BY <1>1 DEF InStage, Request
  <2>2. seen \in Seen /\ (seen.row = 1 => accounts[r.entry.debit] # <<>>)
    BY <1>2, <1>4, <2>1, SelectedSeen
  <2> HIDE DEF seen
  <2>3. new \in Request
    BY <1>1, <2>2 DEF Asks, Request, Stages
  <2>4. Fits(new)
    BY <1>1, <2>2 DEF Asks, Fits, InStage
  <2>5. req' = [req EXCEPT ![t] = new] /\ UNCHANGED <<committed, sweep>>
    BY <1>4 DEF SelectDebit, seen
  <2>6. loanLock' \in [LoanIds -> Threads \union {None}]
    BY <1>4 DEF SelectDebit, TypeOK
  <2> QED
    BY <2>3, <2>4, <2>5, <2>6, RequestKeeps
<1> QED
  BY <1>3, <1>4

LEMMA SelectCreditKeeps ==
  ASSUME TypeOK, NEW t \in Threads, SelectCredit(t)
  PROVE  TypeOK'
<1> DEFINE r == req[t]
           seen == Selected(r.creditSeen, r.entry.credit)
           new == Asks(r.op, "commit", r.work, r.entry, r.debitSeen, seen)
<1>1. InStage(t) /\ r \in Request /\ r.pc = "credit" /\ r.op # "approve"
  BY DEF TypeOK, InStage, SelectCredit
<1>2. r.entry \in Entry /\ r.entry.credit \in Types
  BY <1>1 DEF InStage, Entry
<1>3. CASE Ambiguous(r.entry.credit) \/ r.op = "repay"
  BY <1>3, RollbackKeeps DEF SelectCredit, Refused
<1>4. CASE ~Ambiguous(r.entry.credit) /\ r.op # "repay"
  <2>1. r.creditSeen \in Seen /\ (r.creditSeen.row = 1 => accounts[r.entry.credit] # <<>>)
    BY <1>1 DEF InStage, Request
  <2>2. seen \in Seen /\ (seen.row = 1 => accounts[r.entry.credit] # <<>>)
    BY <1>2, <1>4, <2>1, SelectedSeen
  <2> HIDE DEF seen
  <2>3. new \in Request
    BY <1>1, <2>2 DEF Asks, Request, Stages
  <2>4. Fits(new)
    BY <1>1, <2>2 DEF Asks, Fits, InStage
  <2>5. req' = [req EXCEPT ![t] = new] /\ UNCHANGED <<committed, sweep>>
    BY <1>4 DEF SelectCredit, seen
  <2>6. loanLock' \in [LoanIds -> Threads \union {None}]
    BY <1>4 DEF SelectCredit, TypeOK
  <2> QED
    BY <2>3, <2>4, <2>5, <2>6, RequestKeeps
<1> QED
  BY <1>3, <1>4

(* What a commit makes of the accounts: accounted for, and never fewer.     *)
LEMMA CommitAccounts ==
  ASSUME TypeOK, BalancesAccounted, NEW t \in Threads, Commit(t)
  PROVE  /\ accounts' \in [Types -> Seq(Row)] /\ posted' \in Nat
         /\ \A ty \in Types : accounts[ty] # <<>> => accounts'[ty] # <<>>
         /\ BalancesAccounted'
<1> DEFINE r == req[t]
           e == req[t].entry
<1>1. \A ty \in Types : Accounted(ty, accounts[ty])
  BY AllAccounted
<1>2. InStage(t) /\ r \in Request /\ r.pc = "commit" /\ WriteEntry(t)
  BY DEF TypeOK, Commit
<1>3. CASE r.op = "approve"
  BY <1>2, <1>3 DEF WriteEntry, TypeOK, BalancesAccounted
<1>4. CASE r.op # "approve"
  <2>1. /\ e \in Entry /\ r.debitSeen \in Seen /\ r.creditSeen \in Seen
        /\ r.debitSeen.row = 1 => accounts[e.debit] # <<>>
        /\ r.creditSeen.row = 1 => accounts[e.credit] # <<>>
    BY <1>2, <1>4 DEF InStage, Request
  <2>2. e.debit \in Types /\ e.credit \in Types /\ e.amount \in Nat
    BY <2>1 DEF Entry
  <2>3. /\ accounts' = [ty \in Types |->
               IF ty = e.debit THEN With(accounts[ty], ty, TRUE, e.amount, r.debitSeen)
               ELSE IF ty = e.credit
               THEN With(accounts[ty], ty, FALSE, e.amount, r.creditSeen)
               ELSE accounts[ty]]
        /\ posted' = posted + 1
    BY <1>2, <1>4 DEF WriteEntry
  <2> HIDE DEF r, e
  <2>4. ASSUME NEW ty \in Types
        PROVE  Accounted(ty, accounts'[ty]) /\ (accounts[ty] # <<>> => accounts'[ty] # <<>>)
    <3>1. CASE ty = e.debit
      <4>1. accounts'[ty] = With(accounts[ty], ty, TRUE, e.amount, r.debitSeen)
        BY <2>3, <3>1
      <4> QED
        BY <4>1, <3>1, <1>1, <2>1, <2>2, WithAccounted
    <3>2. CASE ty # e.debit /\ ty = e.credit
      <4>1. accounts'[ty] = With(accounts[ty], ty, FALSE, e.amount, r.creditSeen)
        BY <2>3, <3>2
      <4> QED
        BY <4>1, <3>2, <1>1, <2>1, <2>2, WithAccounted
    <3>3. CASE ty # e.debit /\ ty # e.credit
      <4>1. accounts'[ty] = accounts[ty]
        BY <2>3, <3>3
      <4> QED
        BY <4>1, <1>1
    <3> QED
      BY <3>1, <3>2, <3>3
  <2>5. DOMAIN accounts' = Types /\ accounts' = [ty \in Types |-> accounts'[ty]]
    BY <2>3
  <2>6. accounts' \in [Types -> Seq(Row)]
    BY <2>4, <2>5 DEF Accounted
  <2>7. BalancesAccounted'
    BY <2>4 DEF Accounted, BalancesAccounted, AuditedBalance
  <2>8. posted' \in Nat
    BY <2>3 DEF TypeOK
  <2> QED
    BY <2>4, <2>6, <2>7, <2>8
<1> QED
  BY <1>3, <1>4

(* What it makes of the loans and their histories.                          *)
LEMMA CommitLoans ==
  ASSUME TypeOK, NEW t \in Threads, Commit(t)
  PROVE  /\ loans' \in [LoanIds -> Loan \union {None}]
         /\ \A l \in LoanIds : loans[l] # None => loans'[l] # None
         /\ approvals' \in [LoanIds -> Nat] /\ disbursed' \in [LoanIds -> Nat]
<1> DEFINE w == req[t].work
<1>1. WriteLoan(t) /\ TallyLoan(t) /\ InStage(t)
  BY DEF Commit, TypeOK
<1>2. CASE req[t].op \notin LoanOps
  BY <1>1, <1>2 DEF WriteLoan, TallyLoan, LoanOps, TypeOK
<1>3. CASE req[t].op \in LoanOps
  <2>1. /\ w.loan \in LoanIds /\ w.old \in Loan /\ w.new \in Loan /\ loans[w.loan] # None
        /\ loans[w.loan] \in Loan
    BY <1>1, <1>3 DEF InStage, Work, TypeOK
  <2>2. loans' = [loans EXCEPT ![w.loan] = Written(loans[w.loan], w.old, w.new)]
    BY <1>1, <1>3, <2>1 DEF WriteLoan, TypeOK
  <2>3. Written(loans[w.loan], w.old, w.new) \in Loan /\ None \notin Loan
    BY <2>1, WrittenLoan, FinanceAssumption
  <2>4. /\ loans' \in [LoanIds -> Loan \union {None}]
        /\ \A l \in LoanIds : loans[l] # None => loans'[l] # None
    BY <2>1, <2>2, <2>3 DEF TypeOK
  <2>5. approvals' \in [LoanIds -> Nat] /\ disbursed' \in [LoanIds -> Nat]
    BY <1>1, <2>1 DEF TallyLoan, Tally, TypeOK
  <2> QED
    BY <2>4, <2>5
<1> QED
  BY <1>2, <1>3

LEMMA CommitKeeps ==
  ASSUME TypeOK, BalancesAccounted, NEW t \in Threads, Commit(t)
  PROVE  TypeOK' /\ BalancesAccounted'
<1>1. /\ accounts' \in [Types -> Seq(Row)] /\ posted' \in Nat
      /\ \A ty \in Types : accounts[ty] # <<>> => accounts'[ty] # <<>>
      /\ BalancesAccounted'
  BY CommitAccounts
<1>2. /\ loans' \in [LoanIds -> Loan \union {None}]
      /\ \A l \in LoanIds : loans[l] # None => loans'[l] # None
      /\ approvals' \in [LoanIds -> Nat] /\ disbursed' \in [LoanIds -> Nat]
  BY CommitLoans
<1>3. /\ req' = [req EXCEPT ![t] = Idle] /\ UNCHANGED sweep /\ policies' \in Nat
      /\ loanLock' = [l \in LoanIds |-> IF loanLock[l] = t THEN None ELSE loanLock[l]]
  BY DEF Commit, EndSession, TypeOK
<1>4. loanLock' \in [LoanIds -> Threads \union {None}]
  BY <1>3, EndedLocks
<1>5. req' \in [Threads -> Request]
  BY <1>3, IdleFits DEF TypeOK
<1>6. ASSUME NEW u \in Threads PROVE InStage(u)'
  <2>1. CASE u = t
    <3>1. req'[u] = Idle
      BY <1>3, <2>1 DEF TypeOK
    <3> QED
      BY <3>1 DEF InStage, Idle, Asks, LoanOps
  <2>2. CASE u # t
    <3>1. req'[u] = req[u] /\ InStage(u) /\ req[u] \in Request
      BY <1>3, <2>2 DEF TypeOK
    <3>2. req[u].entry \in Entry => req[u].entry.debit \in Types /\ req[u].entry.credit \in Types
      BY DEF Entry
    <3>3. req[u].work \in Work => req[u].work.loan \in LoanIds
      BY DEF Work
    <3> QED
      BY <1>1, <1>2, <3>1, <3>2, <3>3 DEF InStage
  <2> QED
    BY <2>1, <2>2
<1> QED
  BY <1>1, <1>2, <1>3, <1>4, <1>5, <1>6 DEF TypeOK

-----------------------------------------------------------------------------
LedgerInv == TypeOK /\ BalancesAccounted

LEMMA LedgerInit == Init => LedgerInv
<1> SUFFICES ASSUME Init PROVE LedgerInv
  OBVIOUS
<1>1. \A ty \in Types : accounts[ty] = <<>>
  BY DEF Init
<1>2. BalancesAccounted
  BY <1>1 DEF BalancesAccounted
<1>3. accounts \in [Types -> Seq(Row)]
  <2>1. <<>> \in Seq(Row)
    OBVIOUS
  <2> QED
    BY <2>1 DEF Init
<1>4. req \in [Threads -> Request] /\ \A t \in Threads : InStage(t)
  BY IdleFits DEF Init, InStage, Idle, Asks, LoanOps
<1>5. /\ loans \in [LoanIds -> Loan \union {None}]
      /\ sweep \in Nat \union {None} /\ policies \in Nat /\ posted \in Nat
      /\ loanLock \in [LoanIds -> Threads \union {None}]
      /\ approvals \in [LoanIds -> Nat] /\ disbursed \in [LoanIds -> Nat]
  BY DEF Init
<1> QED
  BY <1>2, <1>3, <1>4, <1>5 DEF LedgerInv, TypeOK

(* Every step but a commit leaves the accounts alone.                       *)
LEMMA AccountsAlone ==
  ASSUME BalancesAccounted, UNCHANGED accounts
  PROVE  BalancesAccounted'
  BY DEF BalancesAccounted, AuditedBalance

LEMMA LedgerStep == LedgerInv /\ [Next]_vars => LedgerInv'
<1> SUFFICES ASSUME TypeOK, BalancesAccounted, [Next]_vars
             PROVE  TypeOK' /\ BalancesAccounted'
  BY DEF LedgerInv
<1>1. ASSUME NEW n \in Principals, Apply(n) \/ FinanceOrder(n)
      PROVE  TypeOK' /\ BalancesAccounted'
  <2>1. State("PENDING", 0, 0) \in Loan /\ State("APPROVED", n, 0) \in Loan
    BY FinanceAssumption DEF State, Loan, Statuses
  <2>2. PICK row \in Loan : Insert(row)
    BY <1>1, <2>1 DEF Apply, FinanceOrder
  <2>3. UNCHANGED accounts
    BY <2>2 DEF Insert
  <2> QED
    BY <2>2, <2>3, InsertKeeps, AccountsAlone
<1>2. ASSUME NEW n \in Thresholds \union {None}, SetSweep(n)
      PROVE  TypeOK' /\ BalancesAccounted'
  <2>1. UNCHANGED <<committed, req, loanLock>> /\ sweep' \in Nat \union {None}
    BY <1>2, FinanceAssumption DEF SetSweep
  <2>2. \A t \in Threads : InStage(t)'
    BY <2>1 DEF TypeOK, InStage, committed
  <2> QED
    BY <2>1, <2>2, AccountsAlone DEF TypeOK, committed
<1>3. ASSUME NEW t \in Threads, NEW l \in LoanIds,
             (\E n \in Principals : Approve(t, l, n)) \/ Disburse(t, l)
               \/ \E n \in Payments : Repay(t, l, n)
      PROVE  TypeOK' /\ BalancesAccounted'
  <2>1. TypeOK'
    BY <1>3, ApproveKeeps, DisburseKeeps, RepayKeeps
  <2>2. UNCHANGED accounts
    BY <1>3 DEF Approve, Disburse, Repay, Post, Begin, committed
  <2> QED
    BY <2>1, <2>2, AccountsAlone
<1>4. ASSUME NEW t \in Threads,
             Sweep(t) \/ Accrue(t) \/ Enroll(t) \/ (\E n \in Payments : Claim(t, n))
      PROVE  TypeOK' /\ BalancesAccounted'
  <2>1. TypeOK'
    BY <1>4, SweepKeeps, AccrueKeeps, InsuranceKeeps
  <2>2. UNCHANGED accounts
    BY <1>4 DEF Sweep, Accrue, Enroll, Claim, Post, Begin, committed
  <2> QED
    BY <2>1, <2>2, AccountsAlone
<1>5. ASSUME NEW t \in Threads, SelectDebit(t) \/ SelectCredit(t) \/ Abort(t)
      PROVE  TypeOK' /\ BalancesAccounted'
  <2>1. TypeOK'
    BY <1>5, SelectDebitKeeps, SelectCreditKeeps, RollbackKeeps DEF Abort
  <2>2. UNCHANGED accounts
    BY <1>5 DEF SelectDebit, SelectCredit, Refused, Abort, Rollback, committed
  <2> QED
    BY <2>1, <2>2, AccountsAlone
<1>6. ASSUME NEW t \in Threads, Commit(t)
      PROVE  TypeOK' /\ BalancesAccounted'
  BY <1>6, CommitKeeps
<1>7. CASE UNCHANGED vars
  <2>1. \A t \in Threads : InStage(t)'
    BY <1>7 DEF TypeOK, InStage, vars
  <2> QED
    BY <1>7, <2>1, AccountsAlone DEF TypeOK, vars
<1> QED
  BY <1>1, <1>2, <1>3, <1>4, <1>5, <1>6, <1>7 DEF Next

(* Rows and requests keep their types, for any number of threads and loans; *)
(* nothing negative is posted (record_transaction, finance/ledger.py:53),   *)
(* whatever balance a sweep computed it from.                               *)
THEOREM TypeInvariant == Spec => []TypeOK
<1>1. LedgerInv => TypeOK
  BY DEF LedgerInv
<1> QED
  BY <1>1, LedgerInit, LedgerStep, PTL DEF Spec

(* A stored balance and the sum of its entries differ by exactly what       *)
(* requests overwrote with balances read before somebody else's commit, and *)
(* the newest entry's balance_after is the stored balance                   *)
(* (record_transaction, finance/ledger.py).                                 *)
THEOREM BalancesInvariant == Spec => []BalancesAccounted
<1>1. LedgerInv => BalancesAccounted
  BY DEF LedgerInv
<1> QED
  BY <1>1, LedgerInit, LedgerStep, PTL DEF Spec

-----------------------------------------------------------------------------
(* Loans. *)

(* LoansInv, of one loan. *)
LoanOK(l) ==
    /\ Has(l, {"DISBURSED"}) => disbursed[l] > 0
    /\ Has(l, {"PENDING"}) => disbursed[l] = 0
    /\ Has(l, {"DISBURSED"}) /\ approvals[l] = 1 => loans[l].outstanding = loans[l].approved
    /\ LoanHistory(l)

LEMMA LoansInvParts ==
  LoansInv <=> (\A l \in LoanIds : LoanOK(l)) /\ \A t \in Threads : WorkInv(t)
  BY DEF LoansInv, LoanFollowsMoney, OwesWhatWasApproved, LoanOK

(* What a loan may go through while a request that disburses it is under    *)
(* way.                                                                     *)
Onward(l) ==
    /\ approvals'[l] >= approvals[l]
    /\ Has(l, {"APPROVED", "DISBURSED"}) => Has(l, {"APPROVED", "DISBURSED"})'
    /\ approvals'[l] = 1 /\ approvals[l] = 1 => loans'[l].approved = loans[l].approved

LEMMA StillOnward ==
  ASSUME TypeOK, NEW l \in LoanIds, loans'[l] = loans[l], approvals'[l] = approvals[l],
         disbursed'[l] = disbursed[l]
  PROVE  Onward(l) /\ (LoanOK(l) => LoanOK(l)')
<1>1. approvals[l] \in Nat
  BY DEF TypeOK
<1>2. Onward(l)
  BY <1>1 DEF Onward, Has
<1>3. LoanOK(l) => LoanOK(l)'
  BY DEF LoanOK, LoanHistory, Has
<1> QED
  BY <1>2, <1>3

LEMMA WorkStays ==
  ASSUME TypeOK, TypeOK', NEW u \in Threads, WorkInv(u),
         req'[u].op = req[u].op, req'[u].work = req[u].work,
         req[u].op = "disburse" => Onward(req[u].work.loan)
  PROVE  WorkInv(u)'
<1> PICK w : w = req[u].work
  OBVIOUS
<1>1. CASE req[u].op # "disburse"
  BY <1>1 DEF WorkInv, ApproveInv
<1>2. CASE req[u].op = "disburse"
  <2>1. w.loan \in LoanIds
    BY <1>2 DEF TypeOK, InStage, LoanOps, Work
  <2>2. approvals[w.loan] \in Nat /\ approvals'[w.loan] \in Nat
    BY <2>1 DEF TypeOK
  <2>3. Onward(w.loan) /\ DisburseInv(w)
    BY <1>2 DEF WorkInv
  <2>4. DisburseInv(w)'
    BY <2>2, <2>3 DEF DisburseInv, Onward
  <2> QED
    BY <1>2, <2>4 DEF WorkInv
<1> QED
  BY <1>1, <1>2

LEMMA LoansInvKept ==
  ASSUME TypeOK, TypeOK', LoansInv,
         \A l \in LoanIds : LoanOK(l)' /\ (loans[l] # None => Onward(l)),
         \A u \in Threads :
            WorkInv(u)' \/ (req'[u].op = req[u].op /\ req'[u].work = req[u].work)
  PROVE  LoansInv'
<1>1. \A u \in Threads : WorkInv(u)
  BY LoansInvParts
<1>2. ASSUME NEW u \in Threads PROVE WorkInv(u)'
  <2>1. req[u].op = "disburse" => Onward(req[u].work.loan)
    BY DEF TypeOK, InStage, LoanOps, Work
  <2> QED
    BY <1>1, <2>1, WorkStays
<1>3. LoansInv' <=> (\A l \in LoanIds : LoanOK(l)') /\ \A t \in Threads : WorkInv(t)'
  BY DEF LoansInv, LoanFollowsMoney, OwesWhatWasApproved, LoanOK
<1> QED
  BY <1>2, <1>3

(* A step that leaves the loans and their histories alone. *)
LEMMA LoansAlone ==
  ASSUME TypeOK, TypeOK', LoansInv, UNCHANGED <<loans, approvals, disbursed>>,
         \A u \in Threads :
            WorkInv(u)' \/ (req'[u].op = req[u].op /\ req'[u].work = req[u].work)
  PROVE  LoansInv'
<1>1. \A l \in LoanIds : LoanOK(l)
  BY LoansInvParts
<1>2. \A l \in LoanIds : LoanOK(l)' /\ Onward(l)
  BY <1>1, StillOnward
<1> QED
  BY <1>2, LoansInvKept

LEMMA InsertLoans ==
  ASSUME TypeOK, TypeOK', LoansInv, NEW n \in Principals, Apply(n) \/ FinanceOrder(n)
  PROVE  LoansInv'
<1>1. n \in Nat /\ n > 0
  BY FinanceAssumption
<1>2. PICK row \in {State("PENDING", 0, 0), State("APPROVED", n, 0)} : Insert(row)
  BY DEF Apply, FinanceOrder
<1>3. /\ row.status = "PENDING" => row.approved = 0
      /\ row.status = "APPROVED" => row.approved > 0
      /\ row.status \in {"PENDING", "APPROVED"} /\ row.outstanding = 0
  BY <1>1, <1>2 DEF State
<1>4. PICK k \in LoanIds :
        /\ loans[k] = None
        /\ loans' = [loans EXCEPT ![k] = row]
        /\ approvals' = [approvals EXCEPT ![k] = IF row.status = "APPROVED" THEN 1 ELSE 0]
  BY <1>2 DEF Insert
<1>5. UNCHANGED <<req, disbursed>>
  BY <1>2 DEF Insert
<1>6. \A l \in LoanIds : LoanOK(l)
  BY LoansInvParts
<1>7. ASSUME NEW l \in LoanIds PROVE LoanOK(l)' /\ (loans[l] # None => Onward(l))
  <2>1. CASE l = k
    <3>1. loans'[l] = row /\ approvals'[l] = IF row.status = "APPROVED" THEN 1 ELSE 0
      BY <1>4, <2>1 DEF TypeOK
    <3>2. disbursed'[l] = 0
      BY <1>4, <1>5, <1>6, <2>1 DEF LoanOK, LoanHistory
    <3>3. CASE row.status = "PENDING"
      <4>1. /\ ~Has(l, {"DISBURSED"})' /\ ~Has(l, {"APPROVED"})' /\ ~Has(l, {"APPROVED", "DISBURSED"})'
            /\ approvals'[l] = 0 /\ loans'[l].approved = 0 /\ loans'[l].outstanding = 0
        BY <1>3, <3>1, <3>3 DEF Has
      <4> QED
        BY <1>4, <2>1, <3>2, <4>1 DEF LoanOK, LoanHistory
    <3>4. CASE row.status = "APPROVED"
      <4>1. /\ ~Has(l, {"DISBURSED"})' /\ ~Has(l, {"PENDING"})' /\ loans'[l] # None
            /\ approvals'[l] = 1 /\ loans'[l].approved > 0 /\ loans'[l].outstanding = 0
        <5>1. row # None
          BY <1>1, FinanceAssumption DEF State, Loan, Statuses
        <5> QED
          BY <1>3, <3>1, <3>4, <5>1 DEF Has
      <4> QED
        BY <1>4, <2>1, <3>2, <4>1 DEF LoanOK, LoanHistory
    <3> QED
      BY <1>3, <3>3, <3>4
  <2>2. CASE l # k
    <3>1. loans'[l] = loans[l] /\ approvals'[l] = approvals[l]
      BY <1>4, <2>2 DEF TypeOK
    <3> QED
      BY <1>5, <1>6, <3>1, StillOnward
  <2> QED
    BY <2>1, <2>2
<1> QED
  BY <1>5, <1>7, LoansInvKept

(* A request that takes up work. *)
LEMMA BeginLoans ==
  ASSUME TypeOK, TypeOK', LoansInv, NEW t \in Threads, NEW r, Begin(t, r),
         r.op = "approve" => ApproveInv(r.work),
         r.op = "disburse" => DisburseInv(r.work)
  PROVE  LoansInv'
<1>1. UNCHANGED <<loans, approvals, disbursed>> /\ req' = [req EXCEPT ![t] = r]
  BY DEF Begin, committed
<1>2. req'[t] = r
  BY <1>1 DEF TypeOK
<1>3. WorkInv(t)'
  <2>1. /\ DisburseInv(r.work) => DisburseInv(r.work)'
        /\ ApproveInv(r.work) => ApproveInv(r.work)'
    BY <1>1 DEF DisburseInv, ApproveInv, Has
  <2> QED
    BY <1>2, <2>1 DEF WorkInv
<1>4. \A u \in Threads : u # t => req'[u] = req[u]
  BY <1>1 DEF TypeOK
<1> QED
  BY <1>1, <1>3, <1>4, LoansAlone

LEMMA StartLoans ==
  ASSUME TypeOK, TypeOK', LoansInv, NEW t \in Threads, NEW l \in LoanIds,
         (\E n \in Principals : Approve(t, l, n)) \/ Disburse(t, l)
  PROVE  LoansInv'
<1>1. LoanOK(l) /\ approvals[l] \in Nat /\ disbursed[l] \in Nat
  BY LoansInvParts DEF TypeOK
<1>2. ASSUME NEW n \in Principals, Approve(t, l, n) PROVE LoansInv'
  <2> DEFINE new == State("APPROVED", n, loans[l].outstanding)
             r == Asks("approve", "commit", Making(l, new), NoEntry, Unseen, Unseen)
  <2>1. n \in Nat /\ n > 0
    BY FinanceAssumption
  <2>2. ApproveInv(Making(l, new))
    BY <1>1, <1>2, <2>1 DEF ApproveInv, Making, State, Approve, Has, LoanOK, LoanHistory
  <2>3. r.op = "approve" /\ r.work = Making(l, new)
    BY DEF Asks
  <2>4. Begin(t, r)
    BY <1>2 DEF Approve
  <2> HIDE DEF r
  <2> QED
    BY <2>2, <2>3, <2>4, BeginLoans
<1>3. ASSUME Disburse(t, l) PROVE LoansInv'
  <2> DEFINE w == Making(l, Paid(loans[l]))
             r == Asks("disburse", "debit", w,
                       Posting("OPERATING", "REVENUE", loans[l].approved), Unseen, Unseen)
  <2>1. DisburseInv(w)
    BY <1>1, <1>3 DEF DisburseInv, Making, Paid, State, Disburse, Has, LoanOK, LoanHistory
  <2>2. r.op = "disburse" /\ r.work = w
    BY DEF Asks
  <2>3. Begin(t, r)
    BY <1>3 DEF Disburse, Post
  <2> HIDE DEF r
  <2> QED
    BY <2>1, <2>2, <2>3, BeginLoans
<1> QED
  BY <1>2, <1>3

LEMMA OtherWorkLoans ==
  ASSUME TypeOK, TypeOK', LoansInv, NEW t \in Threads,
         \/ Sweep(t) \/ Accrue(t) \/ Enroll(t)
         \/ \E n \in Payments : Claim(t, n) \/ \E l \in LoanIds : Repay(t, l, n)
  PROVE  LoansInv'
<1>1. PICK op \in {"repay", "sweep", "accrue", "enroll", "claim"} :
        \E entry, ds, cs : Begin(t, Asks(op, "debit", NoWork, entry, ds, cs))
  BY DEF Sweep, Accrue, Enroll, Claim, Repay, Post
<1>2. PICK r : Begin(t, r) /\ r.op = op
  BY <1>1 DEF Asks
<1> QED
  BY <1>1, <1>2, BeginLoans

LEMMA RollbackLoans ==
  ASSUME TypeOK, TypeOK', LoansInv, NEW t \in Threads, Rollback(t)
  PROVE  LoansInv'
<1>1. UNCHANGED <<loans, approvals, disbursed>> /\ req' = [req EXCEPT ![t] = Idle]
  BY DEF Rollback, EndSession, committed
<1>2. WorkInv(t)'
  <2>1. req'[t].op = "none"
    BY <1>1 DEF Idle, Asks, TypeOK
  <2> QED
    BY <2>1 DEF WorkInv
<1>3. \A u \in Threads : u # t => req'[u] = req[u]
  BY <1>1 DEF TypeOK
<1> QED
  BY <1>1, <1>2, <1>3, LoansAlone

LEMMA SelectLoans ==
  ASSUME TypeOK, TypeOK', LoansInv, NEW t \in Threads, SelectDebit(t) \/ SelectCredit(t)
  PROVE  LoansInv'
<1>1. CASE Rollback(t)
  BY <1>1, RollbackLoans
<1>2. CASE ~Rollback(t)
  <2>1. PICK pc, ds, cs :
          /\ req' = [req EXCEPT ![t] = Asks(req[t].op, pc, req[t].work, req[t].entry, ds, cs)]
          /\ UNCHANGED committed
    BY <1>2 DEF SelectDebit, SelectCredit, Refused
  <2>2. \A u \in Threads : req'[u].op = req[u].op /\ req'[u].work = req[u].work
    BY <2>1 DEF Asks, TypeOK
  <2> QED
    BY <2>1, <2>2, LoansAlone DEF committed
<1> QED
  BY <1>1, <1>2

-----------------------------------------------------------------------------
(* Commits of loans. *)

(* What a commit does to the loan of its request. *)
LEMMA CommittedLoan ==
  ASSUME TypeOK, TypeOK', LoansInv, NEW t \in Threads, Commit(t), req[t].op \in LoanOps,
         NEW w, w = req[t].work
  PROVE  /\ w.loan \in LoanIds /\ w.old \in Loan /\ w.new \in Loan
         /\ loans[w.loan] \in Loan /\ loans[w.loan] # None
         /\ loans'[w.loan] \in Loan /\ loans'[w.loan] # None
         /\ loans'[w.loan] = Written(loans[w.loan], w.old, w.new)
         /\ \A l \in LoanIds \ {w.loan} :
              /\ loans'[l] = loans[l] /\ approvals'[l] = approvals[l]
              /\ disbursed'[l] = disbursed[l]
         /\ LoanOK(w.loan) /\ WorkInv(t)
<1>1. WriteLoan(t) /\ TallyLoan(t) /\ InStage(t)
  BY DEF Commit, TypeOK
<1>2. /\ w.loan \in LoanIds /\ w.old \in Loan /\ w.new \in Loan /\ loans[w.loan] # None
      /\ loans[w.loan] \in Loan
  BY <1>1 DEF InStage, Work, TypeOK
<1>3. loans' = [loans EXCEPT ![w.loan] = Written(loans[w.loan], w.old, w.new)]
  BY <1>1, <1>2 DEF WriteLoan, TypeOK
<1>4. loans'[w.loan] = Written(loans[w.loan], w.old, w.new)
  BY <1>2, <1>3 DEF TypeOK
<1>5. loans'[w.loan] \in Loan /\ loans'[w.loan] # None
  BY <1>2, <1>4, WrittenLoan, FinanceAssumption
<1>6. \A l \in LoanIds \ {w.loan} : loans'[l] = loans[l]
  BY <1>2, <1>3 DEF TypeOK
<1>7. \A l \in LoanIds \ {w.loan} :
        /\ approvals'[l] = approvals[l] /\ disbursed'[l] = disbursed[l]
  BY <1>1, <1>2 DEF TallyLoan, Tally, TypeOK
<1>8. LoanOK(w.loan) /\ WorkInv(t)
  BY <1>2, LoansInvParts
<1> QED
  BY <1>2, <1>4, <1>5, <1>6, <1>7, <1>8

(* It is enough to look at that loan. *)
LEMMA CommitEnough ==
  ASSUME TypeOK, TypeOK', LoansInv, NEW t \in Threads, Commit(t), req[t].op \in LoanOps,
         NEW k \in LoanIds, k = req[t].work.loan, LoanOK(k)', Onward(k)
  PROVE  LoansInv'
<1>1. ASSUME NEW l \in LoanIds PROVE LoanOK(l)' /\ Onward(l)
  <2>1. CASE l = k
    BY <2>1
  <2>2. CASE l # k
    BY <2>2, CommittedLoan, StillOnward, LoansInvParts
  <2> QED
    BY <2>1, <2>2
<1>2. req' = [req EXCEPT ![t] = Idle]
  BY DEF Commit, EndSession
<1>3. WorkInv(t)'
  <2>1. req'[t].op = "none"
    BY <1>2 DEF Idle, Asks, TypeOK
  <2> QED
    BY <2>1 DEF WorkInv
<1>4. \A u \in Threads : u # t => req'[u] = req[u]
  BY <1>2 DEF TypeOK
<1> QED
  BY <1>1, <1>3, <1>4, LoansInvKept

LEMMA CommitApprove ==
  ASSUME TypeOK, TypeOK', LoansInv, NEW t \in Threads, Commit(t), req[t].op = "approve"
  PROVE  LoansInv'
<1> PICK w : w = req[t].work
  OBVIOUS
<1> PICK l : l = w.loan
  OBVIOUS
<1>1. /\ l \in LoanIds /\ w.old \in Loan /\ w.new \in Loan
      /\ loans[l] \in Loan /\ loans[l] # None /\ loans'[l] \in Loan /\ loans'[l] # None
      /\ loans'[l] = Written(loans[l], w.old, w.new)
      /\ LoanOK(l) /\ WorkInv(t)
  BY CommittedLoan DEF LoanOps
<1>2. ApproveInv(w)
  BY <1>1 DEF WorkInv
<1>3. /\ approvals[l] \in Nat /\ disbursed[l] \in Nat
      /\ approvals'[l] = approvals[l] + 1 /\ disbursed'[l] = disbursed[l]
  BY <1>1 DEF Commit, TallyLoan, Tally, TypeOK
<1>4. /\ loans'[l].status = "APPROVED" /\ loans'[l].approved = w.new.approved
      /\ w.new.approved > 0 /\ loans'[l].outstanding = loans[l].outstanding
  <2>1. w.new.approved # w.old.approved
    BY <1>1, <1>2 DEF ApproveInv, Loan
  <2> QED
    BY <1>1, <1>2, <2>1 DEF ApproveInv, Written, State
<1>5. /\ Has(l, {"APPROVED"})' /\ Has(l, {"APPROVED", "DISBURSED"})'
      /\ ~Has(l, {"DISBURSED"})' /\ ~Has(l, {"PENDING"})'
  BY <1>1, <1>4 DEF Has
<1>6. approvals'[l] = 1 => loans'[l].outstanding = 0
  <2>1. SUFFICES ASSUME approvals'[l] = 1 PROVE loans[l].outstanding = 0
    BY <1>4
  <2>2. approvals[l] = 0
    BY <1>3, <2>1
  <2>3. ~Has(l, {"APPROVED", "DISBURSED"})
    BY <1>1, <2>2 DEF LoanOK, LoanHistory
  <2>4. Has(l, {"PENDING"})
    BY <1>1, <2>3 DEF Has, Loan, Statuses
  <2> QED
    BY <1>1, <2>4 DEF LoanOK, LoanHistory
<1>7. approvals'[l] > 0
  BY <1>3
<1>8. LoanOK(l)'
  BY <1>1, <1>4, <1>5, <1>6, <1>7 DEF LoanOK, LoanHistory
<1>9. Onward(l)
  <2>1. approvals'[l] >= approvals[l]
    BY <1>3
  <2>2. ~(approvals'[l] = 1 /\ approvals[l] = 1)
    BY <1>3
  <2> QED
    BY <1>5, <2>1, <2>2 DEF Onward
<1> QED
  BY <1>1, <1>8, <1>9, CommitEnough DEF LoanOps

LEMMA CommitDisburse ==
  ASSUME TypeOK, TypeOK', LoansInv, NEW t \in Threads, Commit(t), req[t].op = "disburse"
  PROVE  LoansInv'
<1> PICK w : w = req[t].work
  OBVIOUS
<1> PICK l : l = w.loan
  OBVIOUS
<1>1. /\ l \in LoanIds /\ w.old \in Loan /\ w.new \in Loan
      /\ loans[l] \in Loan /\ loans[l] # None /\ loans'[l] \in Loan /\ loans'[l] # None
      /\ loans'[l] = Written(loans[l], w.old, w.new)
      /\ LoanOK(l) /\ WorkInv(t)
  BY CommittedLoan DEF LoanOps
<1>2. DisburseInv(w)
  BY <1>1 DEF WorkInv
<1>3. /\ approvals[l] \in Nat /\ disbursed[l] \in Nat
      /\ approvals'[l] = approvals[l] /\ disbursed'[l] = disbursed[l] + 1
  BY <1>1 DEF Commit, TallyLoan, Tally, TypeOK
<1>4. loans'[l].status = "DISBURSED" /\ loans'[l].approved = loans[l].approved
  BY <1>1, <1>2 DEF DisburseInv, Written, State
<1>5. /\ Has(l, {"DISBURSED"})' /\ Has(l, {"APPROVED", "DISBURSED"})'
      /\ ~Has(l, {"APPROVED"})' /\ ~Has(l, {"PENDING"})'
  BY <1>1, <1>4 DEF Has
<1>6. approvals[l] > 0 /\ loans[l].approved > 0 /\ loans[l].approved \in Nat
  BY <1>1, <1>2 DEF DisburseInv, LoanOK, LoanHistory, Loan
<1>7. approvals'[l] = 1 => loans'[l].outstanding = loans[l].approved
  <2>1. SUFFICES ASSUME approvals[l] = 1 PROVE loans'[l].outstanding = loans[l].approved
    BY <1>3
  <2>2. w.old.outstanding = 0 /\ w.new.outstanding = loans[l].approved
    BY <1>2, <2>1 DEF DisburseInv
  <2>3. w.old.outstanding # w.new.outstanding
    BY <1>6, <2>2
  <2> QED
    BY <1>1, <2>2, <2>3 DEF Written, State
<1>8. approvals'[l] = 1 => loans'[l].outstanding = loans'[l].approved
  BY <1>3, <1>4, <1>6, <1>7
<1>9. LoanOK(l)'
  <2>1. disbursed'[l] > 0 /\ approvals'[l] > 0 /\ loans'[l].approved > 0
    BY <1>3, <1>4, <1>6
  <2> QED
    BY <1>1, <1>5, <1>8, <2>1 DEF LoanOK, LoanHistory
<1>10. Onward(l)
  <2>1. approvals'[l] >= approvals[l]
    BY <1>3
  <2> QED
    BY <1>4, <1>5, <2>1 DEF Onward
<1> QED
  BY <1>1, <1>9, <1>10, CommitEnough DEF LoanOps

LEMMA CommitOther ==
  ASSUME TypeOK, TypeOK', LoansInv, NEW t \in Threads, Commit(t), req[t].op \notin LoanOps
  PROVE  LoansInv'
<1>1. UNCHANGED <<loans, approvals, disbursed>> /\ req' = [req EXCEPT ![t] = Idle]
  BY DEF Commit, WriteLoan, TallyLoan, EndSession, LoanOps
<1>2. WorkInv(t)'
  <2>1. req'[t].op = "none"
    BY <1>1 DEF Idle, Asks, TypeOK
  <2> QED
    BY <2>1 DEF WorkInv
<1>3. \A u \in Threads : u # t => req'[u] = req[u]
  BY <1>1 DEF TypeOK
<1> QED
  BY <1>1, <1>2, <1>3, LoansAlone

-----------------------------------------------------------------------------
LEMMA LoansInit == Init => LoansInv
<1> SUFFICES ASSUME Init PROVE LoansInv
  OBVIOUS
<1>1. \A l \in LoanIds : loans[l] = None /\ approvals[l] = 0 /\ disbursed[l] = 0
  BY DEF Init
<1>2. \A t \in Threads : req[t].op = "none"
  BY DEF Init, Idle, Asks
<1> QED
  BY <1>1, <1>2 DEF LoansInv, LoanFollowsMoney, OwesWhatWasApproved, LoanHistory, WorkInv, Has

LEMMA LoansStep == LedgerInv /\ LedgerInv' /\ LoansInv /\ [Next]_vars => LoansInv'
<1> SUFFICES ASSUME TypeOK, TypeOK', LoansInv, [Next]_vars PROVE LoansInv'
  BY DEF LedgerInv
<1>1. ASSUME NEW n \in Principals, Apply(n) \/ FinanceOrder(n) PROVE LoansInv'
  BY <1>1, InsertLoans
<1>2. ASSUME NEW n \in Thresholds \union {None}, SetSweep(n) PROVE LoansInv'
  BY <1>2, LoansAlone DEF SetSweep, committed
<1>3. ASSUME NEW t \in Threads, NEW l \in LoanIds,
             (\E n \in Principals : Approve(t, l, n)) \/ Disburse(t, l)
      PROVE  LoansInv'
  BY <1>3, StartLoans
<1>4. ASSUME NEW t \in Threads,
             \/ Sweep(t) \/ Accrue(t) \/ Enroll(t)
             \/ \E n \in Payments : Claim(t, n) \/ \E l \in LoanIds : Repay(t, l, n)
      PROVE  LoansInv'
  BY <1>4, OtherWorkLoans
<1>5. ASSUME NEW t \in Threads, SelectDebit(t) \/ SelectCredit(t) PROVE LoansInv'
  BY <1>5, SelectLoans
<1>6. ASSUME NEW t \in Threads, Abort(t) PROVE LoansInv'
  BY <1>6, RollbackLoans DEF Abort
<1>7. ASSUME NEW t \in Threads, Commit(t) PROVE LoansInv'
  BY <1>7, CommitApprove, CommitDisburse, CommitOther DEF LoanOps
<1>8. CASE UNCHANGED vars
  BY <1>8, LoansAlone DEF vars
<1> QED
  BY <1>1, <1>2, <1>3, <1>4, <1>5, <1>6, <1>7, <1>8 DEF Next

LEMMA LoansSafe == Spec => []LoansInv
  BY LedgerInit, LedgerStep, LoansInit, LoansStep, PTL DEF Spec

(* The status of a loan never runs ahead of the ledger or behind it: a loan *)
(* that shows as paid out has its disbursement posted, and one still to be  *)
(* approved has not (disburse_loan, finance/loan_engine.py).                *)
THEOREM MoneyFollowed == Spec => []LoanFollowsMoney
<1>1. LoansInv => LoanFollowsMoney
  BY DEF LoansInv
<1> QED
  BY <1>1, LoansSafe, PTL

(* However disbursements of a loan race, once paid out it owes what was     *)
(* approved, unless it was approved twice (approve_loan and disburse_loan,  *)
(* finance/loan_engine.py).                                                 *)
THEOREM DebtKept == Spec => []OwesWhatWasApproved
<1>1. LoansInv => OwesWhatWasApproved
  BY DEF LoansInv
<1> QED
  BY <1>1, LoansSafe, PTL

-----------------------------------------------------------------------------
(* Double entry.  The rows of all accounts, and what is debited and         *)
(* credited in each.                                                        *)
RowsOf(acc)  == UNION {{ty} \X DOMAIN acc[ty] : ty \in Types}
Debits(acc)  == [x \in RowsOf(acc) |-> acc[x[1]][x[2]].debits]
Credits(acc) == [x \in RowsOf(acc) |-> acc[x[1]][x[2]].credits]

LEMMA IsRow ==
  ASSUME NEW acc, NEW x
  PROVE  x \in RowsOf(acc) <=> \E ty \in Types : \E i \in DOMAIN acc[ty] : x = <<ty, i>>
  BY DEF RowsOf

(* There are finitely many, with natural numbers in them. *)
LEMMA RowsFinite ==
  ASSUME NEW acc \in [Types -> Seq(Row)]
  PROVE  /\ IsFiniteSet(RowsOf(acc))
         /\ \A x \in RowsOf(acc) : Debits(acc)[x] \in Nat /\ Credits(acc)[x] \in Nat
<1> DEFINE R(ty) == {ty} \X DOMAIN acc[ty]
<1>1. ASSUME NEW ty \in Types PROVE IsFiniteSet(R(ty))
  <2>1. DOMAIN acc[ty] = 1..Len(acc[ty]) /\ Len(acc[ty]) \in Nat
    OBVIOUS
  <2>2. IsFiniteSet(DOMAIN acc[ty])
    BY <2>1, FS_Interval
  <2>3. IsFiniteSet({ty})
    BY FS_Singleton
  <2> QED
    BY <2>2, <2>3, FS_Product
<1>2. RowsOf(acc) = R("OPERATING") \union (R("RESERVE") \union (R("REVENUE")
                      \union (R("SAVINGS") \union R("CURRENT"))))
  BY DEF RowsOf, Types
<1>3. IsFiniteSet(RowsOf(acc))
  <2>1. /\ IsFiniteSet(R("OPERATING")) /\ IsFiniteSet(R("RESERVE")) /\ IsFiniteSet(R("REVENUE"))
        /\ IsFiniteSet(R("SAVINGS")) /\ IsFiniteSet(R("CURRENT"))
    BY <1>1 DEF Types
  <2> HIDE DEF R
  <2> QED
    BY <1>2, <2>1, FS_Union
<1>4. ASSUME NEW x \in RowsOf(acc) PROVE acc[x[1]][x[2]] \in Row
  <2>1. PICK ty \in Types : \E i \in DOMAIN acc[ty] : x = <<ty, i>>
    BY IsRow
  <2>2. acc[ty] \in Seq(Row)
    OBVIOUS
  <2>3. \A i \in DOMAIN acc[ty] : acc[ty][i] \in Row
    BY <2>2
  <2> QED
    BY <2>1, <2>3
<1> QED
  BY <1>3, <1>4 DEF Debits, Credits, Row

(* The two sums that double entry compares. *)
LEMMA DebitTotal ==
  ASSUME NEW acc, IsFiniteSet(RowsOf(acc))
  PROVE  MapThenSumSet(LAMBDA x : acc[x[1]][x[2]].debits, RowsOf(acc)) = Total(Debits(acc), RowsOf(acc))
<1> DEFINE S == RowsOf(acc)
           g == Debits(acc)
           one(h) == h = [s \in SUBSET S |-> IF s = {} THEN 0
                            ELSE acc[Pick(s)[1]][Pick(s)[2]].debits + h[s \ {Pick(s)}]]
           k == CHOOSE h : one(h)
           m == CHOOSE h : Adds(h, g, S)
<1>0. IsFiniteSet(S)
  OBVIOUS
<1>1. MapThenSumSet(LAMBDA x : acc[x[1]][x[2]].debits, S) = k[S]
  BY DEF MapThenSumSet, MapThenFoldSet, Pick
<1>2. Total(g, S) = m[S]
  BY TotalIs
<1>3. \A s \in SUBSET S : s # {} => g[Pick(s)] = acc[Pick(s)[1]][Pick(s)[2]].debits
  BY PickIn DEF Debits
<1>4. \A h : one(h) <=> Adds(h, g, S)
  <2> HIDE DEF g, S
  <2> QED
    BY <1>3 DEF Adds
<1>5. Adds(m, g, S)
  BY <1>0, Exists
<1>6. Adds(k, g, S)
  <2> HIDE DEF one
  <2> QED
    BY <1>4, <1>5
<1>7. k = m
  <2> HIDE DEF k, m, g, S
  <2> QED
    BY <1>0, <1>5, <1>6, Unique
<1> QED
  BY <1>1, <1>2, <1>7

LEMMA CreditTotal ==
  ASSUME NEW acc, IsFiniteSet(RowsOf(acc))
  PROVE  MapThenSumSet(LAMBDA x : acc[x[1]][x[2]].credits, RowsOf(acc)) = Total(Credits(acc), RowsOf(acc))
<1> DEFINE S == RowsOf(acc)
           g == Credits(acc)
           one(h) == h = [s \in SUBSET S |-> IF s = {} THEN 0
                            ELSE acc[Pick(s)[1]][Pick(s)[2]].credits + h[s \ {Pick(s)}]]
           k == CHOOSE h : one(h)
           m == CHOOSE h : Adds(h, g, S)
<1>0. IsFiniteSet(S)
  OBVIOUS
<1>1. MapThenSumSet(LAMBDA x : acc[x[1]][x[2]].credits, S) = k[S]
  BY DEF MapThenSumSet, MapThenFoldSet, Pick
<1>2. Total(g, S) = m[S]
  BY TotalIs
<1>3. \A s \in SUBSET S : s # {} => g[Pick(s)] = acc[Pick(s)[1]][Pick(s)[2]].credits
  BY PickIn DEF Credits
<1>4. \A h : one(h) <=> Adds(h, g, S)
  <2> HIDE DEF g, S
  <2> QED
    BY <1>3 DEF Adds
<1>5. Adds(m, g, S)
  BY <1>0, Exists
<1>6. Adds(k, g, S)
  <2> HIDE DEF one
  <2> QED
    BY <1>4, <1>5
<1>7. k = m
  <2> HIDE DEF k, m, g, S
  <2> QED
    BY <1>0, <1>5, <1>6, Unique
<1> QED
  BY <1>1, <1>2, <1>7

(* Debits and credits of all rows are equal. *)
Balanced(acc) == Total(Debits(acc), RowsOf(acc)) = Total(Credits(acc), RowsOf(acc))

(* One row of each of two accounts is put in or changed, the value of the   *)
(* second not at all.                                                       *)
PutTwo(g, S, k, T, e, f) ==
    /\ IsFiniteSet(S) /\ e # f /\ T = (S \union {e}) \union {f}
    /\ \A x \in S : g[x] \in Int
    /\ \A x \in S : x # e => k[x] = g[x]
    /\ k[e] \in Int
    /\ f \notin S => k[f] = 0

LEMMA TotalPutTwo ==
  ASSUME NEW g, NEW S, NEW k, NEW T, NEW e, NEW f, PutTwo(g, S, k, T, e, f)
  PROVE  Total(k, T) = Total(g, S) + (k[e] - Was(g, S, e))
<1> DEFINE U == S \union {e}
<1>1. Total(k, U) = Total(g, S) + (k[e] - Was(g, S, e))
  <2>1. PutAt(g, S, k, U, e)
    BY DEF PutTwo, PutAt
  <2> HIDE DEF U
  <2> QED
    BY <2>1, TotalPut
<1>2. IsFiniteSet(U) /\ \A x \in U : k[x] \in Int
  BY FS_AddElement DEF PutTwo
<1>3. CASE f \in U
  <2>1. T = U
    BY <1>3 DEF PutTwo
  <2> QED
    BY <1>1, <2>1
<1>4. CASE f \notin U
  <2>1. k[f] = 0 /\ Was(k, U, f) = 0
    BY <1>4 DEF PutTwo, Was
  <2>2. Total(k, U) \in Int
    BY <1>2, TotalInt
  <2>3. PutAt(k, U, k, T, f)
    BY <1>2, <2>1 DEF PutTwo, PutAt
  <2> HIDE DEF U
  <2>4. Total(k, T) = Total(k, U) + (k[f] - Was(k, U, f))
    BY <2>3, TotalPut
  <2>5. Total(k, T) = Total(k, U)
    BY <2>1, <2>2, <2>4
  <2> QED
    BY <1>1, <2>5
<1> QED
  BY <1>3, <1>4

(* One row is put in or changed, by what is debited and credited. *)
PutIn(rows, new, i, dr, cr) ==
    /\ DOMAIN new = DOMAIN rows \union {i}
    /\ \A j \in DOMAIN rows \ {i} : new[j] = rows[j]
    /\ new[i].debits = (IF i \in DOMAIN rows THEN rows[i].debits ELSE 0) + dr
    /\ new[i].credits = (IF i \in DOMAIN rows THEN rows[i].credits ELSE 0) + cr

(* That is what an entry does to its account. *)
LEMMA WithOne ==
  ASSUME NEW rows \in Seq(Row), NEW ty \in Types, NEW debit \in BOOLEAN, NEW amount \in Nat,
         NEW seen \in Seen, seen.row = 1 => rows # <<>>
  PROVE  \E i \in Nat \ {0} : PutIn(rows, With(rows, ty, debit, amount, seen), i,
                                   IF debit THEN amount ELSE 0, IF debit THEN 0 ELSE amount)
<1> DEFINE new == With(rows, ty, debit, amount, seen)
<1>1. CASE seen.row = 0
  <2> DEFINE i == Len(rows) + 1
             e == Entered(Opened, ty, debit, amount, 0)
  <2>1. new = Append(rows, e)
    BY <1>1 DEF With
  <2>2. /\ e.debits = Opened.debits + (IF debit THEN amount ELSE 0)
        /\ e.credits = Opened.credits + (IF debit THEN 0 ELSE amount)
    BY DEF Entered
  <2> HIDE DEF e, new
  <2>3. /\ i \in Nat \ {0} /\ i \notin DOMAIN rows /\ DOMAIN new = DOMAIN rows \union {i}
        /\ new[i] = e /\ \A j \in DOMAIN rows \ {i} : new[j] = rows[j]
    BY <2>1
  <2> HIDE DEF i
  <2> QED
    BY <2>2, <2>3 DEF new, PutIn, Opened
<1>2. CASE seen.row = 1
  <2> DEFINE e == Entered(rows[1], ty, debit, amount, seen.balance)
  <2>1. 1 \in DOMAIN rows
    BY <1>2
  <2>2. new = [rows EXCEPT ![1] = e]
    BY <1>2, <2>1 DEF With
  <2>3. /\ e.debits = rows[1].debits + (IF debit THEN amount ELSE 0)
        /\ e.credits = rows[1].credits + (IF debit THEN 0 ELSE amount)
    BY DEF Entered
  <2> HIDE DEF e, new
  <2>4. /\ DOMAIN new = DOMAIN rows \union {1}
        /\ new[1] = e /\ \A j \in DOMAIN rows \ {1} : new[j] = rows[j]
    BY <2>1, <2>2
  <2> QED
    BY <2>1, <2>3, <2>4 DEF new, PutIn
<1> QED
  BY <1>1, <1>2 DEF Seen

(* A posting of an amount from account b to account a. *)
Posts(acc, new, a, b, amount, ds, cs) ==
    /\ acc \in [Types -> Seq(Row)] /\ new \in [Types -> Seq(Row)]
    /\ a \in Types /\ b \in Types /\ a # b /\ amount \in Nat
    /\ ds \in Seen /\ (ds.row = 1 => acc[a] # <<>>)
    /\ cs \in Seen /\ (cs.row = 1 => acc[b] # <<>>)
    /\ new[a] = With(acc[a], a, TRUE, amount, ds)
    /\ new[b] = With(acc[b], b, FALSE, amount, cs)
    /\ \A ty \in Types \ {a, b} : new[ty] = acc[ty]

(* It moves both sums by the amount. *)
LEMMA PostingBalanced ==
  ASSUME NEW acc, NEW new, NEW a, NEW b, NEW amount, NEW ds, NEW cs,
         Posts(acc, new, a, b, amount, ds, cs), Balanced(acc)
  PROVE  Balanced(new)
<1> USE DEF Posts
<1>1. PICK i \in Nat \ {0} : PutIn(acc[a], new[a], i, amount, 0)
  <2>1. acc[a] \in Seq(Row)
    OBVIOUS
  <2>2. \E i \in Nat \ {0} : PutIn(acc[a], With(acc[a], a, TRUE, amount, ds), i,
                                 IF TRUE THEN amount ELSE 0, IF TRUE THEN 0 ELSE amount)
    BY <2>1, WithOne
  <2> QED
    BY <2>2
<1>2. PICK j \in Nat \ {0} : PutIn(acc[b], new[b], j, 0, amount)
  <2>1. acc[b] \in Seq(Row)
    OBVIOUS
  <2>2. \E k \in Nat \ {0} : PutIn(acc[b], With(acc[b], b, FALSE, amount, cs), k,
                                 IF FALSE THEN amount ELSE 0, IF FALSE THEN 0 ELSE amount)
    BY <2>1, WithOne
  <2> QED
    BY <2>2
<1> DEFINE S == RowsOf(acc)
           e == <<a, i>>
           f == <<b, j>>
           T == (S \union {e}) \union {f}
<1>3. /\ \A x : x \in S <=> \E ty \in Types : \E n \in DOMAIN acc[ty] : x = <<ty, n>>
      /\ \A x : x \in RowsOf(new) <=> \E ty \in Types : \E n \in DOMAIN new[ty] : x = <<ty, n>>
  BY IsRow
<1>4. RowsOf(new) = T
  <2>1. ASSUME NEW x \in RowsOf(new) PROVE x \in T
    <3>1. PICK ty \in Types : \E n \in DOMAIN new[ty] : x = <<ty, n>>
      BY <1>3, <2>1
    <3>2. PICK n \in DOMAIN new[ty] : x = <<ty, n>>
      BY <3>1
    <3>3. CASE ty = a
      BY <1>1, <1>3, <3>2, <3>3 DEF PutIn
    <3>4. CASE ty = b
      BY <1>2, <1>3, <3>2, <3>4 DEF PutIn
    <3>5. CASE ty \notin {a, b}
      BY <1>3, <3>2, <3>5
    <3> QED
      BY <3>3, <3>4, <3>5
  <2>2. ASSUME NEW x \in S PROVE x \in RowsOf(new)
    <3>1. PICK ty \in Types : \E n \in DOMAIN acc[ty] : x = <<ty, n>>
      BY <1>3, <2>2
    <3>2. PICK n \in DOMAIN acc[ty] : x = <<ty, n>>
      BY <3>1
    <3>3. n \in DOMAIN new[ty]
      BY <1>1, <1>2, <3>2 DEF PutIn
    <3> QED
      BY <1>3, <3>2, <3>3
  <2>3. e \in RowsOf(new) /\ f \in RowsOf(new)
    BY <1>1, <1>2, <1>3 DEF PutIn
  <2> HIDE DEF S, e, f
  <2> QED
    BY <2>1, <2>2, <2>3
<1>5. /\ IsFiniteSet(S) /\ e # f
      /\ \A x \in S : Debits(acc)[x] \in Int /\ Credits(acc)[x] \in Int
  BY RowsFinite
<1>6. /\ e \in S <=> i \in DOMAIN acc[a]
      /\ f \in S <=> j \in DOMAIN acc[b]
  BY <1>3
<1>7. /\ \A x \in RowsOf(acc) : /\ Debits(acc)[x] = acc[x[1]][x[2]].debits
                                /\ Credits(acc)[x] = acc[x[1]][x[2]].credits
      /\ \A x \in RowsOf(new) : /\ Debits(new)[x] = new[x[1]][x[2]].debits
                                /\ Credits(new)[x] = new[x[1]][x[2]].credits
  BY DEF Debits, Credits
<1>8. ASSUME NEW x \in S PROVE /\ x \in RowsOf(new)
                               /\ x \notin {e, f} => new[x[1]][x[2]] = acc[x[1]][x[2]]
  <2>1. PICK ty \in Types : \E n \in DOMAIN acc[ty] : x = <<ty, n>>
    BY <1>3, <1>8
  <2>2. PICK n \in DOMAIN acc[ty] : x = <<ty, n>>
    BY <2>1
  <2>3. CASE ty = a
    BY <1>1, <1>4, <1>8, <2>2, <2>3 DEF PutIn
  <2>4. CASE ty = b
    BY <1>2, <1>4, <1>8, <2>2, <2>4 DEF PutIn
  <2>5. CASE ty \notin {a, b}
    BY <1>4, <1>8, <2>2, <2>5
  <2> QED
    BY <2>3, <2>4, <2>5
<1>9. /\ Debits(new)[e] = (IF e \in S THEN Debits(acc)[e] ELSE 0) + amount
      /\ Debits(new)[f] = (IF f \in S THEN Debits(acc)[f] ELSE 0) + 0
      /\ Credits(new)[e] = (IF e \in S THEN Credits(acc)[e] ELSE 0) + 0
      /\ Credits(new)[f] = (IF f \in S THEN Credits(acc)[f] ELSE 0) + amount
  <2>1. e[1] = a /\ e[2] = i /\ f[1] = b /\ f[2] = j /\ e \in RowsOf(new) /\ f \in RowsOf(new)
    BY <1>4
  <2> HIDE DEF e, f, T
  <2> QED
    BY <1>1, <1>2, <1>6, <1>7, <2>1 DEF PutIn
<1>10. Total(Debits(new), RowsOf(new)) = Total(Debits(acc), S) + amount
  <2>1. ASSUME NEW x \in S \ {e} PROVE Debits(new)[x] = Debits(acc)[x]
    <3>1. CASE x = f
      <4>1. Debits(acc)[f] \in Int /\ f \in S
        BY <1>5, <3>1
      <4>2. Debits(new)[f] = Debits(acc)[f] + 0
        BY <1>9, <4>1
      <4> HIDE DEF e, f, S, T
      <4> QED
        BY <3>1, <4>1, <4>2
    <3>2. CASE x # f
      <4>1. x \in RowsOf(new) /\ new[x[1]][x[2]] = acc[x[1]][x[2]]
        BY <1>8, <2>1, <3>2
      <4> QED
        BY ONLY <1>7, x \in RowsOf(acc), <4>1
    <3> QED
      BY <3>1, <3>2
  <2>2. f \notin S => Debits(new)[f] = 0
    BY <1>9
  <2>3. RowsOf(new) = (S \union {e}) \union {f}
    BY <1>4
  <2> DEFINE g == Debits(acc)
             k == Debits(new)
  <2>4. PutTwo(g, S, k, RowsOf(new), e, f) /\ k[e] - Was(g, S, e) = amount
    BY <1>5, <1>9, <2>1, <2>2, <2>3 DEF Was, PutTwo
  <2> HIDE DEF S, e, f, g, k
  <2>5. Total(k, RowsOf(new)) = Total(g, S) + (k[e] - Was(g, S, e))
    BY <2>4, TotalPutTwo
  <2> QED
    BY <2>4, <2>5 DEF g, k
<1>11. Total(Credits(new), RowsOf(new)) = Total(Credits(acc), S) + amount
  <2>1. ASSUME NEW x \in S \ {f} PROVE Credits(new)[x] = Credits(acc)[x]
    <3>1. CASE x = e
      <4>1. Credits(acc)[e] \in Int /\ e \in S
        BY <1>5, <3>1
      <4>2. Credits(new)[e] = Credits(acc)[e] + 0
        BY <1>9, <4>1
      <4> HIDE DEF e, f, S, T
      <4> QED
        BY <3>1, <4>1, <4>2
    <3>2. CASE x # e
      <4>1. x \in RowsOf(new) /\ new[x[1]][x[2]] = acc[x[1]][x[2]]
        BY <1>8, <2>1, <3>2
      <4> QED
        BY ONLY <1>7, x \in RowsOf(acc), <4>1
    <3> QED
      BY <3>1, <3>2
  <2>2. e \notin S => Credits(new)[e] = 0
    BY <1>9
  <2>3. RowsOf(new) = (S \union {f}) \union {e}
    BY <1>4
  <2> DEFINE g == Credits(acc)
             k == Credits(new)
  <2>4. PutTwo(g, S, k, RowsOf(new), f, e) /\ k[f] - Was(g, S, f) = amount
    BY <1>5, <1>9, <2>1, <2>2, <2>3 DEF Was, PutTwo
  <2> HIDE DEF S, e, f, g, k
  <2>5. Total(k, RowsOf(new)) = Total(g, S) + (k[f] - Was(g, S, f))
    BY <2>4, TotalPutTwo
  <2> QED
    BY <2>4, <2>5 DEF g, k
<1> QED
  BY <1>10, <1>11 DEF Balanced

LEMMA EntriesAre ==
  ASSUME NEW acc \in [Types -> Seq(Row)]
  PROVE  Balanced(acc) <=>
           MapThenSumSet(LAMBDA x : acc[x[1]][x[2]].debits,
                         UNION {{ty} \X DOMAIN acc[ty] : ty \in Types})
             = MapThenSumSet(LAMBDA x : acc[x[1]][x[2]].credits,
                             UNION {{ty} \X DOMAIN acc[ty] : ty \in Types})
<1>1. /\ MapThenSumSet(LAMBDA x : acc[x[1]][x[2]].debits, RowsOf(acc)) = Total(Debits(acc), RowsOf(acc))
      /\ MapThenSumSet(LAMBDA x : acc[x[1]][x[2]].credits, RowsOf(acc)) = Total(Credits(acc), RowsOf(acc))
  BY RowsFinite, DebitTotal, CreditTotal
<1>2. RowsOf(acc) = UNION {{ty} \X DOMAIN acc[ty] : ty \in Types}
  BY DEF RowsOf
<1> QED
  BY <1>1, <1>2 DEF Balanced

LEMMA BalancedInit == Init => Balanced(accounts)
<1> SUFFICES ASSUME Init PROVE Balanced(accounts)
  OBVIOUS
<1>1. \A x : x \notin RowsOf(accounts)
  <2>1. \A ty \in Types : accounts[ty] = <<>>
    BY DEF Init
  <2>2. \A ty \in Types : DOMAIN accounts[ty] = {}
    BY <2>1
  <2> QED
    BY <2>2, IsRow
<1>2. RowsOf(accounts) = {}
  BY <1>1
<1> QED
  BY <1>2, TotalStep, FS_EmptySet DEF Balanced

LEMMA BalancedStep == LedgerInv /\ LedgerInv' /\ Balanced(accounts) /\ [Next]_vars => Balanced(accounts)'
<1> SUFFICES ASSUME TypeOK, TypeOK', Balanced(accounts), [Next]_vars PROVE Balanced(accounts')
  BY DEF LedgerInv
<1>1. CASE UNCHANGED accounts
  BY <1>1
<1>2. ASSUME NEW t \in Threads, Commit(t), req[t].op # "approve" PROVE Balanced(accounts')
  <2> PICK e : e = req[t].entry
    OBVIOUS
  <2>1. /\ e \in Entry /\ req[t].debitSeen \in Seen /\ req[t].creditSeen \in Seen
        /\ e.debit # e.credit
        /\ req[t].debitSeen.row = 1 => accounts[e.debit] # <<>>
        /\ req[t].creditSeen.row = 1 => accounts[e.credit] # <<>>
    BY <1>2 DEF Commit, TypeOK, InStage, Request
  <2>2. /\ e.debit \in Types /\ e.credit \in Types /\ e.amount \in Nat
    BY <2>1 DEF Entry
  <2>3. accounts' = [ty \in Types |->
             IF ty = e.debit THEN With(accounts[ty], ty, TRUE, e.amount, req[t].debitSeen)
             ELSE IF ty = e.credit
             THEN With(accounts[ty], ty, FALSE, e.amount, req[t].creditSeen)
             ELSE accounts[ty]]
    BY <1>2 DEF Commit, WriteEntry
  <2>4. /\ accounts'[e.debit] = With(accounts[e.debit], e.debit, TRUE, e.amount, req[t].debitSeen)
        /\ accounts'[e.credit] = With(accounts[e.credit], e.credit, FALSE, e.amount, req[t].creditSeen)
        /\ \A ty \in Types \ {e.debit, e.credit} : accounts'[ty] = accounts[ty]
    BY <2>1, <2>2, <2>3
  <2>5. accounts \in [Types -> Seq(Row)] /\ accounts' \in [Types -> Seq(Row)]
    BY DEF TypeOK
  <2> QED
    <3>1. Posts(accounts, accounts', e.debit, e.credit, e.amount, req[t].debitSeen, req[t].creditSeen)
      BY <2>1, <2>2, <2>4, <2>5 DEF Posts
    <3> QED
      BY <3>1, PostingBalanced
<1>3. ASSUME NEW t \in Threads, Commit(t), req[t].op = "approve" PROVE UNCHANGED accounts
  BY <1>3 DEF Commit, WriteEntry
<1>4. \/ UNCHANGED accounts
      \/ \E t \in Threads : Commit(t)
  BY DEF Next, Apply, FinanceOrder, Insert, SetSweep, Approve, Disburse, Repay, Sweep, Accrue,
         Enroll, Claim, Post, Begin, SelectDebit, SelectCredit, Refused, Abort, Rollback, committed, vars
<1> QED
  BY <1>1, <1>2, <1>3, <1>4

(* Double entry: whatever was rolled back half-way and however postings     *)
(* race, all debits and all credits have the same sum (record_transaction,  *)
(* finance/ledger.py).                                                      *)
THEOREM DoubleEntry == Spec => []EntriesBalance
<1>1. LedgerInv /\ Balanced(accounts) => EntriesBalance
  <2>1. LedgerInv => accounts \in [Types -> Seq(Row)]
    BY DEF LedgerInv, TypeOK
  <2> QED
    BY <2>1, EntriesAre DEF EntriesBalance, TotalOf
<1> QED
  BY <1>1, LedgerInit, LedgerStep, BalancedInit, BalancedStep, PTL DEF Spec

(* All of it together: however postings, approvals and disbursements race,  *)
(* balances, loans and the money that was posted stay accounted for.        *)
THEOREM BooksKept == Spec => []BooksInv
<1>1. TypeOK /\ BalancesAccounted /\ LoanFollowsMoney /\ OwesWhatWasApproved => BooksInv
  BY DEF BooksInv
<1> QED
  BY <1>1, TypeInvariant, BalancesInvariant, MoneyFollowed, DebtKept, PTL

-----------------------------------------------------------------------------
(* Requests that do not overlap. *)

(* A session's view of an account is what is committed.                     *)
Fresh(seen, ty) ==
    /\ seen.known /\ seen.row = 0 => accounts[ty] = <<>>
    /\ seen.known /\ seen.row = 1 => accounts[ty] # <<>> /\ seen.balance = accounts[ty][1].balance

(* What a request knows that nothing else overlaps.                         *)
FreshRequest(t) ==
    /\ req[t].pc # "idle" /\ req[t].op # "approve" =>
         /\ Fresh(req[t].debitSeen, req[t].entry.debit)
         /\ Fresh(req[t].creditSeen, req[t].entry.credit)
         /\ req[t].pc \in {"credit", "commit"} => req[t].debitSeen.known
         /\ req[t].pc = "commit" => req[t].creditSeen.known
    /\ req[t].pc # "idle" /\ req[t].op \in LoanOps => req[t].work.old = loans[req[t].work.loan]
    /\ req[t].op = "disburse" => req[t].work.new = Paid(req[t].work.old)

(* The loans of requests that do not overlap.                               *)
OrderlyLoan(l) ==
    /\ disbursed[l] <= 1
    /\ Has(l, {"PENDING", "APPROVED"}) => disbursed[l] = 0 /\ loans[l].outstanding = 0
    /\ Has(l, {"DISBURSED"}) => loans[l].outstanding = loans[l].approved

(* Their accounts. *)
OrderlyAccount(rows) == Len(rows) <= 1 /\ \A i \in DOMAIN rows : rows[i].lost = 0

Orderly ==
    /\ \A t \in Threads : FreshRequest(t)
    /\ \A l \in LoanIds : OrderlyLoan(l)
    /\ \A ty \in Types : OrderlyAccount(accounts[ty])

AtMostOne(S) == IsFiniteSet(S) /\ \A t, u \in S : t = u

SerialInv == ~overlapped => AtMostOne(Busy) /\ Orderly

LEMMA OneIsAll ==
  ASSUME NEW S, IsFiniteSet(S), Cardinality(S) <= 1
  PROVE  AtMostOne(S)
<1> SUFFICES ASSUME NEW t \in S, NEW u \in S, t # u PROVE FALSE
  BY DEF AtMostOne
<1>1. IsFiniteSet({t}) /\ Cardinality({t}) = 1
  BY FS_Singleton
<1>2. IsFiniteSet({t} \union {u}) /\ Cardinality({t} \union {u}) = 2
  <2>1. u \notin {t}
    OBVIOUS
  <2> QED
    BY <1>1, <2>1, FS_AddElement
<1>3. {t} \union {u} \subseteq S
  OBVIOUS
<1>4. Cardinality({t} \union {u}) <= Cardinality(S) /\ Cardinality(S) \in Nat
  BY <1>3, FS_Subset, FS_CardinalityType
<1> QED
  BY <1>2, <1>4

(* A step is one thread's at most. *)
LEMMA OneActs ==
  ASSUME TypeOK, [Next]_vars
  PROVE  \E t : \A u \in Threads : u # t => req'[u] = req[u]
<1>1. ASSUME NEW t \in Threads, NEW r, req' = [req EXCEPT ![t] = r]
      PROVE  \A u \in Threads : u # t => req'[u] = req[u]
  BY <1>1 DEF TypeOK
<1>2. \/ UNCHANGED req
      \/ \E t \in Threads : \E r : req' = [req EXCEPT ![t] = r]
  BY DEF Next, Apply, FinanceOrder, Insert, SetSweep, Approve, Disburse, Repay, Sweep, Accrue,
         Enroll, Claim, Post, Begin, SelectDebit, SelectCredit, Refused, Abort, Rollback, Commit,
         EndSession, vars
<1> QED
  BY <1>1, <1>2

LEMMA BusyOne ==
  ASSUME TypeOK, [Next]_vars, AtMostOne(Busy), Cardinality(Busy') <= 1
  PROVE  AtMostOne(Busy')
<1>1. PICK t : \A u \in Threads : u # t => req'[u] = req[u]
  BY OneActs
<1>2. Busy' \subseteq Busy \union {t}
  BY <1>1 DEF Busy
<1>3. IsFiniteSet(Busy \union {t})
  BY FS_AddElement DEF AtMostOne
<1>4. IsFiniteSet(Busy')
  BY <1>2, <1>3, FS_Subset
<1> QED
  BY <1>4, OneIsAll

(* While a thread is at work, the others are idle. *)
LEMMA OthersIdle ==
  ASSUME AtMostOne(Busy), AtMostOne(Busy'), NEW t \in Threads, t \in Busy \/ t \in Busy',
         \A u \in Threads \ {t} : req'[u] = req[u]
  PROVE  \A u \in Threads \ {t} : req[u].pc = "idle"
  BY DEF AtMostOne, Busy

(* So only its own request has to be looked at. *)
LEMMA FreshAlone ==
  ASSUME TypeOK, Orderly, AtMostOne(Busy), AtMostOne(Busy'), NEW t \in Threads,
         t \in Busy \/ t \in Busy', NEW r, req' = [req EXCEPT ![t] = r],
         FreshRequest(t)'
  PROVE  \A u \in Threads : FreshRequest(u)'
<1>1. \A u \in Threads \ {t} : req'[u] = req[u]
  BY DEF TypeOK
<1>2. \A u \in Threads \ {t} : req[u].pc = "idle"
  BY <1>1, OthersIdle
<1>3. ASSUME NEW u \in Threads \ {t} PROVE FreshRequest(u)'
  <2>1. FreshRequest(u)
    BY DEF Orderly
  <2> QED
    BY <1>1, <1>2, <2>1 DEF FreshRequest, Paid, State
<1> QED
  BY <1>3

LEMMA InsertOrderly ==
  ASSUME TypeOK, LoansInv, Orderly, NEW row \in Loan, Insert(row),
         row.status \in {"PENDING", "APPROVED"}, row.outstanding = 0
  PROVE  Orderly'
<1>1. PICK k \in LoanIds : loans[k] = None /\ loans' = [loans EXCEPT ![k] = row]
  BY DEF Insert
<1>2. UNCHANGED <<accounts, req, disbursed>>
  BY DEF Insert
<1>3. /\ loans'[k] = row /\ row # None /\ disbursed[k] = 0
      /\ \A l \in LoanIds : l # k => loans'[l] = loans[l]
  <2>1. LoanHistory(k)
    BY DEF LoansInv
  <2>2. row # None
    BY FinanceAssumption
  <2> QED
    BY <1>1, <2>1, <2>2 DEF TypeOK, LoanHistory
<1>4. ASSUME NEW l \in LoanIds PROVE OrderlyLoan(l)'
  <2>1. OrderlyLoan(l)
    BY DEF Orderly
  <2>2. CASE l = k
    BY <1>2, <1>3, <2>2 DEF OrderlyLoan, Has
  <2>3. CASE l # k
    BY <1>2, <1>3, <2>1, <2>3 DEF OrderlyLoan, Has
  <2> QED
    BY <2>2, <2>3
<1>5. ASSUME NEW t \in Threads PROVE FreshRequest(t)'
  <2>1. FreshRequest(t)
    BY DEF Orderly
  <2>2. req[t].op \in LoanOps => req[t].work.loan \in LoanIds /\ req[t].work.loan # k
    BY <1>1 DEF TypeOK, InStage, Work
  <2> QED
    BY <1>2, <1>3, <2>1, <2>2 DEF FreshRequest, Fresh, Paid, State
<1>6. \A ty \in Types : OrderlyAccount(accounts'[ty])
  BY <1>2 DEF Orderly
<1> QED
  BY <1>4, <1>5, <1>6 DEF Orderly

(* A step that leaves accounts and loans alone. *)
LEMMA QuietOrderly ==
  ASSUME Orderly, UNCHANGED <<accounts, loans, disbursed>>,
         \A u \in Threads : FreshRequest(u)'
  PROVE  Orderly'
<1>1. \A l \in LoanIds : OrderlyLoan(l)'
  BY DEF Orderly, OrderlyLoan, Has
<1>2. \A ty \in Types : OrderlyAccount(accounts'[ty])
  BY DEF Orderly
<1> QED
  BY <1>1, <1>2 DEF Orderly

(* What a request needs that begins. *)
Starts(r) ==
    /\ r.pc # "idle"
    /\ r.op # "approve" => /\ r.pc = "debit"
                           /\ Fresh(r.debitSeen, r.entry.debit) /\ Fresh(r.creditSeen, r.entry.credit)
    /\ r.op \in LoanOps => r.work.old = loans[r.work.loan]
    /\ r.op = "disburse" => r.work.new = Paid(r.work.old)

LEMMA BeginOrderly ==
  ASSUME TypeOK, Orderly, AtMostOne(Busy), AtMostOne(Busy'), NEW t \in Threads, NEW r,
         Begin(t, r), Starts(r)
  PROVE  Orderly'
<1>1. /\ req' = [req EXCEPT ![t] = r] /\ UNCHANGED <<accounts, loans, disbursed>>
  BY DEF Begin, committed
<1>2. req'[t] = r
  BY <1>1 DEF TypeOK
<1>3. t \in Busy'
  BY <1>2 DEF Busy, Starts
<1>4. FreshRequest(t)'
  BY <1>1, <1>2 DEF Starts, FreshRequest, Fresh, Paid, State
<1>5. \A u \in Threads : FreshRequest(u)'
  BY <1>1, <1>3, <1>4, FreshAlone
<1> QED
  BY <1>1, <1>5, QuietOrderly

LEMMA NothingSeenFresh == \A ty \in Types : Fresh(Unseen, ty)
  BY DEF Fresh, Unseen

LEMMA HeldFresh ==
  ASSUME TypeOK, NEW ty \in Types, Len(accounts[ty]) = 1
  PROVE  Fresh(Held(ty), ty)
<1>1. accounts[ty] \in Seq(Row)
  BY DEF TypeOK
<1>2. accounts[ty] # <<>>
  BY <1>1
<1> QED
  BY <1>2 DEF Fresh, Held, Only

LEMMA StartsOrderly ==
  ASSUME TypeOK, Orderly, AtMostOne(Busy), AtMostOne(Busy'), NEW t \in Threads,
         \/ \E l \in LoanIds : \/ \E n \in Principals : Approve(t, l, n)
                               \/ Disburse(t, l)
                               \/ \E n \in Payments : Repay(t, l, n)
         \/ Sweep(t) \/ Accrue(t) \/ Enroll(t)
         \/ \E n \in Payments : Claim(t, n)
  PROVE  Orderly'
<1> SUFFICES \E r : Begin(t, r) /\ Starts(r)
  BY BeginOrderly
<1>1. ASSUME NEW l \in LoanIds, NEW n \in Principals, Approve(t, l, n)
      PROVE  \E r : Begin(t, r) /\ Starts(r)
  <2> DEFINE w == Making(l, State("APPROVED", n, loans[l].outstanding))
             r == Asks("approve", "commit", w, NoEntry, Unseen, Unseen)
  <2>1. Begin(t, r)
    BY <1>1 DEF Approve
  <2>2. Starts(r)
    BY DEF Starts, Asks, Making
  <2> QED
    BY <2>1, <2>2
<1>2. ASSUME NEW l \in LoanIds, Disburse(t, l)
      PROVE  \E r : Begin(t, r) /\ Starts(r)
  <2> DEFINE w == Making(l, Paid(loans[l]))
             e == Posting("OPERATING", "REVENUE", loans[l].approved)
             r == Asks("disburse", "debit", w, e, Unseen, Unseen)
  <2>1. Begin(t, r)
    BY <1>2 DEF Disburse, Post
  <2>2. Starts(r)
    BY NothingSeenFresh DEF Starts, Asks, Making, Posting, Types
  <2> QED
    BY <2>1, <2>2
<1>3. ASSUME NEW op \in {"repay", "enroll", "claim"}, NEW a \in Types, NEW b \in Types, NEW n,
             Post(t, op, NoWork, Posting(a, b, n), Unseen, Unseen)
      PROVE  \E r : Begin(t, r) /\ Starts(r)
  <2> DEFINE r == Asks(op, "debit", NoWork, Posting(a, b, n), Unseen, Unseen)
  <2>1. Begin(t, r)
    BY <1>3 DEF Post
  <2>2. Starts(r)
    BY NothingSeenFresh DEF Starts, Asks, Posting, LoanOps
  <2> QED
    BY <2>1, <2>2
<1>4. ASSUME Sweep(t) PROVE \E r : Begin(t, r) /\ Starts(r)
  <2> DEFINE e == Posting("RESERVE", "OPERATING", Surplus(Only("OPERATING"), sweep))
             r == Asks("sweep", "debit", NoWork, e, Unseen, Held("OPERATING"))
  <2>1. Begin(t, r)
    BY <1>4 DEF Sweep, Post
  <2>2. Fresh(Unseen, "RESERVE") /\ Fresh(Held("OPERATING"), "OPERATING")
    BY <1>4, NothingSeenFresh, HeldFresh DEF Sweep, Types
  <2>3. Starts(r)
    BY <2>2 DEF Starts, Asks, Posting, LoanOps
  <2> QED
    BY <2>1, <2>3
<1>5. ASSUME Accrue(t) PROVE \E r : Begin(t, r) /\ Starts(r)
  <2> DEFINE e == Posting("RESERVE", "REVENUE", DayYield)
             r == Asks("accrue", "debit", NoWork, e, Held("RESERVE"), Unseen)
  <2>1. Begin(t, r)
    BY <1>5 DEF Accrue, Post
  <2>2. Fresh(Unseen, "REVENUE") /\ Fresh(Held("RESERVE"), "RESERVE")
    BY <1>5, NothingSeenFresh, HeldFresh DEF Accrue, Types
  <2>3. Starts(r)
    BY <2>2 DEF Starts, Asks, Posting, LoanOps
  <2> QED
    BY <2>1, <2>3
<1>6. ASSUME Enroll(t) \/ (\E n \in Payments : Claim(t, n))
               \/ \E l \in LoanIds, n \in Payments : Repay(t, l, n)
      PROVE  \E r : Begin(t, r) /\ Starts(r)
  <2>1. \E op \in {"repay", "enroll", "claim"}, a \in Types, b \in Types :
          \E n : Post(t, op, NoWork, Posting(a, b, n), Unseen, Unseen)
    BY <1>6 DEF Enroll, Claim, Repay, Types
  <2> QED
    BY <1>3, <2>1
<1> QED
  BY <1>1, <1>2, <1>4, <1>5, <1>6

(* Selecting an account shows what is committed. *)
LEMMA SelectedFresh ==
  ASSUME TypeOK, NEW ty \in Types, NEW seen \in Seen, Fresh(seen, ty)
  PROVE  Fresh(Selected(seen, ty), ty) /\ Selected(seen, ty).known
  BY DEF Selected, Fresh, Held, Only, Seen

LEMMA RollbackOrderly ==
  ASSUME TypeOK, Orderly, AtMostOne(Busy), AtMostOne(Busy'), NEW t \in Threads, t \in Busy,
         Rollback(t)
  PROVE  Orderly'
<1>1. /\ req' = [req EXCEPT ![t] = Idle] /\ UNCHANGED <<accounts, loans, disbursed>>
  BY DEF Rollback, EndSession, committed
<1>2. req'[t] = Idle
  BY <1>1 DEF TypeOK
<1>3. FreshRequest(t)'
  BY <1>2 DEF FreshRequest, Idle, Asks
<1>4. \A u \in Threads : FreshRequest(u)'
  BY <1>1, <1>3, FreshAlone
<1> QED
  BY <1>1, <1>4, QuietOrderly

LEMMA SelectOrderly ==
  ASSUME TypeOK, Orderly, AtMostOne(Busy), AtMostOne(Busy'), NEW t \in Threads,
         SelectDebit(t) \/ SelectCredit(t)
  PROVE  Orderly'
<1>1. t \in Busy
  BY DEF Busy, SelectDebit, SelectCredit
<1>2. CASE Rollback(t)
  BY <1>1, <1>2, RollbackOrderly
<1>3. CASE ~Rollback(t)
  <2> PICK r : r = req[t]
    OBVIOUS
  <2>1. /\ r \in Request /\ r.pc \in {"debit", "credit"} /\ InStage(t)
        /\ FreshRequest(t)
    BY DEF TypeOK, Orderly, SelectDebit, SelectCredit
  <2>2. /\ r.op # "approve" /\ r.pc # "idle" /\ r.entry.debit \in Types /\ r.entry.credit \in Types
        /\ r.debitSeen \in Seen /\ r.creditSeen \in Seen
    BY <2>1 DEF InStage, Request, Entry
  <2>3. PICK pc, ds, cs :
          /\ req' = [req EXCEPT ![t] = Asks(r.op, pc, r.work, r.entry, ds, cs)]
          /\ \/ pc = "credit" /\ ds = Selected(r.debitSeen, r.entry.debit) /\ cs = r.creditSeen
             \/ /\ pc = "commit" /\ ds = r.debitSeen /\ r.pc = "credit"
                /\ cs = Selected(r.creditSeen, r.entry.credit)
          /\ UNCHANGED committed
    BY <1>3 DEF SelectDebit, SelectCredit, Refused
  <2> PICK new : new = Asks(r.op, pc, r.work, r.entry, ds, cs)
    OBVIOUS
  <2>4. /\ new.op = r.op /\ new.pc = pc /\ new.work = r.work /\ new.entry = r.entry
        /\ new.debitSeen = ds /\ new.creditSeen = cs
    BY DEF Asks
  <2>5. UNCHANGED <<accounts, loans, disbursed>> /\ req'[t] = new
    BY <2>3 DEF committed, TypeOK
  <2>6. /\ Fresh(ds, r.entry.debit) /\ Fresh(cs, r.entry.credit)
        /\ ds.known /\ (pc = "commit" => cs.known)
    BY <2>1, <2>2, <2>3, SelectedFresh DEF FreshRequest
  <2>7. FreshRequest(t)'
    <3>1. Fresh(ds, r.entry.debit)' /\ Fresh(cs, r.entry.credit)'
      BY <2>5, <2>6 DEF Fresh
    <3> QED
      BY <2>1, <2>2, <2>4, <2>5, <2>6, <3>1 DEF FreshRequest, Paid, State
  <2>8. \A u \in Threads : FreshRequest(u)'
    BY <1>1, <2>3, <2>7, FreshAlone
  <2> QED
    BY <2>5, <2>8, QuietOrderly
<1> QED
  BY <1>2, <1>3

(* Posting on what is committed overwrites nothing. *)
LEMMA WithOrderly ==
  ASSUME NEW ty \in Types, NEW rows \in Seq(Row), OrderlyAccount(rows), NEW debit \in BOOLEAN,
         NEW amount \in Nat, NEW seen \in Seen,
         seen.row = 0 => rows = <<>>,
         seen.row = 1 => rows # <<>> /\ seen.balance = rows[1].balance
  PROVE  OrderlyAccount(With(rows, ty, debit, amount, seen))
<1>1. CASE seen.row = 0
  <2> DEFINE e == Entered(Opened, ty, debit, amount, 0)
  <2>1. With(rows, ty, debit, amount, seen) = Append(<<>>, e)
    BY <1>1 DEF With
  <2>2. e.lost = 0
    BY DEF Entered, Opened
  <2> HIDE DEF e
  <2>3. Len(Append(<<>>, e)) = 1 /\ DOMAIN Append(<<>>, e) = {1} /\ Append(<<>>, e)[1] = e
    OBVIOUS
  <2> QED
    BY <2>1, <2>2, <2>3 DEF OrderlyAccount
<1>2. CASE seen.row = 1
  <2> DEFINE e == Entered(rows[1], ty, debit, amount, seen.balance)
  <2>1. 1 \in DOMAIN rows /\ rows[1] \in Row /\ rows[1].lost = 0 /\ Len(rows) <= 1
    BY <1>2 DEF OrderlyAccount
  <2>2. e.lost = 0
    BY <1>2, <2>1 DEF Entered, Row
  <2>3. With(rows, ty, debit, amount, seen) = [rows EXCEPT ![1] = e]
    BY <1>2, <2>1 DEF With
  <2> HIDE DEF e
  <2>4. DOMAIN rows = {1}
    <3>1. DOMAIN rows = 1..Len(rows) /\ Len(rows) \in Nat
      OBVIOUS
    <3>2. Len(rows) = 1
      BY <2>1, <3>1
    <3> QED
      BY <3>1, <3>2
  <2>5. e \in Row
    BY <2>1, EnteredRow DEF e, Seen
  <2> DEFINE new == [rows EXCEPT ![1] = e]
  <2>6. new \in Seq(Row) /\ DOMAIN new = {1} /\ new[1] = e
    <3>1. /\ [rows EXCEPT ![1] = e] \in Seq(Row)
          /\ DOMAIN [rows EXCEPT ![1] = e] = DOMAIN rows
      BY <2>1, <2>5
    <3>2. [rows EXCEPT ![1] = e][1] = e
      BY <2>1
    <3> QED
      BY <2>4, <3>1, <3>2
  <2> HIDE DEF new
  <2>7. Len(new) = 1
    BY <2>6
  <2> QED
    BY <2>2, <2>3, <2>6, <2>7 DEF OrderlyAccount, new
<1> QED
  BY <1>1, <1>2 DEF Seen

LEMMA CommitAccountsOrderly ==
  ASSUME TypeOK, Orderly, NEW t \in Threads, Commit(t)
  PROVE  \A ty \in Types : OrderlyAccount(accounts'[ty])
<1> SUFFICES ASSUME NEW ty \in Types PROVE OrderlyAccount(accounts'[ty])
  OBVIOUS
<1>1. OrderlyAccount(accounts[ty]) /\ accounts[ty] \in Seq(Row)
  BY DEF Orderly, TypeOK
<1>2. CASE req[t].op = "approve"
  BY <1>1, <1>2 DEF Commit, WriteEntry
<1>3. CASE req[t].op # "approve"
  <2> PICK r : r = req[t]
    OBVIOUS
  <2>1. /\ r.entry \in Entry /\ r.debitSeen \in Seen /\ r.creditSeen \in Seen
        /\ r.debitSeen.known /\ r.creditSeen.known
        /\ Fresh(r.debitSeen, r.entry.debit) /\ Fresh(r.creditSeen, r.entry.credit)
    BY <1>3 DEF Commit, TypeOK, InStage, Request, Orderly, FreshRequest
  <2>2. r.entry.amount \in Nat
    BY <2>1 DEF Entry
  <2>3. accounts'[ty] = IF ty = r.entry.debit
                        THEN With(accounts[ty], ty, TRUE, r.entry.amount, r.debitSeen)
                        ELSE IF ty = r.entry.credit
                        THEN With(accounts[ty], ty, FALSE, r.entry.amount, r.creditSeen)
                        ELSE accounts[ty]
    BY <1>3 DEF Commit, WriteEntry
  <2>4. CASE ty = r.entry.debit
    <3>1. OrderlyAccount(With(accounts[ty], ty, TRUE, r.entry.amount, r.debitSeen))
      BY <1>1, <2>1, <2>2, <2>4, WithOrderly DEF Fresh
    <3> QED
      BY <2>3, <2>4, <3>1
  <2>5. CASE ty # r.entry.debit /\ ty = r.entry.credit
    <3>1. OrderlyAccount(With(accounts[ty], ty, FALSE, r.entry.amount, r.creditSeen))
      BY <1>1, <2>1, <2>2, <2>5, WithOrderly DEF Fresh
    <3> QED
      BY <2>3, <2>5, <3>1
  <2> QED
    BY <1>1, <2>3, <2>4, <2>5
<1> QED
  BY <1>2, <1>3

LEMMA CommitLoansOrderly ==
  ASSUME TypeOK, TypeOK', LoansInv, Orderly, NEW t \in Threads, Commit(t)
  PROVE  \A l \in LoanIds : OrderlyLoan(l)'
<1>1. CASE req[t].op \notin LoanOps
  <2>1. UNCHANGED <<loans, disbursed>>
    BY <1>1 DEF Commit, WriteLoan, TallyLoan, LoanOps
  <2> QED
    BY <2>1 DEF Orderly, OrderlyLoan, Has
<1>2. CASE req[t].op \in LoanOps
  <2> PICK w : w = req[t].work
    OBVIOUS
  <2> PICK k : k = w.loan
    OBVIOUS
  <2>1. /\ k \in LoanIds /\ w.old \in Loan /\ w.new \in Loan
        /\ loans'[k] \in Loan /\ loans[k] \in Loan
        /\ loans'[k] = Written(loans[k], w.old, w.new)
        /\ \A l \in LoanIds \ {k} : loans'[l] = loans[l] /\ disbursed'[l] = disbursed[l]
        /\ WorkInv(t)
    BY <1>2, CommittedLoan
  <2>2. w.old = loans[k] /\ (req[t].op = "disburse" => w.new = Paid(w.old)) /\ OrderlyLoan(k)
    BY <1>2, <2>1 DEF Orderly, FreshRequest, Commit
  <2>3. CASE req[t].op = "approve"
    <3>1. ApproveInv(w) /\ disbursed'[k] = disbursed[k]
      BY <2>1, <2>3 DEF WorkInv, Commit, TallyLoan
    <3>2. loans[k].status = "PENDING" /\ loans[k] # None
      BY <2>1, <2>2, <3>1, FinanceAssumption DEF ApproveInv
    <3>3. disbursed[k] = 0 /\ loans[k].outstanding = 0
      BY <2>2, <3>2 DEF OrderlyLoan, Has
    <3>4. loans'[k].status = "APPROVED" /\ loans'[k].outstanding = 0
      BY <2>1, <2>2, <3>1, <3>2, <3>3 DEF ApproveInv, Written, State
    <3>5. OrderlyLoan(k)'
      BY <3>1, <3>3, <3>4 DEF OrderlyLoan, Has
    <3> QED
      BY <2>1, <3>5 DEF Orderly, OrderlyLoan, Has
  <2>4. CASE req[t].op = "disburse"
    <3>1. DisburseInv(w) /\ disbursed'[k] = disbursed[k] + 1
      BY <2>1, <2>4 DEF WorkInv, Commit, TallyLoan, Tally, TypeOK
    <3>2. loans[k].status = "APPROVED" /\ loans[k] # None
      BY <2>1, <2>2, <3>1, FinanceAssumption DEF DisburseInv
    <3>3. disbursed[k] = 0 /\ loans[k].outstanding = 0
      BY <2>2, <3>2 DEF OrderlyLoan, Has
    <3>4. loans'[k].status = "DISBURSED" /\ loans'[k].outstanding = loans'[k].approved
      BY <2>1, <2>2, <2>4, <3>2, <3>3 DEF Paid, Written, State
    <3>5. OrderlyLoan(k)'
      BY <3>1, <3>3, <3>4 DEF OrderlyLoan, Has
    <3> QED
      BY <2>1, <3>5 DEF Orderly, OrderlyLoan, Has
  <2> QED
    BY <1>2, <2>3, <2>4 DEF LoanOps
<1> QED
  BY <1>1, <1>2

LEMMA CommitOrderly ==
  ASSUME TypeOK, TypeOK', LoansInv, Orderly, AtMostOne(Busy), AtMostOne(Busy'),
         NEW t \in Threads, Commit(t)
  PROVE  Orderly'
<1>1. t \in Busy /\ req' = [req EXCEPT ![t] = Idle]
  BY DEF Commit, EndSession, Busy
<1>2. req'[t] = Idle
  BY <1>1 DEF TypeOK
<1>3. FreshRequest(t)'
  BY <1>2 DEF FreshRequest, Idle, Asks
<1>4. \A u \in Threads : FreshRequest(u)'
  BY <1>1, <1>3, FreshAlone
<1> QED
  BY <1>4, CommitAccountsOrderly, CommitLoansOrderly DEF Orderly

LEMMA SerialInit == MCInit => SerialInv
<1> SUFFICES ASSUME MCInit PROVE SerialInv
  OBVIOUS
<1>1. \A t \in Threads : req[t] = Idle
  BY DEF MCInit, Init
<1>2. Busy = {}
  BY <1>1 DEF Busy, Idle, Asks
<1>3. AtMostOne(Busy)
  BY <1>2, FS_EmptySet DEF AtMostOne
<1>4. \A t \in Threads : FreshRequest(t)
  BY <1>1 DEF FreshRequest, Idle, Asks, LoanOps
<1>5. \A l \in LoanIds : OrderlyLoan(l)
  BY DEF MCInit, Init, OrderlyLoan, Has
<1>6. \A ty \in Types : accounts[ty] = <<>>
  BY DEF MCInit, Init
<1>7. Len(<<>>) = 0 /\ DOMAIN <<>> = {}
  OBVIOUS
<1> QED
  BY <1>3, <1>4, <1>5, <1>6, <1>7 DEF SerialInv, Orderly, OrderlyAccount

LEMMA SerialStep ==
  LedgerInv /\ LedgerInv' /\ LoansInv /\ SerialInv /\ [MCNext]_<<vars, overlapped>> => SerialInv'
<1> SUFFICES ASSUME TypeOK, TypeOK', LoansInv, SerialInv, [MCNext]_<<vars, overlapped>>, ~overlapped'
             PROVE  AtMostOne(Busy') /\ Orderly'
  BY DEF LedgerInv, SerialInv
<1>1. ~overlapped /\ AtMostOne(Busy) /\ Orderly /\ [Next]_vars
  <2>1. CASE MCNext
    BY <2>1 DEF MCNext, SerialInv
  <2>2. CASE UNCHANGED <<vars, overlapped>>
    BY <2>2 DEF SerialInv
  <2> QED
    BY <2>1, <2>2
<1>2. CASE UNCHANGED vars
  <2>1. Busy' = Busy
    BY <1>2 DEF Busy, vars
  <2>2. \A t \in Threads : FreshRequest(t)'
    BY <1>1, <1>2 DEF Orderly, FreshRequest, Fresh, Paid, State, vars
  <2> QED
    BY <1>1, <1>2, <2>1, <2>2, QuietOrderly DEF vars
<1>3. CASE Next /\ Cardinality(Busy') <= 1
  <2>1. AtMostOne(Busy')
    BY <1>1, <1>3, BusyOne
  <2>2. ASSUME NEW n \in Principals, Apply(n) \/ FinanceOrder(n) PROVE Orderly'
    <3> DEFINE a == State("PENDING", 0, 0)
               b == State("APPROVED", n, 0)
    <3>1. /\ a \in Loan /\ a.status = "PENDING" /\ a.outstanding = 0
          /\ b \in Loan /\ b.status = "APPROVED" /\ b.outstanding = 0
      BY FinanceAssumption DEF State, Loan, Statuses
    <3>2. Insert(a) \/ Insert(b)
      BY <2>2 DEF Apply, FinanceOrder
    <3> HIDE DEF a, b
    <3> QED
      BY <1>1, <3>1, <3>2, InsertOrderly
  <2>3. ASSUME NEW n \in Thresholds \union {None}, SetSweep(n) PROVE Orderly'
    <3>1. UNCHANGED <<accounts, loans, disbursed, req>>
      BY <2>3 DEF SetSweep, committed
    <3>2. \A t \in Threads : FreshRequest(t)'
      BY <1>1, <3>1 DEF Orderly, FreshRequest, Fresh, Paid, State
    <3> QED
      BY <1>1, <3>1, <3>2, QuietOrderly
  <2>4. ASSUME NEW t \in Threads,
               \/ \E l \in LoanIds : \/ \E n \in Principals : Approve(t, l, n)
                                     \/ Disburse(t, l)
                                     \/ \E n \in Payments : Repay(t, l, n)
               \/ Sweep(t) \/ Accrue(t) \/ Enroll(t)
               \/ \E n \in Payments : Claim(t, n)
        PROVE  Orderly'
    BY <1>1, <2>1, <2>4, StartsOrderly
  <2>5. ASSUME NEW t \in Threads, SelectDebit(t) \/ SelectCredit(t) PROVE Orderly'
    BY <1>1, <2>1, <2>5, SelectOrderly
  <2>6. ASSUME NEW t \in Threads, Commit(t) PROVE Orderly'
    BY <1>1, <2>1, <2>6, CommitOrderly
  <2>7. ASSUME NEW t \in Threads, Abort(t) PROVE Orderly'
    BY <1>1, <2>1, <2>7, RollbackOrderly DEF Abort, Busy
  <2> QED
    BY <1>3, <2>1, <2>2, <2>3, <2>4, <2>5, <2>6, <2>7 DEF Next
<1>4. Cardinality(Busy') <= 1 \/ UNCHANGED vars
  <2>1. \A n : n > 1 \/ n <= 1 \/ ~(n \in Nat)
    OBVIOUS
  <2>2. Next => Cardinality(Busy') \in Nat
    <3>1. SUFFICES ASSUME Next PROVE IsFiniteSet(Busy')
      BY FS_CardinalityType
    <3>2. PICK t : \A u \in Threads : u # t => req'[u] = req[u]
      BY <1>1, OneActs
    <3>3. Busy' \subseteq Busy \union {t}
      BY <3>2 DEF Busy
    <3> QED
      BY <1>1, <3>3, FS_AddElement, FS_Subset DEF AtMostOne
  <2> QED
    BY <2>1, <2>2 DEF MCNext, Overlap, vars
<1> QED
  BY <1>1, <1>2, <1>3, <1>4

(* Every step of the instance is one of the ledger. *)
LEMMA MCImplements == MCSpec => Spec
<1>1. MCInit => Init
  BY DEF MCInit
<1>2. [MCNext]_<<vars, overlapped>> => [Next]_vars
  BY DEF MCNext, vars
<1> QED
  BY <1>1, <1>2, PTL DEF MCSpec, Spec

(* One request at a time, a loan is paid out once and owes what was paid    *)
(* out, every type has one account, and its balance is that of its entries  *)
(* (LoanEngine.disburse_loan, record_transaction): what two requests can    *)
(* break takes two of them at once.                                         *)
THEOREM SerialBooks == MCSpec => []SerialBooksAgree
<1>1. SerialInv => SerialBooksAgree
  <2>1. SUFFICES ASSUME Orderly PROVE BooksAgree
    BY DEF SerialInv, SerialBooksAgree
  <2> QED
    BY <2>1 DEF Orderly, OrderlyLoan, OrderlyAccount, BooksAgree, Has
<1>2. MCSpec => [](LedgerInv /\ LoansInv)
  BY MCImplements, LedgerInit, LedgerStep, LoansInit, LoansStep, PTL DEF Spec
<1>3. MCSpec => []SerialInv
  BY <1>2, SerialInit, SerialStep, PTL DEF MCSpec
<1> QED
  BY <1>1, <1>3, PTL

=============================================================================
