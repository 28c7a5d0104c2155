------------------------ MODULE CustomerAccounts_proofs ------------------------
EXTENDS MCCustomerAccounts, Sums, SequenceTheorems, TLAPS

LEMMA TypeInit == Init => TypeOK
  BY AccountsAssumption DEF Init, TypeOK, InStage, NoRows, NoPosts, NoRequest, Asks, Request, RowOrNone,
     Ledger, Account, Ops, Stages, SaleStages

LEMMA TypeEndSession ==
  ASSUME TypeOK, NEW t \in Threads, EndSession(t)
  PROVE  /\ req' \in [Threads -> Request]
         /\ pc' \in [Threads -> Stages]
         /\ ledNew' \in [Threads -> RowOrNone(Ledger)]
         /\ accNew' \in [Threads -> [Customers -> RowOrNone(Account)]]
         /\ posts' \in [Threads -> [Customers -> Seq(Entry)]]
         /\ ledLock' \in [Customers -> RowOrNone(Threads)]
         /\ accLock' \in [Customers -> RowOrNone(Threads)]
         /\ \A u \in Threads : InStage(u)'
  BY DEF EndSession, InStage, TypeOK, NoRows, NoPosts, NoRequest, Asks, Request, RowOrNone,
     Ops, Stages, SaleStages

LEMMA TypeMove ==
  ASSUME TypeOK, NEW t \in Threads, NEW c \in Customers, NEW base \in Account,
         NEW points \in Int, NEW type \in {"EARN", "REDEEM", "ADJUST"},
         NEW id \in SaleIds \union {None}, Move(t, c, base, points, type, id)
  PROVE  /\ accNew' \in [Threads -> [Customers -> RowOrNone(Account)]]
         /\ posts' \in [Threads -> [Customers -> Seq(Entry)]]
<1>1. [total |-> base.total + points, redeemable |-> base.redeemable + points] \in Account
  BY DEF Account
<1>2. [type |-> type, amount |-> points, after |-> base.total + points, txn |-> id] \in Entry
  BY DEF Account, Entry
<1>3. accNew' \in [Threads -> [Customers -> RowOrNone(Account)]]
  BY <1>1 DEF TypeOK, Move, RowOrNone
<1>4. posts[t][c] \in Seq(Entry)
  BY DEF TypeOK
<1>5. Append(posts[t][c], [type |-> type, amount |-> points, after |-> base.total + points,
                           txn |-> id]) \in Seq(Entry)
  BY <1>2, <1>4
<1> QED
  BY <1>3, <1>5 DEF TypeOK, Move

LEMMA TypeStep ==
  ASSUME TypeOK, NEW t \in Threads, NEW r \in Request, NEW stage \in Stages,
         req' = [req EXCEPT ![t] = r], pc' = [pc EXCEPT ![t] = stage],
         \A u \in Threads \ {t} : ledNew'[u] = ledNew[u],
         InStage(t)'
  PROVE  /\ req' \in [Threads -> Request]
         /\ pc' \in [Threads -> Stages]
         /\ \A u \in Threads : InStage(u)'
<1>1. ASSUME NEW u \in Threads \ {t} PROVE InStage(u)'
  BY DEF TypeOK, InStage
<1> QED BY <1>1 DEF TypeOK

LEMMA TypeSale ==
  ASSUME TypeOK, NEW t \in Threads, SaleStep(t)
  PROVE  TypeOK'
<1> USE DEF TypeOK, committed, InStage
<1>1. ASSUME NEW c \in Customers, NEW id \in SaleIds, NEW total \in Totals, NEW credit \in BOOLEAN,
             SaleBegin(t, c, id, total, credit)
      PROVE TypeOK'
  <2> DEFINE r == Asks("sale", c, id, credit, total, <<>>)
  <2>1. r \in Request /\ r.op = "sale" /\ r.c = c /\ r.id = id
    BY AccountsAssumption DEF Asks, Request, Ops
  <2>2. req' = [req EXCEPT ![t] = r] /\ pc' = [pc EXCEPT ![t] = "insert"]
    BY <1>1 DEF SaleBegin
  <2> HIDE DEF r
  <2> QED
    BY <1>1, <2>1, <2>2 DEF SaleBegin, Stages, SaleStages
<1>2. ASSUME Rollback(t) PROVE TypeOK'
  BY <1>2, TypeEndSession DEF Rollback
<1>3. CASE SaleInsert(t)
  BY <1>2, <1>3 DEF SaleInsert, Stages, SaleStages
<1>4. CASE SaleOwe(t)
  <2>1. CASE Rollback(t)
    BY <1>2, <2>1
  <2>2. CASE ~Rollback(t)
    <3>1. req[t].op = "sale" /\ req[t].c \in Customers
      BY <1>4 DEF SaleOwe, SaleStages
    <3>2. Charged(ledger[req[t].c], req[t].amount) \in Ledger
      BY <1>4, <3>1 DEF SaleOwe, Charged, RowOrNone, Ledger, Request
    <3> QED
      BY <1>4, <2>2, <3>1, <3>2, ZenonT(30) DEF SaleOwe, Stages, SaleStages, RowOrNone
  <2> QED BY <2>1, <2>2
<1>5. CASE SaleNoLedger(t)
  BY <1>5 DEF SaleNoLedger, Stages, SaleStages
<1>6. CASE SaleCreateLedger(t)
  <2>1. CASE Rollback(t)
    BY <1>2, <2>1
  <2>2. CASE ~Rollback(t)
    <3>1. req[t].op = "sale" /\ req[t].c \in Customers
      BY <1>6 DEF SaleCreateLedger, SaleStages
    <3>2. Charged([balance |-> 0, limit |-> 0], req[t].amount) \in Ledger
      BY DEF Charged, Ledger, Request
    <3> QED
      BY <1>6, <2>2, <3>1, <3>2, ZenonT(30) DEF SaleCreateLedger, Stages, SaleStages, RowOrNone
  <2> QED BY <2>1, <2>2
<1>7. CASE SaleFlushLedger(t)
  BY <1>7 DEF SaleFlushLedger, Stages, SaleStages, RowOrNone
<1>8. CASE SaleEarn(t)
  <2>1. /\ req[t].op = "sale" /\ req[t].c \in Customers /\ req[t].id \in SaleIds
        /\ req[t].amount * Rate \in Int
    BY <1>8, AccountsAssumption DEF SaleEarn, SaleStages, Request
  <2>2. /\ accNew' \in [Threads -> [Customers -> RowOrNone(Account)]]
        /\ posts' \in [Threads -> [Customers -> Seq(Entry)]]
    <3>1. CASE UNCHANGED <<accNew, posts>>
      BY <3>1
    <3>2. CASE /\ account[req[t].c] # None
               /\ Move(t, req[t].c, account[req[t].c], req[t].amount * Rate, "EARN", req[t].id)
      <4>1. account[req[t].c] \in Account
        BY <2>1, <3>2 DEF RowOrNone
      <4> QED BY <2>1, <3>2, <4>1, TypeMove
    <3> QED BY <1>8, <3>1, <3>2 DEF SaleEarn
  <2> QED
    BY <1>8, <2>1, <2>2 DEF SaleEarn, Stages, SaleStages
<1>9. CASE SaleEnroll(t)
  <2>1. /\ req[t].op = "sale" /\ req[t].c \in Customers /\ req[t].id \in SaleIds
        /\ req[t].amount * Rate \in Int
    BY <1>9, AccountsAssumption DEF SaleEnroll, SaleStages, Request
  <2>2. [total |-> 0, redeemable |-> 0] \in Account
    BY DEF Account
  <2>3. CASE Rollback(t)
    BY <1>2, <2>3
  <2>4. CASE ~Rollback(t)
    <3>1. Move(t, req[t].c, [total |-> 0, redeemable |-> 0],
               req[t].amount * Rate, "EARN", req[t].id)
      BY <1>9, <2>4 DEF SaleEnroll
    <3>2. /\ accNew' \in [Threads -> [Customers -> RowOrNone(Account)]]
          /\ posts' \in [Threads -> [Customers -> Seq(Entry)]]
      BY <2>1, <2>2, <3>1, TypeMove
    <3>3. accLock' = [accLock EXCEPT ![req[t].c] = t] /\ pc' = [pc EXCEPT ![t] = "commit"]
      BY <1>9, <2>4 DEF SaleEnroll
    <3>4. accLock' \in [Customers -> RowOrNone(Threads)]
      BY <2>1, <3>3 DEF RowOrNone
    <3>5. UNCHANGED <<ledger, account, creditLog, pointsLog, sold, active, dormant, req,
                      ledNew, ledLock>>
      BY <1>9, <2>4 DEF SaleEnroll
    <3> QED
      BY <2>1, <3>2, <3>3, <3>4, <3>5 DEF Stages, SaleStages
  <2> QED BY <2>3, <2>4
<1> QED
  BY <1>1, <1>3, <1>4, <1>5, <1>6, <1>7, <1>8, <1>9 DEF SaleStep

LEMMA TypeAccount ==
  ASSUME TypeOK, NEW t \in Threads, AccountStep(t)
  PROVE  TypeOK'
<1>1. ASSUME NEW c \in Customers, NEW n \in Amounts, Repay(t, c, n)
      PROVE TypeOK'
  <2> DEFINE r == Asks("repay", c, None, FALSE, n, <<>>)
  <2>1. r \in Request /\ r.op = "repay" /\ r.c = c
    BY AccountsAssumption DEF Asks, Request, Ops
  <2>2. req' = [req EXCEPT ![t] = r] /\ pc' = [pc EXCEPT ![t] = "commit"]
    BY <1>1 DEF Repay
  <2>3. Charged(ledger[c], -n) \in Ledger
    BY <1>1, AccountsAssumption DEF TypeOK, Repay, Charged, RowOrNone, Ledger
  <2>4. /\ ledNew' \in [Threads -> RowOrNone(Ledger)]
        /\ ledLock' \in [Customers -> RowOrNone(Threads)]
        /\ \A u \in Threads \ {t} : ledNew'[u] = ledNew[u]
    BY <1>1, <2>3 DEF TypeOK, Repay, RowOrNone
  <2> HIDE DEF r
  <2>5. req'[t] = r /\ pc'[t] = "commit"
    BY <2>2 DEF TypeOK
  <2>6. InStage(t)'
    BY <2>1, <2>5 DEF InStage, SaleStages
  <2>7. UNCHANGED <<ledger, account, creditLog, pointsLog, sold, active, dormant, accNew,
                    posts, accLock>>
    BY <1>1 DEF Repay, committed
  <2> QED
    BY <2>1, <2>2, <2>4, <2>6, <2>7, TypeStep DEF TypeOK, Stages
<1>2. ASSUME NEW c \in Customers, NEW n \in Amounts,
             NEW id \in SaleIds \union {None}, Redeem(t, c, n, id)
      PROVE TypeOK'
  <2> DEFINE r == Asks("redeem", c, id, FALSE, n, <<>>)
  <2>1. r \in Request /\ r.op = "redeem" /\ r.c = c
    BY AccountsAssumption DEF Asks, Request, Ops
  <2>2. req' = [req EXCEPT ![t] = r] /\ pc' = [pc EXCEPT ![t] = "commit"]
    BY <1>2 DEF Redeem
  <2>3. account[c] \in Account /\ -n \in Int
    BY <1>2, AccountsAssumption DEF TypeOK, Redeem, RowOrNone
  <2>4. /\ accNew' \in [Threads -> [Customers -> RowOrNone(Account)]]
        /\ posts' \in [Threads -> [Customers -> Seq(Entry)]]
    BY <1>2, <2>3, TypeMove DEF Redeem
  <2>5. accLock' \in [Customers -> RowOrNone(Threads)] /\ ledNew' = ledNew
    BY <1>2 DEF TypeOK, Redeem, RowOrNone
  <2> HIDE DEF r
  <2>6. req'[t] = r /\ pc'[t] = "commit" /\ ledNew[t] = None
    BY <1>2, <2>2 DEF TypeOK, InStage, Redeem
  <2>7. InStage(t)'
    BY <2>1, <2>5, <2>6 DEF InStage, SaleStages
  <2> QED
    BY <1>2, <2>1, <2>2, <2>4, <2>5, <2>7, TypeStep DEF TypeOK, Redeem, Stages, committed
<1>3. ASSUME NEW items \in Batches, AdjustBegin(t, items)
      PROVE TypeOK'
  <2> DEFINE r == Asks("adjust", None, None, FALSE, 0, items)
  <2>1. r \in Request /\ r.op = "adjust" /\ r.todo # <<>>
    BY AccountsAssumption DEF Asks, Request, Ops
  <2>2. req' = [req EXCEPT ![t] = r] /\ pc' = [pc EXCEPT ![t] = "adjust"]
    BY <1>3 DEF AdjustBegin
  <2> HIDE DEF r
  <2>3. req'[t] = r /\ pc'[t] = "adjust" /\ ledNew[t] = None /\ ledNew' = ledNew
    BY <1>3, <2>2 DEF TypeOK, InStage, AdjustBegin
  <2>4. InStage(t)'
    BY <2>1, <2>3 DEF InStage, SaleStages
  <2> QED
    BY <1>3, <2>1, <2>2, <2>3, <2>4, TypeStep DEF TypeOK, AdjustBegin, Stages, committed
<1>4. CASE AdjustItem(t)
  <2> DEFINE item == Head(req[t].todo)
             r    == [req[t] EXCEPT !.todo = Tail(@)]
             next == IF Tail(req[t].todo) = <<>> THEN "commit" ELSE "adjust"
  <2>1. /\ req[t] \in Request /\ req[t].todo \in Seq(Item)
        /\ pc[t] = "adjust" /\ req[t].op = "adjust" /\ req[t].todo # <<>>
    BY <1>4 DEF TypeOK, InStage, AdjustItem, Request
  <2>2. /\ item \in Item /\ item.c \in Customers /\ item.points \in Int
        /\ Tail(req[t].todo) \in Seq(Item)
    <3>1. item \in Item /\ Tail(req[t].todo) \in Seq(Item)
      BY <2>1, HeadTailProperties
    <3> QED BY <3>1 DEF Item
  <2>3. /\ accNew' \in [Threads -> [Customers -> RowOrNone(Account)]]
        /\ posts' \in [Threads -> [Customers -> Seq(Entry)]]
    <3>1. CASE SeenAccount(t, item.c) = None
      BY <1>4, <3>1 DEF TypeOK, AdjustItem
    <3>2. CASE SeenAccount(t, item.c) # None
      <4>1. SeenAccount(t, item.c) \in Account
        BY <2>2, <3>2 DEF TypeOK, SeenAccount, RowOrNone
      <4>2. Move(t, item.c, SeenAccount(t, item.c), item.points, "ADJUST", None)
        BY <1>4, <3>2 DEF AdjustItem
      <4> HIDE DEF item
      <4> QED BY <2>2, <4>1, <4>2, TypeMove
    <3> QED BY <3>1, <3>2
  <2>4. r \in Request /\ r.op = "adjust" /\ r.todo = Tail(req[t].todo)
    BY <2>1, <2>2 DEF Request
  <2>5. /\ req' = [req EXCEPT ![t] = r] /\ pc' = [pc EXCEPT ![t] = next]
        /\ ledNew' = ledNew /\ ledNew[t] = None
    BY <1>4, <2>1 DEF TypeOK, InStage, AdjustItem
  <2>6. accLock' \in [Customers -> RowOrNone(Threads)]
    BY <1>4 DEF TypeOK, AdjustItem, FlushAccounts, RowOrNone
  <2> HIDE DEF item, r
  <2>7. req'[t] = r /\ pc'[t] = next
    BY <2>5 DEF TypeOK
  <2>8. InStage(t)'
    <3>1. pc'[t] \notin SaleStages \union {"idle"} /\ ledNew'[t] = None
      <4>1. next \in {"commit", "adjust"}
        OBVIOUS
      <4> HIDE DEF next
      <4> QED
        BY <2>5, <2>7, <4>1 DEF SaleStages
    <3>2. pc'[t] = "adjust" => req'[t].todo # <<>>
      BY <2>4, <2>7
    <3>3. req'[t].op = "adjust"
      BY <2>4, <2>7
    <3> QED BY <3>1, <3>2, <3>3 DEF InStage
  <2>9. next \in Stages
    BY DEF Stages
  <2> HIDE DEF next
  <2> QED
    BY <1>4, <2>3, <2>4, <2>5, <2>6, <2>8, <2>9, TypeStep DEF TypeOK, AdjustItem, committed
<1>5. CASE Expire(t)
  <2> DEFINE r == Asks("expire", None, None, FALSE, 0, <<>>)
  <2>1. r \in Request /\ r.op = "expire"
    BY AccountsAssumption DEF Asks, Request, Ops
  <2>2. req' = [req EXCEPT ![t] = r] /\ pc' = [pc EXCEPT ![t] = "commit"]
    BY <1>5 DEF Expire
  <2>3. \A c \in Expired : account[c] \in Account /\ Emptied(account[c]) \in Account
    BY DEF TypeOK, Expired, Emptied, RowOrNone, Account
  <2>4. accNew' \in [Threads -> [Customers -> RowOrNone(Account)]]
    BY <1>5, <2>3 DEF TypeOK, Expire, RowOrNone
  <2>5. \A c \in Expired :
          [type |-> "EXPIRE", amount |-> -account[c].redeemable,
           after |-> Emptied(account[c]).total, txn |-> None] \in Entry
    BY <2>3 DEF Account, Entry
  <2>6. posts' \in [Threads -> [Customers -> Seq(Entry)]]
    BY <1>5, <2>5 DEF TypeOK, Expire
  <2> HIDE DEF r
  <2>7. req'[t] = r /\ pc'[t] = "commit" /\ ledNew[t] = None /\ ledNew' = ledNew
    BY <1>5, <2>2 DEF TypeOK, InStage, Expire
  <2>8. InStage(t)'
    BY <2>1, <2>7 DEF InStage, SaleStages
  <2> QED
    BY <1>5, <2>1, <2>2, <2>4, <2>6, <2>7, <2>8, TypeStep DEF TypeOK, Expire, Stages, committed
<1> QED
  BY <1>1, <1>2, <1>3, <1>4, <1>5 DEF AccountStep

LEMMA TypeCommit ==
  ASSUME TypeOK, NEW t \in Threads, Commit(t)
  PROVE  TypeOK'
<1> USE DEF TypeOK, InStage
<1>1. ledger' \in [Customers -> RowOrNone(Ledger)]
  BY DEF Commit, RowOrNone
<1>2. creditLog' \in [Customers -> Seq(Entry)]
  <2>1. CASE ledNew[t] = None
    BY <2>1 DEF Commit
  <2>2. CASE ledNew[t] # None
    <3>1. req[t].op \in {"sale", "repay"} /\ req[t].c \in Customers
      BY <2>2
    <3>2. CreditEntry(t) \in Entry
      BY <2>2, <3>1 DEF CreditEntry, Entry, Ledger, RowOrNone, Request
    <3>3. Append(creditLog[req[t].c], CreditEntry(t)) \in Seq(Entry)
      BY <3>1, <3>2
    <3>4. creditLog' = [creditLog EXCEPT ![req[t].c] = Append(@, CreditEntry(t))]
      BY <2>2 DEF Commit
    <3>5. creditLog \in [Customers -> Seq(Entry)]
      OBVIOUS
    <3> HIDE DEF TypeOK, InStage
    <3> QED BY <3>1, <3>3, <3>4, <3>5
  <2> QED BY <2>1, <2>2
<1>3. account' \in [Customers -> RowOrNone(Account)]
  BY DEF Commit, RowOrNone
<1>4. pointsLog' \in [Customers -> Seq(Entry)]
  BY DEF Commit
<1>5. sold' \subseteq SaleIds /\ active' \in BOOLEAN /\ dormant' \in [Customers -> BOOLEAN]
  BY DEF Commit
<1>6. EndSession(t)
  BY DEF Commit
<1> QED
  BY <1>1, <1>2, <1>3, <1>4, <1>5, <1>6, TypeEndSession

(* Type correctness: whatever the threads do, every row, log, lock and      *)
(* request has its type, and a stage is only reached by its own request.    *)
THEOREM TypeInvariant == Spec => []TypeOK
<1>1. TypeOK /\ [Next]_vars => TypeOK'
  <2> SUFFICES ASSUME TypeOK, [Next]_vars PROVE TypeOK'
    OBVIOUS
  <2>1. CASE UNCHANGED vars
    BY <2>1 DEF vars, TypeOK, InStage
  <2>2. ASSUME NEW t \in Threads, SaleStep(t) PROVE TypeOK'
    BY <2>2, TypeSale
  <2>3. ASSUME NEW t \in Threads, AccountStep(t) PROVE TypeOK'
    BY <2>3, TypeAccount
  <2>4. ASSUME NEW t \in Threads, Commit(t) PROVE TypeOK'
    BY <2>4, TypeCommit
  <2>5. ASSUME NEW t \in Threads, Abort(t) PROVE TypeOK'
    BY <2>5, TypeEndSession DEF Abort, Rollback, TypeOK, committed
  <2>6. ASSUME NEW c \in Customers, Enroll(c) PROVE TypeOK'
    BY <2>6 DEF Enroll, TypeOK, InStage, sessions, RowOrNone, Account
  <2>7. ASSUME NEW c \in Customers, BecomeDormant(c) PROVE TypeOK'
    BY <2>7 DEF BecomeDormant, TypeOK, InStage, sessions, committed
  <2>8. CASE SwitchProgram
    BY <2>8 DEF SwitchProgram, TypeOK, InStage, sessions, committed
  <2> QED
    BY <2>1, <2>2, <2>3, <2>4, <2>5, <2>6, <2>7, <2>8 DEF Next
<1> QED
  BY <1>1, TypeInit, PTL DEF Spec

-----------------------------------------------------------------------------
(* The credit limit. *)

(* The steps that touch a ledger row, committed or not. *)
LEMMA LedgerSteps ==
  ASSUME [Next]_vars
  PROVE  \/ UNCHANGED <<ledger, ledNew>>
         \/ \E t \in Threads :
              \/ Rollback(t) \/ SaleOwe(t) \/ SaleCreateLedger(t) \/ Commit(t)
              \/ \E c \in Customers, n \in Amounts : Repay(t, c, n)
<1> USE DEF committed, sessions
<1>1. ASSUME NEW t \in Threads, SaleStep(t)
      PROVE  UNCHANGED <<ledger, ledNew>> \/ Rollback(t) \/ SaleOwe(t) \/ SaleCreateLedger(t)
  BY <1>1 DEF SaleStep, SaleBegin, SaleInsert, SaleNoLedger, SaleFlushLedger, SaleEarn,
     SaleEnroll
<1>2. ASSUME NEW t \in Threads, AccountStep(t)
      PROVE  \/ UNCHANGED <<ledger, ledNew>>
             \/ \E c \in Customers, n \in Amounts : Repay(t, c, n)
  BY <1>2 DEF AccountStep, Redeem, AdjustBegin, AdjustItem, Expire
<1>3. ASSUME NEW t \in Threads, Abort(t) PROVE Rollback(t)
  BY <1>3 DEF Abort
<1>4. ASSUME \/ \E c \in Customers : Enroll(c) \/ BecomeDormant(c)
             \/ SwitchProgram
             \/ UNCHANGED vars
      PROVE  UNCHANGED <<ledger, ledNew>>
  BY <1>4 DEF Enroll, BecomeDormant, SwitchProgram, vars
<1> QED
  BY <1>1, <1>2, <1>3, <1>4 DEF Next

LEMMA LimitStep ==
  ASSUME TypeOK, LimitInv, [Next]_vars
  PROVE  LimitInv'
<1>1. CASE UNCHANGED <<ledger, ledNew>>
  BY <1>1 DEF LimitInv, CreditWithinLimit
<1>2. ASSUME NEW t \in Threads, UNCHANGED ledger, NEW new,
             ledNew' = [ledNew EXCEPT ![t] = new],
             new # None => new.balance <= new.limit
      PROVE  LimitInv'
  BY <1>2 DEF TypeOK, LimitInv, CreditWithinLimit
<1>3. ASSUME NEW t \in Threads, Rollback(t) PROVE LimitInv'
  BY <1>2, <1>3 DEF Rollback, EndSession, committed
<1>4. ASSUME NEW t \in Threads, SaleOwe(t) PROVE LimitInv'
  <2>1. CASE ~ Rollback(t)
    BY <1>2, <1>4, <2>1 DEF SaleOwe, WithinLimit, Charged, committed
  <2> QED BY <1>3, <2>1
<1>5. ASSUME NEW t \in Threads, SaleCreateLedger(t) PROVE LimitInv'
  <2>1. CASE ~ Rollback(t)
    BY <1>2, <1>5, <2>1 DEF SaleCreateLedger, WithinLimit, Charged, committed
  <2> QED BY <1>3, <2>1
<1>6. ASSUME NEW t \in Threads, NEW c \in Customers, NEW n \in Amounts, Repay(t, c, n)
      PROVE  LimitInv'
  <2>1. ledger[c] \in Ledger /\ ledger[c].balance <= ledger[c].limit /\ n \in Nat
    BY <1>6, AccountsAssumption DEF Repay, LimitInv, CreditWithinLimit, TypeOK, RowOrNone
  <2>2. Charged(ledger[c], -n).balance <= Charged(ledger[c], -n).limit
    BY <2>1 DEF Charged, Ledger
  <2> QED
    BY <1>2, <1>6, <2>2 DEF Repay, committed
<1>7. ASSUME NEW t \in Threads, Commit(t) PROVE LimitInv'
  <2>1. CreditWithinLimit'
    BY <1>7 DEF Commit, TypeOK, LimitInv, CreditWithinLimit
  <2>2. ledNew' = [ledNew EXCEPT ![t] = None]
    BY <1>7 DEF Commit, EndSession
  <2> QED
    BY <2>1, <2>2 DEF LimitInv, TypeOK
<1> QED
  BY <1>1, <1>3, <1>4, <1>5, <1>6, <1>7, LedgerSteps

(* The credit limit holds of the stored balance, however many sales and     *)
(* repayments race: each writes a value it has compared with the limit.     *)
THEOREM LimitHolds == Spec => []CreditWithinLimit
<1>1. Init => LimitInv
  BY AccountsAssumption DEF Init, LimitInv, CreditWithinLimit
<1>2. TypeOK /\ LimitInv /\ [Next]_vars => LimitInv'
  BY LimitStep
<1>3. LimitInv => CreditWithinLimit
  BY DEF LimitInv
<1> QED
  BY <1>1, <1>2, <1>3, TypeInvariant, PTL DEF Spec

-----------------------------------------------------------------------------
(* The points of an account. *)

LEMMA AccountSteps ==
  ASSUME [Next]_vars
  PROVE  \/ UNCHANGED <<account, accNew, posts, pointsLog>>
         \/ \E c \in Customers : Enroll(c)
         \/ \E t \in Threads :
              \/ Rollback(t) \/ SaleEarn(t) \/ SaleEnroll(t) \/ AdjustItem(t)
              \/ Expire(t) \/ Commit(t)
              \/ \E c \in Customers, n \in Amounts, id \in SaleIds \union {None} :
                     Redeem(t, c, n, id)
<1> USE DEF committed, sessions
<1>1. ASSUME NEW t \in Threads, SaleStep(t)
      PROVE  \/ UNCHANGED <<account, accNew, posts, pointsLog>>
             \/ Rollback(t) \/ SaleEarn(t) \/ SaleEnroll(t)
  BY <1>1 DEF SaleStep, SaleBegin, SaleInsert, SaleOwe, SaleNoLedger, SaleCreateLedger,
     SaleFlushLedger
<1>2. ASSUME NEW t \in Threads, AccountStep(t)
      PROVE  \/ UNCHANGED <<account, accNew, posts, pointsLog>>
             \/ AdjustItem(t) \/ Expire(t)
             \/ \E c \in Customers, n \in Amounts, id \in SaleIds \union {None} :
                    Redeem(t, c, n, id)
  BY <1>2 DEF AccountStep, Repay, AdjustBegin
<1>3. ASSUME NEW t \in Threads, Abort(t) PROVE Rollback(t)
  BY <1>3 DEF Abort
<1>4. ASSUME \/ \E c \in Customers : BecomeDormant(c)
             \/ SwitchProgram
             \/ UNCHANGED vars
      PROVE  UNCHANGED <<account, accNew, posts, pointsLog>>
  BY <1>4 DEF BecomeDormant, SwitchProgram, vars
<1> QED
  BY <1>1, <1>2, <1>3, <1>4 DEF Next

LEMMA PointsStep ==
  ASSUME TypeOK, PointsInv, [Next]_vars
  PROVE  PointsInv'
<1>1. CASE UNCHANGED <<account, accNew>>
  BY <1>1 DEF PointsInv, PointsAgree
<1>2. ASSUME NEW t \in Threads, NEW c \in Customers, NEW base \in Account,
             base.total = base.redeemable, NEW points, NEW type, NEW id,
             Move(t, c, base, points, type, id), UNCHANGED account
      PROVE  PointsInv'
  BY <1>2 DEF Move, TypeOK, PointsInv, PointsAgree
<1>3. ASSUME NEW t \in Threads, Rollback(t) PROVE PointsInv'
  BY <1>3 DEF Rollback, EndSession, committed, NoRows, TypeOK, PointsInv, PointsAgree
<1>4. ASSUME NEW t \in Threads, SaleEarn(t) PROVE PointsInv'
  <2>1. req[t].c \in Customers
    BY <1>4 DEF SaleEarn, TypeOK, InStage, SaleStages
  <2>2. ASSUME account[req[t].c] # None
        PROVE  /\ account[req[t].c] \in Account
               /\ account[req[t].c].total = account[req[t].c].redeemable
    BY <2>1, <2>2 DEF TypeOK, RowOrNone, PointsInv, PointsAgree
  <2>3. UNCHANGED account
    BY <1>4 DEF SaleEarn, committed
  <2> QED BY <1>1, <1>2, <1>4, <2>1, <2>2, <2>3 DEF SaleEarn
<1>5. ASSUME NEW t \in Threads, SaleEnroll(t) PROVE PointsInv'
  <2>1. req[t].c \in Customers
    BY <1>5 DEF SaleEnroll, TypeOK, InStage, SaleStages
  <2>2. CASE ~ Rollback(t)
    <3> DEFINE zero == [total |-> 0, redeemable |-> 0]
    <3>1. zero \in Account /\ zero.total = zero.redeemable
      BY DEF Account
    <3>2. /\ Move(t, req[t].c, zero, req[t].amount * Rate, "EARN", req[t].id)
          /\ UNCHANGED account
      BY <1>5, <2>2 DEF SaleEnroll, committed
    <3> HIDE DEF zero
    <3> QED BY <1>2, <2>1, <3>1, <3>2
  <2> QED BY <1>3, <2>2
<1>6. ASSUME NEW t \in Threads, AdjustItem(t) PROVE PointsInv'
  <2> DEFINE item == Head(req[t].todo)
             row  == SeenAccount(t, item.c)
  <2>1. item.c \in Customers
    <3>1. req[t].todo \in Seq(Item) /\ req[t].todo # <<>>
      BY <1>6 DEF AdjustItem, TypeOK, InStage, Request
    <3>2. item \in Item
      BY <3>1, HeadTailProperties
    <3> QED BY <3>2 DEF Item
  <2>2. ASSUME row # None
        PROVE  row \in Account /\ row.total = row.redeemable
    BY <2>1, <2>2 DEF SeenAccount, TypeOK, RowOrNone, PointsInv, PointsAgree
  <2>3. UNCHANGED account
    BY <1>6 DEF AdjustItem, committed
  <2>4. row = None => UNCHANGED accNew
    BY <1>6 DEF AdjustItem
  <2>5. row # None => Move(t, item.c, row, item.points, "ADJUST", None)
    BY <1>6 DEF AdjustItem
  <2> HIDE DEF item, row
  <2> QED BY <1>1, <1>2, <2>1, <2>2, <2>3, <2>4, <2>5
<1>7. ASSUME NEW t \in Threads, Expire(t) PROVE PointsInv'
  <2>1. \A c \in Expired : Emptied(account[c]).total = Emptied(account[c]).redeemable
    BY DEF Expired, Emptied, PointsInv, PointsAgree, TypeOK, RowOrNone, Account
  <2> QED
    BY <1>7, <2>1 DEF Expire, committed, TypeOK, PointsInv, PointsAgree
<1>8. ASSUME NEW t \in Threads, NEW c \in Customers, NEW n \in Amounts,
             NEW id \in SaleIds \union {None}, Redeem(t, c, n, id)
      PROVE  PointsInv'
  <2>1. account[c] \in Account /\ account[c].total = account[c].redeemable
    BY <1>8 DEF Redeem, TypeOK, RowOrNone, PointsInv, PointsAgree
  <2> QED BY <1>2, <1>8, <2>1 DEF Redeem, committed
<1>9. ASSUME NEW t \in Threads, Commit(t) PROVE PointsInv'
  <2>1. PointsAgree'
    BY <1>9 DEF Commit, TypeOK, PointsInv, PointsAgree
  <2>2. accNew' = [accNew EXCEPT ![t] = NoRows]
    BY <1>9 DEF Commit, EndSession
  <2> QED BY <2>1, <2>2 DEF PointsInv, TypeOK, NoRows
<1>10. ASSUME NEW c \in Customers, Enroll(c) PROVE PointsInv'
  BY <1>10 DEF Enroll, sessions, TypeOK, PointsInv, PointsAgree
<1> QED
  BY <1>1, <1>3, <1>4, <1>5, <1>6, <1>7, <1>8, <1>9, <1>10, AccountSteps

(* The two counters of a loyalty account agree in every reachable state.    *)
THEOREM PointsHold == Spec => []PointsAgree
<1>1. Init => PointsInv
  BY DEF Init, NoRows, PointsInv, PointsAgree
<1>2. TypeOK /\ PointsInv /\ [Next]_vars => PointsInv'
  BY PointsStep
<1>3. PointsInv => PointsAgree
  BY DEF PointsInv
<1> QED
  BY <1>1, <1>2, <1>3, TypeInvariant, PTL DEF Spec

-----------------------------------------------------------------------------
(* A sale is charged and rewarded once. *)

LEMMA ConcatTail ==
  ASSUME NEW S, NEW s1 \in Seq(S), NEW s2 \in Seq(S), NEW s, s = s1 \o s2
  PROVE  /\ Len(s) = Len(s1) + Len(s2)
         /\ Len(s1) <= Len(s)
         /\ \A i \in 1 .. Len(s1) : s[i] = s1[i]
         /\ \A i \in (Len(s1) + 1) .. Len(s) : \E k \in DOMAIN s2 : s[i] = s2[k]
<1>1. Len(s1) \in Nat /\ Len(s2) \in Nat /\ DOMAIN s2 = 1 .. Len(s2)
  OBVIOUS
<1>2. Len(s) = Len(s1) + Len(s2)
  BY ConcatProperties
<1>3. \A i \in 1 .. Len(s1) + Len(s2) :
         s[i] = IF i <= Len(s1) THEN s1[i] ELSE s2[i - Len(s1)]
  BY ConcatProperties
<1>4. ASSUME NEW i \in (Len(s1) + 1) .. Len(s)
      PROVE  \E k \in DOMAIN s2 : s[i] = s2[k]
  <2>1. i - Len(s1) \in DOMAIN s2
    BY <1>1, <1>2
  <2>2. s[i] = s2[i - Len(s1)]
    BY <1>1, <1>2, <1>3
  <2> QED BY <2>1, <2>2
<1>5. \A i \in 1 .. Len(s1) : s[i] = s1[i]
  BY <1>1, <1>3
<1> QED BY <1>1, <1>2, <1>4, <1>5

(* log2 extends log: a new entry of the type is x's, alone, and d's. *)
Grown(log, log2, type, ids, x, d, c) ==
    /\ Len(log[c]) <= Len(log2[c])
    /\ \A i \in 1 .. Len(log[c]) : log2[c][i] = log[c][i]
    /\ \A i \in (Len(log[c]) + 1) .. Len(log2[c]) :
         /\ log2[c][i].txn \in ids \union {None}
         /\ log2[c][i].type = type =>
              /\ log2[c][i].txn = x /\ x \in ids /\ c = d
              /\ Len(log2[c]) = Len(log[c]) + 1

LEMMA OnceGrow ==
  ASSUME NEW log \in [Customers -> Seq(Entry)], NEW log2 \in [Customers -> Seq(Entry)],
         NEW type, NEW ids, NEW ids2, ids \subseteq ids2, OncePerSale(log, type, ids),
         NEW x, x \notin ids, NEW d,
         \A c \in Customers : Grown(log, log2, type, ids2, x, d, c)
  PROVE  OncePerSale(log2, type, ids2)
<1>0. \A a \in Customers : /\ DOMAIN log[a] = 1 .. Len(log[a])
                          /\ DOMAIN log2[a] = 1 .. Len(log2[a])
                          /\ Len(log[a]) \in Nat /\ Len(log2[a]) \in Nat
  OBVIOUS
<1>1. \A a \in Customers : \A k \in 1 .. Len(log2[a]) :
         k \in 1 .. Len(log[a]) \/ k \in (Len(log[a]) + 1) .. Len(log2[a])
  BY <1>0
<1>2. ASSUME NEW a \in Customers, NEW k \in 1 .. Len(log[a])
      PROVE  /\ log2[a][k] = log[a][k] /\ k \in DOMAIN log[a]
             /\ log2[a][k].txn \in ids \union {None}
             /\ log2[a][k].type = type => log2[a][k].txn \in ids
  <2>1. log2[a][k] = log[a][k]
    BY DEF Grown
  <2>2. k \in DOMAIN log[a]
    BY <1>0
  <2> QED BY <2>1, <2>2 DEF OncePerSale
<1>3. ASSUME NEW a \in Customers, NEW k \in DOMAIN log2[a], k \notin 1 .. Len(log[a])
      PROVE  /\ log2[a][k].txn \in ids2 \union {None}
             /\ log2[a][k].type = type =>
                  a = d /\ k = Len(log[a]) + 1 /\ x \in ids2 /\ log2[a][k].txn = x
  <2>1. k \in (Len(log[a]) + 1) .. Len(log2[a])
    BY <1>0, <1>1, <1>3
  <2>2. /\ log2[a][k].txn \in ids2 \union {None}
        /\ log2[a][k].type = type =>
             /\ log2[a][k].txn = x /\ x \in ids2 /\ a = d
             /\ Len(log2[a]) = Len(log[a]) + 1
    BY <2>1 DEF Grown
  <2> QED BY <1>0, <2>1, <2>2
<1>4. ASSUME NEW c \in Customers, NEW i \in DOMAIN log2[c]
      PROVE  /\ log2[c][i].txn \in ids2 \union {None}
             /\ log2[c][i].type = type => log2[c][i].txn \in ids2
  BY <1>2, <1>3, <1>4
<1>5. ASSUME NEW c \in Customers, NEW e \in Customers,
             NEW i \in DOMAIN log2[c], NEW j \in DOMAIN log2[e],
             log2[c][i].type = type, log2[e][j].type = type,
             log2[e][j].txn = log2[c][i].txn
      PROVE  e = c /\ j = i
  <2>1. CASE i \in 1 .. Len(log[c]) /\ j \in 1 .. Len(log[e])
    <3>1. /\ log2[c][i] = log[c][i] /\ i \in DOMAIN log[c]
          /\ log2[e][j] = log[e][j] /\ j \in DOMAIN log[e]
      BY <1>2, <2>1
    <3> QED BY <1>5, <3>1 DEF OncePerSale
  <2>2. CASE i \notin 1 .. Len(log[c]) /\ j \notin 1 .. Len(log[e])
    BY <1>3, <1>5, <2>2
  <2>3. CASE i \in 1 .. Len(log[c]) /\ j \notin 1 .. Len(log[e])
    BY <1>2, <1>3, <1>5, <2>3
  <2>4. CASE i \notin 1 .. Len(log[c]) /\ j \in 1 .. Len(log[e])
    BY <1>2, <1>3, <1>5, <2>4
  <2> QED BY <2>1, <2>2, <2>3, <2>4
<1> QED BY <1>4, <1>5 DEF OncePerSale

(* What a session's entries are after one move. *)
LEMMA MovePosts ==
  ASSUME TypeOK, NEW t \in Threads, NEW c \in Customers, NEW base, NEW points, NEW type, NEW id,
         Move(t, c, base, points, type, id)
  PROVE  /\ posts'[t][c] = Append(posts[t][c], [type |-> type, amount |-> points,
                                               after |-> base.total + points, txn |-> id])
         /\ \A d \in Customers \ {c} : posts'[t][d] = posts[t][d]
         /\ \A u \in Threads \ {t} : posts'[u] = posts[u]
  BY DEF Move, TypeOK

(* A step of one thread that commits nothing and begins to charge nothing. *)
LEMMA OnceThread ==
  ASSUME TypeOK, OnceInv, NEW t \in Threads,
         UNCHANGED <<creditLog, pointsLog, sold>>,
         \A u \in Threads \ {t} :
            req'[u] = req[u] /\ pc'[u] = pc[u] /\ posts'[u] = posts[u],
         ChargesOneSale(t)',
         Charging(t)' => Charging(t) /\ req'[t].id = req[t].id
  PROVE  OnceInv'
<1>1. EachSaleOnce'
  BY DEF OnceInv, EachSaleOnce, OncePerSale
<1>2. ChargesAlone'
  BY DEF OnceInv, ChargesAlone, Charging
<1>3. ASSUME NEW u \in Threads \ {t} PROVE ChargesOneSale(u)'
  BY <1>3 DEF OnceInv, ChargesOneSale, Charging
<1> QED BY <1>1, <1>2, <1>3 DEF OnceInv

LEMMA OnceEnd ==
  ASSUME TypeOK, NEW t \in Threads, EndSession(t)
  PROVE  /\ \A u \in Threads \ {t} :
              req'[u] = req[u] /\ pc'[u] = pc[u] /\ posts'[u] = posts[u]
         /\ ~ Charging(t)'
         /\ ChargesOneSale(t)'
<1>1. req'[t] = NoRequest /\ pc'[t] = "idle" /\ posts'[t] = NoPosts
  BY DEF EndSession, TypeOK
<1>2. \A c \in Customers : DOMAIN posts'[t][c] = {}
  BY <1>1 DEF NoPosts
<1>3. ~ Charging(t)'
  BY <1>1 DEF Charging, NoRequest, Asks
<1>4. ChargesOneSale(t)'
  BY <1>1, <1>2 DEF ChargesOneSale
<1> QED
  BY <1>3, <1>4 DEF EndSession, TypeOK

LEMMA OnceRollback ==
  ASSUME TypeOK, OnceInv, NEW t \in Threads, Rollback(t)
  PROVE  OnceInv'
  BY OnceEnd, OnceThread DEF Rollback, committed

LEMMA OneEntry ==
  ASSUME NEW e, NEW i \in DOMAIN <<e>>
  PROVE  i = 1 /\ Len(<<e>>) = 1 /\ <<e>>[i] = e
  OBVIOUS

(* The step after which the session has its sale's one entry. *)
LEMMA OnceReward ==
  ASSUME TypeOK, OnceInv, NEW t \in Threads, pc[t] \in {"points", "enroll"},
         NEW base, NEW points,
         Move(t, req[t].c, base, points, "EARN", req[t].id),
         pc' = [pc EXCEPT ![t] = "commit"],
         UNCHANGED <<creditLog, pointsLog, sold, req>>
  PROVE  OnceInv'
<1> DEFINE c == req[t].c
           e == [type |-> "EARN", amount |-> points, after |-> base.total + points,
                 txn |-> req[t].id]
<1>1. /\ req[t].op = "sale" /\ c \in Customers /\ posts[t] = NoPosts
      /\ Charging(t) /\ Charging(t)' /\ pc'[t] = "commit"
  BY DEF TypeOK, InStage, SaleStages, OnceInv, ChargesOneSale, Charging
<1>2. posts'[t][c] = <<e>>
  BY <1>1, MovePosts DEF NoPosts
<1>3. \A d \in Customers \ {c} : posts'[t][d] = <<>>
  BY <1>1, MovePosts DEF NoPosts
<1>4. ChargesOneSale(t)'
  <2>1. ASSUME NEW d \in Customers, NEW i \in DOMAIN posts'[t][d]
        PROVE  /\ d = c /\ i = 1 /\ Len(posts'[t][d]) = 1
               /\ posts'[t][d][i].txn = req'[t].id /\ posts'[t][d][i].type = "EARN"
    <3>1. d = c
      BY <1>3, <2>1
    <3>2. e.txn = req'[t].id /\ e.type = "EARN"
      OBVIOUS
    <3> HIDE DEF e
    <3>3. i \in DOMAIN <<e>>
      BY <1>2, <2>1, <3>1
    <3>4. i = 1 /\ Len(<<e>>) = 1 /\ <<e>>[i] = e
      BY <3>3, OneEntry
    <3> HIDE DEF c
    <3> QED BY <1>2, <3>1, <3>2, <3>4
  <2> QED BY <1>1, <2>1 DEF ChargesOneSale, SaleStages
<1>5. \A u \in Threads \ {t} :
         req'[u] = req[u] /\ pc'[u] = pc[u] /\ posts'[u] = posts[u]
  BY <1>1, MovePosts DEF TypeOK
<1> QED
  BY <1>1, <1>4, <1>5, OnceThread

(* A step before the session has any entry. *)
LEMMA OnceQuiet ==
  ASSUME TypeOK, OnceInv, NEW t \in Threads, pc[t] \in SaleStages \union {"idle"},
         UNCHANGED <<creditLog, pointsLog, sold, posts>>,
         \A u \in Threads \ {t} : req'[u] = req[u] /\ pc'[u] = pc[u],
         Charging(t)' => Charging(t) /\ req'[t].id = req[t].id
  PROVE  OnceInv'
<1>1. posts'[t] = NoPosts
  BY DEF OnceInv, ChargesOneSale
<1>2. \A c \in Customers : DOMAIN posts'[t][c] = {}
  BY <1>1 DEF NoPosts
<1>3. ChargesOneSale(t)'
  BY <1>1, <1>2 DEF ChargesOneSale
<1> QED BY <1>3, OnceThread

(* The session's entries reward no sale, and those that name one name a *)
(* committed sale.                                                      *)
NoReward(t) ==
    \A c \in Customers : \A i \in DOMAIN posts[t][c] :
        posts[t][c][i].type # "EARN" /\ posts[t][c][i].txn \in sold \union {None}

(* A step after which the session has entries, none a reward. *)
LEMMA OnceUnsold ==
  ASSUME TypeOK, OnceInv, NEW t \in Threads,
         UNCHANGED <<creditLog, pointsLog, sold>>,
         \A u \in Threads \ {t} :
            req'[u] = req[u] /\ pc'[u] = pc[u] /\ posts'[u] = posts[u],
         req'[t].op # "sale", pc'[t] \in {"adjust", "commit"},
         NoReward(t)'
  PROVE  OnceInv'
<1>1. ~ Charging(t)'
  BY DEF Charging
<1>2. ChargesOneSale(t)'
  BY DEF NoReward, ChargesOneSale, SaleStages
<1> QED BY <1>1, <1>2, OnceThread

LEMMA OnceMoveUnsold ==
  ASSUME TypeOK, NEW t \in Threads, NEW c \in Customers, NEW base, NEW points,
         NEW type, type # "EARN", NEW id \in sold \union {None},
         Move(t, c, base, points, type, id), NoReward(t), UNCHANGED sold
  PROVE  NoReward(t)'
<1> DEFINE e == [type |-> type, amount |-> points, after |-> base.total + points, txn |-> id]
<1>1. e.type # "EARN" /\ e.txn \in sold \union {None}
  OBVIOUS
<1>2. posts[t][c] \in Seq(Entry)
  BY DEF TypeOK
<1>3. posts'[t][c] = Append(posts[t][c], e) /\ \A d \in Customers \ {c} : posts'[t][d] = posts[t][d]
  BY MovePosts
<1>4. \A i \in DOMAIN posts[t][c] :
         posts[t][c][i].type # "EARN" /\ posts[t][c][i].txn \in sold \union {None}
  BY DEF NoReward
<1> HIDE DEF e
<1>5. \A i \in DOMAIN Append(posts[t][c], e) :
         \/ i \in DOMAIN posts[t][c] /\ Append(posts[t][c], e)[i] = posts[t][c][i]
         \/ Append(posts[t][c], e)[i] = e
  BY <1>2
<1>6. \A i \in DOMAIN Append(posts[t][c], e) :
         /\ Append(posts[t][c], e)[i].type # "EARN"
         /\ Append(posts[t][c], e)[i].txn \in sold \union {None}
  BY <1>1, <1>4, <1>5
<1> QED BY <1>3, <1>6 DEF NoReward

LEMMA OnceSale ==
  ASSUME TypeOK, OnceInv, NEW t \in Threads, SaleStep(t)
  PROVE  OnceInv'
<1> USE DEF committed
<1>1. ASSUME NEW c \in Customers, NEW id \in SaleIds, NEW total \in Totals, NEW credit \in BOOLEAN,
             SaleBegin(t, c, id, total, credit)
      PROVE  OnceInv'
  <2>1. ~ Charging(t)' /\ \A u \in Threads \ {t} : req'[u] = req[u] /\ pc'[u] = pc[u]
    BY <1>1 DEF SaleBegin, Charging, TypeOK
  <2> QED BY <1>1, <2>1, OnceQuiet DEF SaleBegin
<1>2. CASE Rollback(t)
  BY <1>2, OnceRollback
<1>3. CASE SaleInsert(t) /\ ~ Rollback(t)
  <2>1. /\ req[t].op = "sale" /\ ~ Charging(t) /\ Charging(t)' /\ posts[t] = NoPosts
        /\ \A u \in Threads \ {t} : pc'[u] = pc[u]
        /\ UNCHANGED <<creditLog, pointsLog, sold, req, posts>>
        /\ pc'[t] \in {"ledger", "points"}
    BY <1>3 DEF SaleInsert, Charging, TypeOK, InStage, SaleStages, OnceInv, ChargesOneSale
  <2>2. req[t].id \notin sold /\ \A u \in Threads : Charging(u) => req[u].id # req[t].id
    BY <1>3 DEF SaleInsert, Inserted, Charging
  <2>3. EachSaleOnce'
    BY <2>1 DEF OnceInv, EachSaleOnce, OncePerSale
  <2>4. ChargesAlone'
    BY <2>1, <2>2 DEF OnceInv, ChargesAlone, Charging
  <2>5. \A u \in Threads \ {t} : ChargesOneSale(u)'
    BY <2>1 DEF OnceInv, ChargesOneSale, Charging
  <2>6. ChargesOneSale(t)'
    <3>1. \A c \in Customers : DOMAIN posts'[t][c] = {}
      BY <2>1 DEF NoPosts
    <3> QED BY <2>1, <3>1 DEF ChargesOneSale
  <2> QED BY <2>3, <2>4, <2>5, <2>6 DEF OnceInv
<1>4. ASSUME UNCHANGED <<creditLog, pointsLog, sold, req, posts>>,
             NEW stage \in Stages, pc' = [pc EXCEPT ![t] = stage],
             pc[t] \in SaleStages, pc[t] # "insert"
      PROVE  OnceInv'
  <2>1. Charging(t) /\ \A u \in Threads \ {t} : pc'[u] = pc[u]
    BY <1>4 DEF Charging, TypeOK, InStage
  <2> QED BY <1>4, <2>1, OnceQuiet
<1>5. CASE /\ SaleOwe(t) \/ SaleNoLedger(t) \/ SaleCreateLedger(t) \/ SaleFlushLedger(t)
           /\ ~ Rollback(t)
  BY <1>4, <1>5 DEF SaleOwe, SaleNoLedger, SaleCreateLedger, SaleFlushLedger, Stages, SaleStages
<1>6. CASE SaleEarn(t)
  <2>1. CASE UNCHANGED posts
    BY <1>4, <1>6, <2>1 DEF SaleEarn, Stages, SaleStages
  <2>2. CASE ~ UNCHANGED posts
    BY <1>6, <2>2, OnceReward DEF SaleEarn
  <2> QED BY <2>1, <2>2
<1>7. CASE SaleEnroll(t) /\ ~ Rollback(t)
  BY <1>7, OnceReward DEF SaleEnroll
<1> QED
  BY <1>1, <1>2, <1>3, <1>5, <1>6, <1>7 DEF SaleStep

LEMMA OnceAccount ==
  ASSUME TypeOK, OnceInv, NEW t \in Threads, AccountStep(t)
  PROVE  OnceInv'
<1> USE DEF committed
<1>1. ASSUME NEW c \in Customers, NEW n \in Amounts, Repay(t, c, n)
      PROVE  OnceInv'
  <2>1. ~ Charging(t)' /\ \A u \in Threads \ {t} : req'[u] = req[u] /\ pc'[u] = pc[u]
    BY <1>1 DEF Repay, Charging, Asks, TypeOK
  <2> QED BY <1>1, <2>1, OnceQuiet DEF Repay
<1>2. ASSUME NEW c \in Customers, NEW n \in Amounts, NEW id \in SaleIds \union {None},
             Redeem(t, c, n, id)
      PROVE  OnceInv'
  <2>1. posts[t] = NoPosts
    BY <1>2 DEF Redeem, OnceInv, ChargesOneSale
  <2>2. \A d \in Customers : DOMAIN posts[t][d] = {}
    BY <2>1 DEF NoPosts
  <2>3. NoReward(t)
    BY <2>2 DEF NoReward
  <2>4. /\ req'[t].op = "redeem" /\ pc'[t] = "commit"
        /\ \A u \in Threads \ {t} : req'[u] = req[u] /\ pc'[u] = pc[u]
    BY <1>2 DEF Redeem, Asks, TypeOK
  <2>5. \A u \in Threads \ {t} : posts'[u] = posts[u]
    BY <1>2, MovePosts DEF Redeem
  <2>6. UNCHANGED <<creditLog, pointsLog, sold>> /\ id \in sold \union {None}
    BY <1>2 DEF Redeem
  <2>7. NoReward(t)'
    BY <1>2, <2>3, <2>6, OnceMoveUnsold DEF Redeem
  <2> QED BY <2>4, <2>5, <2>6, <2>7, OnceUnsold
<1>3. ASSUME NEW items \in Batches, AdjustBegin(t, items)
      PROVE  OnceInv'
  <2>1. ~ Charging(t)' /\ \A u \in Threads \ {t} : req'[u] = req[u] /\ pc'[u] = pc[u]
    BY <1>3 DEF AdjustBegin, Charging, Asks, TypeOK
  <2> QED BY <1>3, <2>1, OnceQuiet DEF AdjustBegin
<1>4. CASE AdjustItem(t)
  <2> DEFINE item == Head(req[t].todo)
  <2>1. item.c \in Customers
    <3>1. req[t].todo \in Seq(Item) /\ req[t].todo # <<>>
      BY <1>4 DEF AdjustItem, TypeOK, InStage, Request
    <3>2. item \in Item
      BY <3>1, HeadTailProperties
    <3> QED BY <3>2 DEF Item
  <2>2. req[t].op = "adjust" /\ req[t] \in Request
    BY <1>4 DEF AdjustItem, TypeOK, InStage
  <2>3. NoReward(t)
    BY <2>2 DEF NoReward, OnceInv, ChargesOneSale, Charging
  <2>4. /\ req'[t].op = "adjust" /\ pc'[t] \in {"adjust", "commit"}
        /\ \A u \in Threads \ {t} : req'[u] = req[u] /\ pc'[u] = pc[u]
    BY <1>4, <2>2 DEF AdjustItem, TypeOK, Request
  <2>5. UNCHANGED <<creditLog, pointsLog, sold>>
    BY <1>4 DEF AdjustItem
  <2>6. CASE UNCHANGED posts
    <3>1. NoReward(t)'
      BY <2>3, <2>5, <2>6 DEF NoReward
    <3> QED BY <2>4, <2>5, <2>6, <3>1, OnceUnsold
  <2>7. CASE ~ UNCHANGED posts
    <3>1. Move(t, item.c, SeenAccount(t, item.c), item.points, "ADJUST", None)
      BY <1>4, <2>7 DEF AdjustItem
    <3> HIDE DEF item
    <3>2. NoReward(t)'
      BY <2>1, <2>3, <2>5, <3>1, OnceMoveUnsold
    <3>3. \A u \in Threads \ {t} : posts'[u] = posts[u]
      BY <2>1, <3>1, MovePosts
    <3> QED BY <2>4, <2>5, <3>2, <3>3, OnceUnsold
  <2> QED BY <2>6, <2>7
<1>5. CASE Expire(t)
  <2>1. /\ req'[t].op = "expire" /\ pc'[t] = "commit"
        /\ \A u \in Threads \ {t} :
              req'[u] = req[u] /\ pc'[u] = pc[u] /\ posts'[u] = posts[u]
        /\ UNCHANGED <<creditLog, pointsLog, sold>>
    BY <1>5 DEF Expire, Asks, TypeOK
  <2> DEFINE e(c) == [type |-> "EXPIRE", amount |-> -account[c].redeemable,
                      after |-> Emptied(account[c]).total, txn |-> None]
  <2>2. \A c \in Customers : posts'[t][c] = IF c \in Expired THEN <<e(c)>> ELSE <<>>
    BY <1>5 DEF Expire, TypeOK
  <2>3. \A c \in Customers : e(c).txn = None /\ e(c).type # "EARN"
    OBVIOUS
  <2> HIDE DEF e
  <2>4. ASSUME NEW c \in Customers, NEW i \in DOMAIN posts'[t][c]
        PROVE  posts'[t][c][i].txn = None /\ posts'[t][c][i].type # "EARN"
    <3>1. CASE c \notin Expired
      <4>1. posts'[t][c] = <<>>
        BY <2>2, <3>1
      <4> QED BY <2>4, <4>1
    <3>2. CASE c \in Expired
      <4>1. posts'[t][c] = <<e(c)>>
        BY <2>2, <3>2
      <4>2. <<e(c)>>[i] = e(c)
        BY <2>4, <4>1, OneEntry
      <4> QED BY <2>3, <4>1, <4>2
    <3> QED BY <3>1, <3>2
  <2>5. NoReward(t)'
    BY <2>4 DEF NoReward
  <2> QED BY <2>1, <2>5, OnceUnsold
<1> QED
  BY <1>1, <1>2, <1>3, <1>4, <1>5 DEF AccountStep

LEMMA OnceCommit ==
  ASSUME TypeOK, OnceInv, NEW t \in Threads, Commit(t)
  PROVE  OnceInv'
<1> DEFINE x == IF req[t].op = "sale" THEN req[t].id ELSE None
<1>1. /\ TypeOK' /\ sold \subseteq sold' /\ x \notin sold
      /\ \A i \in SaleIds : i \in sold' <=> i \in sold \/ i = x
      /\ req[t].op = "sale" => x \in sold'
  <2>1. TypeOK' /\ sold \subseteq SaleIds
    BY TypeCommit DEF TypeOK
  <2>2. req[t].op = "sale" => Charging(t) /\ req[t].id \in SaleIds
    BY DEF Commit, Charging, TypeOK, InStage
  <2>3. req[t].op = "sale" => req[t].id \notin sold
    BY <2>2 DEF OnceInv, ChargesAlone
  <2> QED BY <2>1, <2>2, <2>3, AccountsAssumption DEF Commit
<1>2. OncePerSale(pointsLog', "EARN", sold')
  <2> DEFINE d == req[t].c
  <2>1. /\ pointsLog \in [Customers -> Seq(Entry)] /\ pointsLog' \in [Customers -> Seq(Entry)]
        /\ posts[t] \in [Customers -> Seq(Entry)]
    BY <1>1 DEF TypeOK
  <2>2. OncePerSale(pointsLog, "EARN", sold)
    BY DEF OnceInv, EachSaleOnce
  <2>3. ASSUME NEW c \in Customers
        PROVE  Grown(pointsLog, pointsLog', "EARN", sold', x, d, c)
    <3> DEFINE old == pointsLog[c]
               new == pointsLog'[c]
               add == posts[t][c]
    <3>1. new = old \o add
      BY DEF Commit
    <3>2. old \in Seq(Entry) /\ add \in Seq(Entry)
      BY <2>1
    <3>3. /\ Len(new) = Len(old) + Len(add)
          /\ Len(old) <= Len(new)
          /\ \A i \in 1 .. Len(old) : new[i] = old[i]
          /\ \A i \in (Len(old) + 1) .. Len(new) : \E k \in DOMAIN add : new[i] = add[k]
      <4> HIDE DEF old, new, add
      <4> QED BY <3>1, <3>2, ConcatTail
    <3>4. ASSUME NEW i \in (Len(pointsLog[c]) + 1) .. Len(pointsLog'[c])
          PROVE  /\ pointsLog'[c][i].txn \in sold' \union {None}
                 /\ pointsLog'[c][i].type = "EARN" =>
                      /\ pointsLog'[c][i].txn = x /\ x \in sold' /\ c = d
                      /\ Len(pointsLog'[c]) = Len(pointsLog[c]) + 1
      <4>1. PICK k \in DOMAIN posts[t][c] : pointsLog'[c][i] = posts[t][c][k]
        BY <3>3
      <4>2. CASE posts[t][c][k].type = "EARN"
        <5>1. /\ Charging(t) /\ posts[t][c][k].txn = req[t].id
              /\ c = req[t].c /\ Len(posts[t][c]) = 1
          BY <4>2 DEF OnceInv, ChargesOneSale
        <5> QED BY <1>1, <3>3, <4>1, <5>1 DEF Charging
      <4>3. CASE posts[t][c][k].type # "EARN"
        <5>1. posts[t][c][k].txn \in sold \union {None}
          BY <4>3 DEF OnceInv, ChargesOneSale
        <5> QED BY <1>1, <4>1, <4>3, <5>1
      <4> QED BY <4>2, <4>3
    <3> HIDE DEF x, d
    <3> QED BY <3>3, <3>4 DEF Grown
  <2> HIDE DEF x, d
  <2> QED BY <1>1, <2>1, <2>2, <2>3, OnceGrow
<1>3. OncePerSale(creditLog', "CREDIT_SALE", sold')
  <2> DEFINE d == req[t].c
  <2>1. creditLog \in [Customers -> Seq(Entry)] /\ creditLog' \in [Customers -> Seq(Entry)]
    BY <1>1 DEF TypeOK
  <2>2. OncePerSale(creditLog, "CREDIT_SALE", sold)
    BY DEF OnceInv, EachSaleOnce
  <2>3. CASE ledNew[t] = None
    <3>1. creditLog' = creditLog
      BY <2>3 DEF Commit
    <3> QED BY <1>1, <2>2, <3>1 DEF OncePerSale
  <2>4. CASE ledNew[t] # None
    <3>1. req[t].op \in {"sale", "repay"} /\ d \in Customers
      BY <2>4 DEF TypeOK, InStage
    <3>2. /\ CreditEntry(t).txn = x
          /\ CreditEntry(t).type = "CREDIT_SALE" => req[t].op = "sale"
      BY <3>1 DEF CreditEntry
    <3>3. creditLog' = [creditLog EXCEPT ![d] = Append(creditLog[d], CreditEntry(t))]
      BY <2>4 DEF Commit
    <3>4. req[t].op # "sale" => x = None
      OBVIOUS
    <3> HIDE DEF x, d
    <3>5. ASSUME NEW c \in Customers
          PROVE  Grown(creditLog, creditLog', "CREDIT_SALE", sold', x, d, c)
      <4>1. CASE c # d
        <5>1. creditLog'[c] = creditLog[c] /\ Len(creditLog[c]) \in Nat
          BY <2>1, <3>1, <3>3, <4>1
        <5> QED BY <5>1 DEF Grown
      <4>2. CASE c = d
        <5>1. creditLog[c] \in Seq(Entry) /\ creditLog'[c] = Append(creditLog[c], CreditEntry(t))
          BY <2>1, <3>1, <3>3, <4>2
        <5>2. /\ Len(creditLog'[c]) = Len(creditLog[c]) + 1 /\ Len(creditLog[c]) \in Nat
              /\ \A i \in 1 .. Len(creditLog[c]) : creditLog'[c][i] = creditLog[c][i]
              /\ creditLog'[c][Len(creditLog[c]) + 1] = CreditEntry(t)
          BY <5>1
        <5> QED BY <1>1, <3>2, <3>4, <4>2, <5>2 DEF Grown
      <4> QED BY <4>1, <4>2
    <3> QED BY <1>1, <2>1, <2>2, <3>5, OnceGrow
  <2> QED BY <2>3, <2>4
<1>4. EndSession(t)
  BY DEF Commit
<1>5. ~ Charging(t)' /\ ChargesOneSale(t)'
  BY <1>4, OnceEnd
<1>6. \A u \in Threads \ {t} : req'[u] = req[u] /\ pc'[u] = pc[u] /\ posts'[u] = posts[u]
  BY <1>4, OnceEnd
<1>7. ChargesAlone'
  <2>1. ASSUME NEW u \in Threads \ {t}, Charging(u)
        PROVE  req[u].id \notin sold'
    <3>1. req[u].id \in SaleIds /\ req[u].id \notin sold
      BY <2>1 DEF OnceInv, ChargesAlone, Charging, TypeOK, InStage
    <3>2. req[u].id # x
      <4>1. CASE req[t].op = "sale"
        <5>1. Charging(t)
          BY <4>1 DEF Commit, Charging
        <5> QED BY <2>1, <4>1, <5>1 DEF OnceInv, ChargesAlone
      <4>2. CASE req[t].op # "sale"
        BY <3>1, <4>2, AccountsAssumption
      <4> QED BY <4>1, <4>2
    <3> QED BY <1>1, <3>1, <3>2
  <2>2. \A u \in Threads : Charging(u)' => u # t /\ Charging(u)
    BY <1>5, <1>6 DEF Charging
  <2> QED BY <1>6, <2>1, <2>2 DEF OnceInv, ChargesAlone
<1>8. \A u \in Threads \ {t} : ChargesOneSale(u)'
  BY <1>1, <1>6 DEF OnceInv, ChargesOneSale, Charging
<1> QED BY <1>2, <1>3, <1>5, <1>7, <1>8 DEF OnceInv, EachSaleOnce

LEMMA OnceInductive == Spec => []OnceInv
<1>1. Init => OnceInv
  <2> SUFFICES ASSUME Init PROVE OnceInv
    OBVIOUS
  <2>1. \A c \in Customers : DOMAIN creditLog[c] = {} /\ DOMAIN pointsLog[c] = {}
    BY DEF Init, NoPosts
  <2>2. \A t \in Threads : /\ ~ Charging(t) /\ posts[t] = NoPosts
                            /\ \A c \in Customers : DOMAIN posts[t][c] = {}
    BY DEF Init, NoPosts, NoRequest, Asks, Charging
  <2> QED
    BY <2>1, <2>2 DEF OnceInv, EachSaleOnce, OncePerSale, ChargesAlone, ChargesOneSale
<1>2. TypeOK /\ OnceInv /\ [Next]_vars => OnceInv'
  <2> SUFFICES ASSUME TypeOK, OnceInv, [Next]_vars PROVE OnceInv'
    OBVIOUS
  <2>1. CASE UNCHANGED <<creditLog, pointsLog, sold, req, pc, posts>>
    BY <2>1 DEF OnceInv, EachSaleOnce, OncePerSale, ChargesAlone, ChargesOneSale, Charging
  <2>2. ASSUME NEW t \in Threads, SaleStep(t) PROVE OnceInv'
    BY <2>2, OnceSale
  <2>3. ASSUME NEW t \in Threads, AccountStep(t) PROVE OnceInv'
    BY <2>3, OnceAccount
  <2>4. ASSUME NEW t \in Threads, Commit(t) PROVE OnceInv'
    BY <2>4, OnceCommit
  <2>5. ASSUME NEW t \in Threads, Abort(t) PROVE OnceInv'
    BY <2>5, OnceRollback DEF Abort
  <2>6. ASSUME \/ \E c \in Customers : Enroll(c) \/ BecomeDormant(c)
               \/ SwitchProgram
               \/ UNCHANGED vars
        PROVE  UNCHANGED <<creditLog, pointsLog, sold, req, pc, posts>>
    BY <2>6 DEF Enroll, BecomeDormant, SwitchProgram, vars, sessions, committed
  <2> QED
    BY <2>1, <2>2, <2>3, <2>4, <2>5, <2>6 DEF Next
<1> QED
  BY <1>1, <1>2, TypeInvariant, PTL DEF Spec

(* However often a sale is retried, on whatever threads, it is charged to   *)
(* one customer once and rewarded once, and only if it is committed; the    *)
(* redemptions that name a sale change nothing about that.                  *)
THEOREM ExactlyOnce == Spec => []EachSaleOnce
<1>1. OnceInv => EachSaleOnce
  BY DEF OnceInv
<1> QED
  BY <1>1, OnceInductive, PTL

-----------------------------------------------------------------------------
(* A statement's newest entry shows the stored balance. *)

LEMMA OnlyCommits ==
  ASSUME [Next]_vars
  PROVE  /\ UNCHANGED <<ledger, creditLog>> \/ \E t \in Threads : Commit(t)
         /\ \/ UNCHANGED <<account, pointsLog>>
            \/ \E t \in Threads : Commit(t)
            \/ \E c \in Customers : Enroll(c)
<1> USE DEF committed, sessions
<1>1. ASSUME NEW t \in Threads, SaleStep(t)
      PROVE  UNCHANGED committed
  BY <1>1 DEF SaleStep, SaleBegin, SaleInsert, SaleOwe, SaleNoLedger, SaleCreateLedger,
     SaleFlushLedger, SaleEarn, SaleEnroll, Rollback
<1>2. ASSUME NEW t \in Threads, AccountStep(t)
      PROVE  UNCHANGED committed
  BY <1>2 DEF AccountStep, Repay, Redeem, AdjustBegin, AdjustItem, Expire
<1>3. ASSUME NEW t \in Threads, Abort(t) PROVE UNCHANGED committed
  BY <1>3 DEF Abort, Rollback
<1>4. ASSUME \/ \E c \in Customers : BecomeDormant(c)
             \/ SwitchProgram
             \/ UNCHANGED vars
      PROVE  UNCHANGED committed
  BY <1>4 DEF BecomeDormant, SwitchProgram, vars
<1>5. ASSUME NEW c \in Customers, Enroll(c) PROVE UNCHANGED <<ledger, creditLog>>
  BY <1>5 DEF Enroll
<1> QED
  BY <1>1, <1>2, <1>3, <1>4, <1>5 DEF Next

LEMMA AppendLast ==
  ASSUME NEW S, NEW s \in Seq(S), NEW e \in S
  PROVE  Append(s, e) # <<>> /\ Append(s, e)[Len(Append(s, e))] = e
  BY AppendProperties

LEMMA ConcatLast ==
  ASSUME NEW S, NEW s1 \in Seq(S), NEW s2 \in Seq(S), s2 # <<>>, NEW s, s = s1 \o s2
  PROVE  s # <<>> /\ s[Len(s)] = s2[Len(s2)]
<1>1. Len(s1) \in Nat /\ Len(s2) \in Nat /\ Len(s2) # 0
  BY EmptySeq
<1>2. Len(s) = Len(s1) + Len(s2)
  BY ConcatProperties
<1>3. s[Len(s)] = s2[Len(s) - Len(s1)]
  BY <1>1, <1>2, ConcatProperties
<1>4. s # <<>>
  BY <1>1, <1>2
<1> QED BY <1>1, <1>2, <1>3, <1>4

LEMMA MoveShows ==
  ASSUME TypeOK, NEW t \in Threads, SessionShows(t),
         NEW c \in Customers, NEW base \in Account,
         NEW points \in Int, NEW type \in {"EARN", "REDEEM", "ADJUST"},
         NEW id \in SaleIds \union {None}, Move(t, c, base, points, type, id)
  PROVE  /\ SessionShows(t)'
         /\ \A u \in Threads \ {t} : accNew'[u] = accNew[u] /\ posts'[u] = posts[u]
<1> DEFINE a == [total |-> base.total + points, redeemable |-> base.redeemable + points]
           e == [type |-> type, amount |-> points, after |-> base.total + points, txn |-> id]
<1>1. a \in Account /\ a # None /\ e \in Entry /\ e.after = a.total
  BY AccountsAssumption DEF Account, Entry
<1>2. posts[t][c] \in Seq(Entry)
  BY DEF TypeOK
<1>3. accNew' = [accNew EXCEPT ![t][c] = a]
  BY DEF Move
<1>4. posts'[t][c] = Append(posts[t][c], e)
  BY MovePosts
<1>5. /\ \A d \in Customers \ {c} : posts'[t][d] = posts[t][d]
      /\ \A u \in Threads \ {t} : posts'[u] = posts[u]
  BY MovePosts
<1> HIDE DEF a, e
<1>6. /\ accNew'[t][c] = a
      /\ \A d \in Customers \ {c} : accNew'[t][d] = accNew[t][d]
      /\ \A u \in Threads \ {t} : accNew'[u] = accNew[u]
  BY <1>3 DEF TypeOK
<1>7. posts'[t][c] # <<>> /\ LastIs(posts'[t][c], a.total)
  BY <1>1, <1>2, <1>4, AppendLast DEF LastIs
<1> QED BY <1>1, <1>5, <1>6, <1>7 DEF SessionShows

LEMMA LastCommit ==
  ASSUME TypeOK, LastInv, NEW t \in Threads, Commit(t)
  PROVE  LastEntryIsBalance'
<1>1. ASSUME NEW c \in Customers PROVE CreditShows(c)'
  <2>1. CASE ledNew[t] = None \/ c # req[t].c
    <3>1. UNCHANGED <<ledger[c], creditLog[c]>>
      BY <2>1 DEF Commit, TypeOK
    <3> QED BY <3>1 DEF LastInv, LastEntryIsBalance, CreditShows
  <2>2. CASE ledNew[t] # None /\ c = req[t].c
    <3>1. ledger'[c] = ledNew[t] /\ creditLog'[c] = Append(creditLog[c], CreditEntry(t))
      BY <2>2 DEF Commit, TypeOK
    <3>2. req[t].op \in {"sale", "repay"} /\ ledNew[t] \in Ledger
      BY <2>2 DEF TypeOK, InStage, RowOrNone
    <3>3. CreditEntry(t) \in Entry /\ CreditEntry(t).after = ledNew[t].balance
      BY <3>2 DEF CreditEntry, Entry, Ledger, TypeOK, InStage, Request
    <3>4. creditLog[c] \in Seq(Entry)
      BY DEF TypeOK
    <3> QED BY <2>2, <3>1, <3>3, <3>4, AppendLast DEF CreditShows, LastIs
  <2> QED BY <2>1, <2>2
<1>2. ASSUME NEW c \in Customers PROVE PointsShow(c)'
  <2>1. posts[t][c] \in Seq(Entry) /\ pointsLog[c] \in Seq(Entry)
    BY DEF TypeOK
  <2>2. /\ pointsLog'[c] = pointsLog[c] \o posts[t][c]
        /\ account'[c] = IF accNew[t][c] = None THEN account[c] ELSE accNew[t][c]
    BY DEF Commit
  <2>3. SessionShows(t) /\ PointsShow(c)
    BY DEF LastInv, LastEntryIsBalance
  <2>4. CASE posts[t][c] = <<>>
    <3>1. pointsLog'[c] = pointsLog[c]
      BY <2>1, <2>2, <2>4, ConcatEmptySeq
    <3>2. account'[c] = account[c]
      BY <2>2, <2>3, <2>4 DEF SessionShows
    <3> QED BY <2>3, <3>1, <3>2 DEF PointsShow
  <2>5. CASE posts[t][c] # <<>>
    <3> DEFINE old == pointsLog[c]
               add == posts[t][c]
               new == pointsLog'[c]
    <3>1. accNew[t][c] # None /\ LastIs(posts[t][c], accNew[t][c].total)
      BY <2>3, <2>5 DEF SessionShows
    <3>2. /\ old \in Seq(Entry) /\ add \in Seq(Entry) /\ add # <<>>
          /\ new = old \o add
      BY <2>1, <2>2, <2>5
    <3>3. new # <<>> /\ new[Len(new)] = add[Len(add)]
      <4> HIDE DEF old, add, new
      <4> QED BY <3>2, ConcatLast
    <3>4. account'[c] = accNew[t][c]
      BY <2>2, <3>1
    <3> QED BY <3>1, <3>3, <3>4 DEF PointsShow, LastIs
  <2> QED BY <2>4, <2>5
<1> QED BY <1>1, <1>2 DEF LastEntryIsBalance

LEMMA LastStep ==
  ASSUME TypeOK, LastInv, [Next]_vars
  PROVE  LastInv'
<1>1. ASSUME UNCHANGED <<accNew, posts>> PROVE \A t \in Threads : SessionShows(t)'
  BY <1>1 DEF LastInv, SessionShows
<1>2. ASSUME NEW t \in Threads, EndSession(t) PROVE \A u \in Threads : SessionShows(u)'
  <2>1. /\ \A c \in Customers : accNew'[t][c] = None /\ posts'[t][c] = <<>>
        /\ \A u \in Threads \ {t} : accNew'[u] = accNew[u] /\ posts'[u] = posts[u]
    BY <1>2 DEF EndSession, TypeOK, NoRows, NoPosts
  <2> QED BY <2>1 DEF LastInv, SessionShows
<1>3. ASSUME NEW t \in Threads, NEW c \in Customers, NEW base \in Account,
             NEW points \in Int, NEW type \in {"EARN", "REDEEM", "ADJUST"},
             NEW id \in SaleIds \union {None}, Move(t, c, base, points, type, id)
      PROVE  \A u \in Threads : SessionShows(u)'
  <2>1. SessionShows(t)
    BY DEF LastInv
  <2>2. /\ SessionShows(t)'
        /\ \A u \in Threads \ {t} : accNew'[u] = accNew[u] /\ posts'[u] = posts[u]
    BY <1>3, <2>1, MoveShows
  <2> QED BY <2>2 DEF LastInv, SessionShows
<1>4. ASSUME NEW t \in Threads, SaleEarn(t) \/ (SaleEnroll(t) /\ ~ Rollback(t))
      PROVE  \A u \in Threads : SessionShows(u)'
  <2>1. /\ req[t].c \in Customers /\ req[t].id \in SaleIds
        /\ req[t].amount * Rate \in Int
    BY <1>4, AccountsAssumption DEF SaleEarn, SaleEnroll, TypeOK, InStage, SaleStages, Request
  <2>2. /\ account[req[t].c] # None => account[req[t].c] \in Account
        /\ [total |-> 0, redeemable |-> 0] \in Account
    BY <2>1 DEF TypeOK, RowOrNone, Account
  <2>3. \/ UNCHANGED <<accNew, posts>>
        \/ /\ account[req[t].c] # None
           /\ Move(t, req[t].c, account[req[t].c], req[t].amount * Rate, "EARN", req[t].id)
        \/ Move(t, req[t].c, [total |-> 0, redeemable |-> 0], req[t].amount * Rate, "EARN",
                req[t].id)
    BY <1>4 DEF SaleEarn, SaleEnroll
  <2> QED BY <1>1, <1>3, <2>1, <2>2, <2>3
<1>5. ASSUME NEW t \in Threads, AdjustItem(t) PROVE \A u \in Threads : SessionShows(u)'
  <2> DEFINE item == Head(req[t].todo)
             row  == SeenAccount(t, item.c)
  <2>1. item.c \in Customers /\ item.points \in Int
    <3>1. req[t].todo \in Seq(Item) /\ req[t].todo # <<>>
      BY <1>5 DEF AdjustItem, TypeOK, InStage, Request
    <3>2. item \in Item
      BY <3>1, HeadTailProperties
    <3> QED BY <3>2 DEF Item
  <2>2. row # None => row \in Account
    BY <2>1 DEF SeenAccount, TypeOK, RowOrNone
  <2>3. row = None => UNCHANGED <<accNew, posts>>
    BY <1>5 DEF AdjustItem
  <2>4. row # None => Move(t, item.c, row, item.points, "ADJUST", None)
    BY <1>5 DEF AdjustItem
  <2> HIDE DEF item, row
  <2> QED BY <1>1, <1>3, <2>1, <2>2, <2>3, <2>4
<1>6. ASSUME NEW t \in Threads, NEW c \in Customers, NEW n \in Amounts,
             NEW id \in SaleIds \union {None}, Redeem(t, c, n, id)
      PROVE  \A u \in Threads : SessionShows(u)'
  <2>1. account[c] \in Account /\ -n \in Int
    BY <1>6, AccountsAssumption DEF Redeem, TypeOK, RowOrNone
  <2> QED BY <1>3, <1>6, <2>1 DEF Redeem
<1>7. ASSUME NEW t \in Threads, Expire(t) PROVE \A u \in Threads : SessionShows(u)'
  <2> DEFINE e(c) == [type |-> "EXPIRE", amount |-> -account[c].redeemable,
                      after |-> Emptied(account[c]).total, txn |-> None]
  <2>1. \A c \in Customers :
           /\ posts'[t][c] = IF c \in Expired THEN <<e(c)>> ELSE <<>>
           /\ accNew'[t][c] = IF c \in Expired THEN Emptied(account[c]) ELSE None
    BY <1>7 DEF Expire, TypeOK
  <2>2. \A c \in Expired : Emptied(account[c]) # None
    BY AccountsAssumption DEF Expired, TypeOK, RowOrNone, Emptied, Account
  <2>3. \A c \in Customers : e(c).after = Emptied(account[c]).total
    OBVIOUS
  <2> HIDE DEF e
  <2>4. \A c \in Customers : <<e(c)>> # <<>> /\ <<e(c)>>[Len(<<e(c)>>)] = e(c)
    OBVIOUS
  <2>5. SessionShows(t)'
    BY <2>1, <2>2, <2>3, <2>4 DEF SessionShows, LastIs
  <2>6. \A u \in Threads \ {t} : accNew'[u] = accNew[u] /\ posts'[u] = posts[u]
    BY <1>7 DEF Expire, TypeOK
  <2> QED BY <2>5, <2>6 DEF LastInv, SessionShows
<1>8. \A t \in Threads : SessionShows(t)'
  BY <1>1, <1>2, <1>4, <1>5, <1>6, <1>7, AccountSteps DEF Rollback, Commit, Enroll, sessions
<1>9. LastEntryIsBalance'
  <2>1. CASE \E t \in Threads : Commit(t)
    BY <2>1, LastCommit
  <2>2. CASE UNCHANGED <<ledger, creditLog, account, pointsLog>>
    BY <2>2 DEF LastInv, LastEntryIsBalance, CreditShows, PointsShow
  <2>3. ASSUME NEW c \in Customers, Enroll(c), UNCHANGED <<ledger, creditLog>>
        PROVE  LastEntryIsBalance'
    <3>1. pointsLog[c] = <<>> /\ UNCHANGED pointsLog
      BY <2>3 DEF Enroll, LastInv, LastEntryIsBalance, PointsShow
    <3>2. \A d \in Customers \ {c} : account'[d] = account[d]
      BY <2>3 DEF Enroll, TypeOK
    <3> QED BY <2>3, <3>1, <3>2 DEF LastInv, LastEntryIsBalance, CreditShows, PointsShow
  <2> QED BY <2>1, <2>2, <2>3, OnlyCommits
<1> QED BY <1>8, <1>9 DEF LastInv

LEMMA LastInductive == Spec => []LastInv
<1>1. Init => LastInv
  BY DEF Init, NoPosts, NoRows, LastInv, LastEntryIsBalance, CreditShows, PointsShow,
     SessionShows
<1>2. TypeOK /\ LastInv /\ [Next]_vars => LastInv'
  BY LastStep
<1> QED
  BY <1>1, <1>2, TypeInvariant, PTL DEF Spec

(* A statement never shows a balance that is not the stored one.            *)
THEOREM StatementsShowBalance == Spec => []LastEntryIsBalance
<1>1. LastInv => LastEntryIsBalance
  BY DEF LastInv
<1> QED
  BY <1>1, LastInductive, PTL

(* The rows of a customer and the statements keep all of it together,       *)
(* however sales, repayments, redemptions, adjustments and expiry race.     *)
THEOREM StatementsKept == Spec => []StatementsInv
<1>1. TypeOK /\ CreditWithinLimit /\ PointsAgree /\ LastEntryIsBalance /\ EachSaleOnce => StatementsInv
  BY DEF StatementsInv
<1> QED
  BY <1>1, TypeInvariant, LimitHolds, PointsHold, StatementsShowBalance, ExactlyOnce, PTL

-----------------------------------------------------------------------------
(* Between a read under FOR UPDATE and its commit no other commit falls. *)

(* A step of t leaves another session as it is, with its locks. *)
LEMMA OthersKeep ==
  ASSUME TypeOK, NEW t \in Threads, SaleStep(t) \/ AccountStep(t) \/ Commit(t) \/ Abort(t),
         NEW u \in Threads \ {t}
  PROVE  /\ req'[u] = req[u] /\ pc'[u] = pc[u] /\ ledNew'[u] = ledNew[u]
         /\ posts'[u] = posts[u]
         /\ \A c \in Customers : /\ ledLock[c] = u => ledLock'[c] = u
                                 /\ accLock[c] = u => accLock'[c] = u
<1> DEFINE Kept == /\ req'[u] = req[u] /\ pc'[u] = pc[u] /\ ledNew'[u] = ledNew[u]
                   /\ posts'[u] = posts[u]
                   /\ \A c \in Customers : /\ ledLock[c] = u => ledLock'[c] = u
                                           /\ accLock[c] = u => accLock'[c] = u
<1>0. /\ u # None /\ t # u /\ u \in Threads
      /\ DOMAIN req = Threads /\ DOMAIN pc = Threads /\ DOMAIN ledNew = Threads
      /\ DOMAIN posts = Threads /\ DOMAIN ledLock = Customers /\ DOMAIN accLock = Customers
  BY AccountsAssumption DEF TypeOK
<1> USE DEF committed, sessions, Free
<1>1. EndSession(t) => Kept
  BY <1>0 DEF EndSession
<1>2. ASSUME NEW c \in Customers, NEW id \in SaleIds, NEW n \in Totals, NEW k \in BOOLEAN,
             SaleBegin(t, c, id, n, k)
      PROVE  Kept
  BY <1>0, <1>2 DEF SaleBegin
<1>3. SaleInsert(t) /\ ~ EndSession(t) => Kept
  BY <1>0 DEF SaleInsert, Rollback
<1>4. SaleOwe(t) /\ ~ EndSession(t) => Kept
  BY <1>0 DEF SaleOwe, Rollback
<1>5. SaleNoLedger(t) => Kept
  BY <1>0 DEF SaleNoLedger
<1>6. SaleCreateLedger(t) /\ ~ EndSession(t) => Kept
  BY <1>0 DEF SaleCreateLedger, Rollback
<1>7. SaleFlushLedger(t) => Kept
  BY <1>0 DEF SaleFlushLedger
<1>8. SaleEarn(t) => Kept
  BY <1>0 DEF SaleEarn, Move
<1>9. SaleEnroll(t) /\ ~ EndSession(t) => Kept
  BY <1>0 DEF SaleEnroll, Rollback, Move
<1>10. ASSUME NEW c \in Customers, NEW n \in Amounts, Repay(t, c, n)
       PROVE  Kept
  BY <1>0, <1>10 DEF Repay
<1>11. ASSUME NEW c \in Customers, NEW n \in Amounts,
              NEW id \in SaleIds \union {None}, Redeem(t, c, n, id)
       PROVE  Kept
  BY <1>0, <1>11 DEF Redeem, Move
<1>12. ASSUME NEW items \in Batches, AdjustBegin(t, items)
       PROVE  Kept
  BY <1>0, <1>12 DEF AdjustBegin
<1>13. AdjustItem(t) => Kept
  BY <1>0 DEF AdjustItem, Move, FlushAccounts
<1>14. Expire(t) => Kept
  BY <1>0 DEF Expire
<1> HIDE DEF Kept
<1>15. Kept
  BY <1>1, <1>2, <1>3, <1>4, <1>5, <1>6, <1>7, <1>8, <1>9, <1>10, <1>11, <1>12, <1>13, <1>14
     DEF SaleStep, AccountStep, Commit, Abort, Rollback
<1> QED BY <1>15 DEF Kept

(* Rows change under their lock only. *)
LEMMA RowsKeep ==
  ASSUME TypeOK, ChainInv, [Next]_vars, NEW u \in Threads, ~ Commit(u), NEW c \in Customers
  PROVE  /\ ledLock[c] = u => ledger'[c] = ledger[c]
         /\ accLock[c] = u => account'[c] = account[c]
<1>0. u # None
  BY AccountsAssumption
<1>1. ASSUME NEW t \in Threads, Commit(t)
      PROVE  /\ ledLock[c] = u => ledger'[c] = ledger[c]
             /\ accLock[c] = u => account'[c] = account[c]
  <2>0. t # u
    BY <1>1
  <2>1. ASSUME ledNew[t] # None, c = req[t].c PROVE ledLock[c] = t
    <3>1. req[t].op \in {"sale", "repay"} /\ pc[t] = "commit"
      BY <1>1, <2>1 DEF TypeOK, InStage, Commit
    <3> QED BY <2>1, <3>1 DEF ChainInv, HoldsLedger
  <2>2. ledLock[c] = u => ledger'[c] = ledger[c]
    BY <1>1, <2>0, <2>1 DEF Commit, TypeOK
  <2>3. accNew[t][c] # None => accLock[c] \in {None, t}
    BY <1>1 DEF Commit, Pending, Free
  <2>4. account'[c] = IF accNew[t][c] = None THEN account[c] ELSE accNew[t][c]
    BY <1>1 DEF Commit
  <2> QED BY <1>0, <2>0, <2>2, <2>3, <2>4
<1>2. ASSUME NEW d \in Customers, Enroll(d)
      PROVE  /\ UNCHANGED ledger
             /\ accLock[c] = u => account'[c] = account[c]
  BY <1>0, <1>2 DEF Enroll, TypeOK
<1> QED BY <1>1, <1>2, OnlyCommits

(* A session that is not about to commit has no redemption. *)
Unredeemed(t) ==
    \A c \in Customers : \A i \in DOMAIN posts[t][c] : posts[t][c][i].type # "REDEEM"

LEMMA UnredeemedMove ==
  ASSUME TypeOK, NEW t \in Threads, Unredeemed(t), NEW c \in Customers, NEW base, NEW points,
         NEW type \in {"EARN", "ADJUST"}, NEW id, Move(t, c, base, points, type, id)
  PROVE  Unredeemed(t)'
<1> DEFINE e == [type |-> type, amount |-> points, after |-> base.total + points, txn |-> id]
<1>1. /\ posts'[t][c] = Append(posts[t][c], e)
      /\ \A d \in Customers \ {c} : posts'[t][d] = posts[t][d]
  BY MovePosts
<1>2. e.type # "REDEEM" /\ posts[t][c] \in Seq(Entry)
  BY DEF TypeOK
<1> HIDE DEF e
<1>3. \A i \in DOMAIN posts'[t][c] : posts'[t][c][i] = e \/ (i \in DOMAIN posts[t][c]
                                                          /\ posts'[t][c][i] = posts[t][c][i])
  BY <1>1, <1>2
<1> QED BY <1>1, <1>2, <1>3 DEF Unredeemed

LEMMA HoldsAccountOwn ==
  ASSUME TypeOK, OnceInv, NEW t \in Threads, HoldsAccount(t),
         SaleStep(t) \/ AccountStep(t) \/ Commit(t) \/ Abort(t)
  PROVE  HoldsAccount(t)'
<1>1. CASE EndSession(t)
  BY <1>1 DEF EndSession, NoPosts, HoldsAccount, TypeOK
<1>2. ASSUME NEW c \in Customers, NEW n \in Amounts,
             NEW id \in SaleIds \union {None}, Redeem(t, c, n, id)
      PROVE  HoldsAccount(t)'
  <2> DEFINE e == [type |-> "REDEEM", amount |-> -n, after |-> account[c].total + (-n),
                   txn |-> id]
  <2>1. posts[t] = NoPosts
    BY <1>2 DEF Redeem, OnceInv, ChargesOneSale
  <2>2. /\ posts'[t][c] = Append(posts[t][c], e)
        /\ \A d \in Customers \ {c} : posts'[t][d] = posts[t][d]
    BY <1>2, MovePosts DEF Redeem
  <2>3. /\ posts'[t][c] = <<e>>
        /\ \A d \in Customers \ {c} : posts'[t][d] = <<>>
    BY <2>1, <2>2 DEF NoPosts
  <2>4. e.after = account[c].total + e.amount
    OBVIOUS
  <2>5. /\ pc'[t] = "commit" /\ accLock'[c] = t /\ account'[c] = account[c] /\ account[c] # None
    BY <1>2 DEF Redeem, TypeOK, committed
  <2> HIDE DEF e
  <2> QED BY <2>3, <2>4, <2>5 DEF HoldsAccount
<1>3. CASE /\ ~ EndSession(t)
           /\ \A c \in Customers, n \in Amounts, id \in SaleIds \union {None} :
                 ~ Redeem(t, c, n, id)
  <2> USE DEF committed, sessions
  <2>0. ~ Commit(t) /\ ~ Abort(t) /\ ~ Rollback(t) /\ (SaleStep(t) \/ AccountStep(t))
    BY <1>3 DEF Commit, Abort, Rollback
  <2>1. pc[t] # "commit"
    BY <1>3, <2>0 DEF SaleStep, AccountStep, SaleBegin, SaleInsert, SaleOwe, SaleNoLedger,
       SaleCreateLedger, SaleFlushLedger, SaleEarn, SaleEnroll, Repay, AdjustBegin,
       AdjustItem, Expire
  <2>2. Unredeemed(t)
    BY <2>1 DEF HoldsAccount, Unredeemed
  <2>3. ASSUME SaleEarn(t) \/ SaleEnroll(t) PROVE Unredeemed(t)'
    <3>1. req[t].c \in Customers
      BY <2>3 DEF SaleEarn, SaleEnroll, TypeOK, InStage, SaleStages
    <3>2. \/ UNCHANGED posts
          \/ Move(t, req[t].c, account[req[t].c], req[t].amount * Rate, "EARN", req[t].id)
          \/ Move(t, req[t].c, [total |-> 0, redeemable |-> 0], req[t].amount * Rate, "EARN",
                  req[t].id)
      BY <2>0, <2>3 DEF SaleEarn, SaleEnroll
    <3> QED BY <2>2, <3>1, <3>2, UnredeemedMove DEF Unredeemed
  <2>4. ASSUME AdjustItem(t) PROVE Unredeemed(t)'
    <3> DEFINE item == Head(req[t].todo)
    <3>1. item.c \in Customers
      <4>1. req[t].todo \in Seq(Item) /\ req[t].todo # <<>>
        BY <2>4 DEF AdjustItem, TypeOK, InStage, Request
      <4>2. item \in Item
        BY <4>1, HeadTailProperties
      <4> QED BY <4>2 DEF Item
    <3>2. \/ UNCHANGED posts
          \/ Move(t, item.c, SeenAccount(t, item.c), item.points, "ADJUST", None)
      BY <2>4 DEF AdjustItem
    <3> HIDE DEF item
    <3> QED BY <2>2, <3>1, <3>2, UnredeemedMove DEF Unredeemed
  <2>5. ASSUME Expire(t) PROVE Unredeemed(t)'
    <3> DEFINE e(c) == [type |-> "EXPIRE", amount |-> -account[c].redeemable,
                        after |-> Emptied(account[c]).total, txn |-> None]
    <3>1. \A c \in Customers : posts'[t][c] = IF c \in Expired THEN <<e(c)>> ELSE <<>>
      BY <2>5 DEF Expire, TypeOK
    <3>2. \A c \in Customers : e(c).type # "REDEEM"
      OBVIOUS
    <3> HIDE DEF e
    <3>3. \A c \in Customers : \A i \in DOMAIN <<e(c)>> : <<e(c)>>[i] = e(c)
      OBVIOUS
    <3>4. \A c \in Customers : \A i \in DOMAIN posts'[t][c] : posts'[t][c][i] = e(c)
      <4> SUFFICES ASSUME NEW c \in Customers, NEW i \in DOMAIN posts'[t][c]
                   PROVE  posts'[t][c][i] = e(c)
        OBVIOUS
      <4>1. CASE c \in Expired
        BY <3>1, <3>3, <4>1
      <4>2. CASE c \notin Expired
        <5>1. posts'[t][c] = <<>>
          BY <3>1, <4>2
        <5>2. DOMAIN <<>> = {}
          OBVIOUS
        <5> QED BY <5>1, <5>2
      <4> QED BY <4>1, <4>2
    <3> QED BY <3>2, <3>4 DEF Unredeemed
  <2>6. UNCHANGED posts => Unredeemed(t)'
    BY <2>2 DEF Unredeemed
  <2>7. Unredeemed(t)'
    BY <1>3, <2>0, <2>3, <2>4, <2>5, <2>6 DEF SaleStep, AccountStep, SaleBegin, SaleInsert,
       SaleOwe, SaleNoLedger, SaleCreateLedger, SaleFlushLedger, Repay, AdjustBegin
  <2> QED BY <2>7 DEF Unredeemed, HoldsAccount
<1> QED BY <1>1, <1>2, <1>3

LEMMA HoldsLedgerOwn ==
  ASSUME TypeOK, NEW t \in Threads, HoldsLedger(t),
         SaleStep(t) \/ AccountStep(t) \/ Commit(t) \/ Abort(t)
  PROVE  HoldsLedger(t)'
<1>0. /\ InStage(t)
      /\ DOMAIN req = Threads /\ DOMAIN pc = Threads /\ DOMAIN ledNew = Threads
      /\ DOMAIN ledLock = Customers /\ DOMAIN ledger = Customers
  BY DEF TypeOK
<1> USE DEF HoldsLedger, InStage, committed, sessions, Asks
<1>1. EndSession(t) => HoldsLedger(t)'
  BY <1>0 DEF EndSession, NoRequest
<1>2. ASSUME NEW c \in Customers, NEW id \in SaleIds, NEW n \in Totals, NEW k \in BOOLEAN,
             SaleBegin(t, c, id, n, k)
      PROVE  HoldsLedger(t)'
  BY <1>0, <1>2 DEF SaleBegin
<1>3. SaleInsert(t) /\ ~ EndSession(t) => HoldsLedger(t)'
  BY <1>0 DEF SaleInsert, Rollback, SaleStages
<1>4. SaleOwe(t) /\ ~ EndSession(t) => HoldsLedger(t)'
  BY <1>0 DEF SaleOwe, Rollback, SaleStages
<1>5. SaleNoLedger(t) => HoldsLedger(t)'
  BY <1>0 DEF SaleNoLedger, SaleStages
<1>6. SaleCreateLedger(t) /\ ~ EndSession(t) => HoldsLedger(t)'
  BY <1>0 DEF SaleCreateLedger, Rollback, SaleStages
<1>7. SaleFlushLedger(t) => HoldsLedger(t)'
  BY <1>0 DEF SaleFlushLedger, SaleStages
<1>8. SaleEarn(t) => HoldsLedger(t)'
  BY <1>0 DEF SaleEarn, SaleStages
<1>9. SaleEnroll(t) /\ ~ EndSession(t) => HoldsLedger(t)'
  BY <1>0 DEF SaleEnroll, Rollback, SaleStages
<1>10. ASSUME NEW c \in Customers, NEW n \in Amounts, Repay(t, c, n)
       PROVE  HoldsLedger(t)'
  BY <1>0, <1>10 DEF Repay
<1>11. ASSUME NEW c \in Customers, NEW n \in Amounts,
              NEW id \in SaleIds \union {None}, Redeem(t, c, n, id)
       PROVE  HoldsLedger(t)'
  BY <1>0, <1>11 DEF Redeem
<1>12. ASSUME NEW items \in Batches, AdjustBegin(t, items)
       PROVE  HoldsLedger(t)'
  BY <1>0, <1>12 DEF AdjustBegin
<1>13. AdjustItem(t) => HoldsLedger(t)'
  BY <1>0 DEF AdjustItem
<1>14. Expire(t) => HoldsLedger(t)'
  BY <1>0 DEF Expire
<1> HIDE DEF HoldsLedger, InStage
<1> QED
  BY <1>1, <1>2, <1>3, <1>4, <1>5, <1>6, <1>7, <1>8, <1>9, <1>10, <1>11, <1>12, <1>13, <1>14
     DEF SaleStep, AccountStep, Commit, Abort, Rollback

LEMMA ChainsCommit ==
  ASSUME TypeOK, LastInv, ChainInv, NEW t \in Threads, Commit(t)
  PROVE  LockedEntriesChain'
<1>1. ASSUME NEW c \in Customers PROVE Chains(creditLog'[c], "REPAYMENT")
  <2>1. Chains(creditLog[c], "REPAYMENT") /\ creditLog[c] \in Seq(Entry)
    BY DEF ChainInv, LockedEntriesChain, TypeOK
  <2>2. CASE ledNew[t] = None \/ c # req[t].c
    <3>1. creditLog'[c] = creditLog[c]
      BY <2>2 DEF Commit, TypeOK
    <3> QED BY <2>1, <3>1
  <2>3. CASE ledNew[t] # None /\ c = req[t].c
    <3> DEFINE e == CreditEntry(t)
               log == creditLog[c]
    <3>1. creditLog'[c] = Append(log, e)
      BY <2>3 DEF Commit, TypeOK
    <3>2. ASSUME e.type = "REPAYMENT", log # <<>>
          PROVE  e.after = log[Len(log)].after + e.amount
      <4>1. req[t].op = "repay"
        BY <2>3, <3>2 DEF CreditEntry, TypeOK, InStage
      <4>2. ledNew[t] = Charged(ledger[c], -req[t].amount)
        BY <2>3, <4>1 DEF ChainInv, HoldsLedger
      <4>3. e.amount = -req[t].amount /\ e.after = ledger[c].balance + (-req[t].amount)
        BY <4>1, <4>2 DEF CreditEntry, Charged
      <4>4. log[Len(log)].after = ledger[c].balance
        BY <3>2 DEF LastInv, LastEntryIsBalance, CreditShows, LastIs
      <4> QED BY <4>3, <4>4
    <3> HIDE DEF e, log
    <3>3. log \in Seq(Entry) /\ Chains(log, "REPAYMENT")
      BY <2>1 DEF log
    <3>4. /\ DOMAIN Append(log, e) = 1 .. Len(log) + 1 /\ Len(log) \in Nat
          /\ \A i \in 1 .. Len(log) : Append(log, e)[i] = log[i]
          /\ Append(log, e)[Len(log) + 1] = e
          /\ DOMAIN log = 1 .. Len(log)
      BY <3>3
    <3>5. ASSUME NEW i \in DOMAIN Append(log, e), i > 1, Append(log, e)[i].type = "REPAYMENT"
          PROVE  Append(log, e)[i].after = Append(log, e)[i-1].after + Append(log, e)[i].amount
      <4>1. CASE i \in 1 .. Len(log)
        <5>1. i - 1 \in 1 .. Len(log)
          BY <3>4, <3>5, <4>1
        <5> QED BY <3>3, <3>4, <3>5, <4>1, <5>1 DEF Chains
      <4>2. CASE i = Len(log) + 1
        <5>1. i - 1 = Len(log) /\ Len(log) \in 1 .. Len(log)
          BY <3>4, <3>5, <4>2
        <5>2. log # <<>>
          BY <3>4, <3>5, <4>2
        <5> QED BY <3>2, <3>4, <3>5, <4>2, <5>1, <5>2
      <4>3. i \in 1 .. Len(log) \/ i = Len(log) + 1
        BY <3>4
      <4> QED BY <4>1, <4>2, <4>3
    <3> QED BY <3>1, <3>5 DEF Chains
  <2> QED BY <2>2, <2>3
<1>2. ASSUME NEW c \in Customers PROVE Chains(pointsLog'[c], "REDEEM")
  <2> DEFINE old == pointsLog[c]
             add == posts[t][c]
             new == pointsLog'[c]
  <2>1. /\ old \in Seq(Entry) /\ add \in Seq(Entry)
        /\ new = old \o add /\ Chains(old, "REDEEM")
    BY DEF TypeOK, Commit, ChainInv, LockedEntriesChain
  <2>2. \A i \in DOMAIN add : add[i].type = "REDEEM" =>
           i = 1 /\ add[i].after = account[c].total + add[i].amount
    BY DEF ChainInv, HoldsAccount
  <2>3. old # <<>> => old[Len(old)].after = account[c].total
    BY DEF LastInv, LastEntryIsBalance, PointsShow, LastIs
  <2> HIDE DEF old, add, new
  <2>4. /\ Len(old) \in Nat /\ Len(add) \in Nat /\ DOMAIN new = 1 .. Len(old) + Len(add)
        /\ DOMAIN old = 1 .. Len(old) /\ DOMAIN add = 1 .. Len(add)
    BY <2>1
  <2>5. \A i \in 1 .. Len(old) + Len(add) :
           new[i] = IF i <= Len(old) THEN old[i] ELSE add[i - Len(old)]
    BY <2>1, ConcatProperties
  <2>6. ASSUME NEW i \in DOMAIN new, i > 1, new[i].type = "REDEEM"
        PROVE  new[i].after = new[i-1].after + new[i].amount
    <3>1. CASE i <= Len(old)
      <4>1. i \in DOMAIN old /\ i - 1 \in 1 .. Len(old) + Len(add) /\ i - 1 <= Len(old)
        BY <2>4, <2>6, <3>1
      <4>2. new[i] = old[i] /\ new[i-1] = old[i-1]
        BY <2>4, <2>5, <3>1, <4>1
      <4> QED BY <2>1, <2>6, <4>1, <4>2 DEF Chains
    <3>2. CASE i > Len(old)
      <4>1. i - Len(old) \in DOMAIN add
        BY <2>4, <3>2
      <4>2. new[i] = add[i - Len(old)]
        BY <2>4, <2>5, <3>2
      <4>3. i - Len(old) = 1
        BY <2>2, <2>6, <4>1, <4>2
      <4>4. /\ i - 1 = Len(old) /\ Len(old) \in 1 .. Len(old) + Len(add)
        BY <2>4, <2>6, <4>3
      <4>5. old # <<>>
        BY <2>4, <2>6, <4>4
      <4>6. new[i-1] = old[Len(old)]
        BY <2>4, <2>5, <4>4
      <4> QED BY <2>2, <2>3, <2>6, <4>1, <4>2, <4>5, <4>6
    <3> QED BY <2>4, <3>1, <3>2
  <2>7. Chains(new, "REDEEM")
    BY <2>6 DEF Chains
  <2> QED BY <2>7 DEF new
<1> QED BY <1>1, <1>2 DEF LockedEntriesChain

LEMMA ChainStep ==
  ASSUME TypeOK, LastInv, OnceInv, ChainInv, [Next]_vars
  PROVE  ChainInv'
<1>1. LockedEntriesChain'
  <2>1. CASE \E t \in Threads : Commit(t)
    BY <2>1, ChainsCommit
  <2>2. CASE UNCHANGED <<creditLog, pointsLog>>
    BY <2>2 DEF ChainInv, LockedEntriesChain
  <2> QED BY <2>1, <2>2, OnlyCommits DEF Enroll
<1>2. ASSUME NEW u \in Threads PROVE HoldsLedger(u)' /\ HoldsAccount(u)'
  <2>1. HoldsLedger(u) /\ HoldsAccount(u)
    BY DEF ChainInv
  <2>2. CASE SaleStep(u) \/ AccountStep(u) \/ Commit(u) \/ Abort(u)
    BY <2>1, <2>2, HoldsLedgerOwn, HoldsAccountOwn
  <2>3. ASSUME ~ Commit(u), req'[u] = req[u], pc'[u] = pc[u], ledNew'[u] = ledNew[u],
               posts'[u] = posts[u],
               \A c \in Customers : /\ ledLock[c] = u => ledLock'[c] = u
                                    /\ accLock[c] = u => accLock'[c] = u
        PROVE  HoldsLedger(u)' /\ HoldsAccount(u)'
    <3>1. \A c \in Customers : /\ ledLock[c] = u => ledger'[c] = ledger[c]
                               /\ accLock[c] = u => account'[c] = account[c]
      BY <2>3, RowsKeep
    <3>2. req[u].op \in {"sale", "repay"} => req[u].c \in Customers
      BY DEF TypeOK, InStage
    <3>3. HoldsLedger(u)'
      BY <2>1, <2>3, <3>1, <3>2 DEF HoldsLedger, Charged
    <3>4. HoldsAccount(u)'
      BY <2>1, <2>3, <3>1 DEF HoldsAccount
    <3> QED BY <3>3, <3>4
  <2>4. ASSUME NEW t \in Threads \ {u}, SaleStep(t) \/ AccountStep(t) \/ Commit(t) \/ Abort(t),
               ~ Commit(u)
        PROVE  HoldsLedger(u)' /\ HoldsAccount(u)'
    <3>1. /\ req'[u] = req[u] /\ pc'[u] = pc[u] /\ ledNew'[u] = ledNew[u]
          /\ posts'[u] = posts[u]
          /\ \A c \in Customers : /\ ledLock[c] = u => ledLock'[c] = u
                                  /\ accLock[c] = u => accLock'[c] = u
      BY <2>4, OthersKeep
    <3> QED BY <2>3, <2>4, <3>1
  <2>5. CASE /\ \A t \in Threads : ~ (SaleStep(t) \/ AccountStep(t) \/ Commit(t) \/ Abort(t))
    <3>1. UNCHANGED sessions
      BY <2>5 DEF Next, Enroll, BecomeDormant, SwitchProgram, vars, sessions
    <3> QED BY <2>3, <2>5, <3>1 DEF sessions
  <2> QED BY <2>2, <2>4, <2>5
<1> QED BY <1>1, <1>2 DEF ChainInv

(* What a repayment or a redemption takes off a balance is its amount, from *)
(* the balance of the entry before: nothing is committed between its read   *)
(* FOR UPDATE and its commit, whatever unlocked handlers race with it.      *)
THEOREM LockedStepsChain == Spec => []LockedEntriesChain
<1>1. Init => ChainInv
  BY DEF Init, NoPosts, NoRows, NoRequest, Asks, ChainInv, LockedEntriesChain, Chains,
     HoldsLedger, HoldsAccount
<1>2. TypeOK /\ LastInv /\ OnceInv /\ ChainInv /\ [Next]_vars => ChainInv'
  BY ChainStep
<1>3. ChainInv => LockedEntriesChain
  BY DEF ChainInv
<1> QED
  BY <1>1, <1>2, <1>3, TypeInvariant, LastInductive, OnceInductive, PTL DEF Spec
-----------------------------------------------------------------------------
(* One request at a time: the books balance. *)

(* The sum of the amounts of a log is one of those of Sums. *)
Amount(log) == [i \in DOMAIN log |-> log[i].amount]

LEMMA SumIsTotal ==
  ASSUME NEW log \in Seq(Entry)
  PROVE  SumOf(log) = Total(Amount(log), DOMAIN log)
<1> DEFINE S == DOMAIN log
           g == Amount(log)
           one(h) == h = [s \in SUBSET S |-> IF s = {} THEN 0
                            ELSE log[Pick(s)].amount + h[s \ {Pick(s)}]]
           k == CHOOSE h : one(h)
           m == CHOOSE h : Adds(h, g, S)
<1>0. IsFiniteSet(S)
  <2>1. S = 1 .. Len(log) /\ Len(log) \in Nat
    OBVIOUS
  <2> QED
    BY <2>1, FS_Interval
<1>1. SumOf(log) = k[S]
  BY DEF SumOf, FoldFunction, FoldFunctionOnSet, MapThenFoldSet, Pick
<1>2. Total(g, S) = m[S]
  BY TotalIs
<1>3. \A s \in SUBSET S : s # {} => g[Pick(s)] = log[Pick(s)].amount
  BY PickIn DEF Amount
<1>4. \A h : one(h) <=> Adds(h, g, S)
  <2> HIDE DEF g, S
  <2> QED
    BY <1>3 DEF Adds
<1>5. Adds(m, g, S)
  BY <1>0, Exists
<1>6. Adds(k, g, S)
  <2> HIDE DEF one
  <2> QED
    BY <1>4, <1>5
<1>7. k = m
  <2> HIDE DEF k, m, g, S
  <2> QED
    BY <1>0, <1>5, <1>6, Unique
<1> QED
  BY <1>1, <1>2, <1>7

LEMMA SumEmpty == SumOf(<<>>) = 0
<1>1. <<>> \in Seq(Entry) /\ DOMAIN <<>> = {}
  OBVIOUS
<1>2. Total(Amount(<<>>), {}) = 0
  BY TotalStep, FS_EmptySet
<1> QED
  BY <1>1, <1>2, SumIsTotal

LEMMA SumInt ==
  ASSUME NEW log \in Seq(Entry)
  PROVE  SumOf(log) \in Int
<1>1. DOMAIN log = 1 .. Len(log) /\ Len(log) \in Nat /\ \A i \in DOMAIN log : log[i] \in Entry
  OBVIOUS
<1>2. IsFiniteSet(DOMAIN log)
  BY <1>1, FS_Interval
<1>3. \A i \in DOMAIN log : Amount(log)[i] \in Int
  BY <1>1 DEF Amount, Entry
<1>4. PICK g : g = Amount(log)
  OBVIOUS
<1>5. Total(g, DOMAIN log) \in Int
  BY <1>2, <1>3, <1>4, TotalInt
<1> QED
  BY <1>4, <1>5, SumIsTotal

LEMMA SumAppend ==
  ASSUME NEW log \in Seq(Entry), NEW e \in Entry
  PROVE  SumOf(Append(log, e)) = SumOf(log) + e.amount
<1>1. PICK new : new = Append(log, e)
  OBVIOUS
<1>2. PICK n \in Nat : n = Len(log)
  OBVIOUS
<1>3. /\ new \in Seq(Entry) /\ DOMAIN new = 1 .. n + 1 /\ DOMAIN log = 1 .. n
      /\ new[n + 1] = e /\ \A i \in 1 .. n : new[i] = log[i]
  BY <1>1, <1>2, AppendProperties
<1>4. PICK g : g = Amount(log)
  OBVIOUS
<1>5. PICK k : k = Amount(new)
  OBVIOUS
<1>6. IsFiniteSet(1 .. n) /\ 1 .. n + 1 = 1 .. n \union {n + 1} /\ n + 1 \notin 1 .. n
  <2>1. IsFiniteSet(1 .. n)
    BY FS_Interval
  <2>2. \A i : i \in 1 .. n + 1 <=> i \in 1 .. n \/ i = n + 1
    OBVIOUS
  <2>3. n + 1 \notin 1 .. n
    OBVIOUS
  <2> QED
    BY <2>1, <2>2, <2>3
<1>7. \A i \in 1 .. n : log[i] \in Entry
  BY <1>3
<1>8. k[n + 1] = e.amount /\ e.amount \in Int /\ \A i \in 1 .. n : g[i] \in Int /\ k[i] = g[i]
  <2>1. k[n + 1] = new[n + 1].amount
    <3>1. n + 1 \in DOMAIN new
      BY <1>3, <1>6
    <3> QED
      BY <1>5, <3>1 DEF Amount
  <2>2. e.amount \in Int
    BY DEF Entry
  <2>3. \A i \in 1 .. n : g[i] = log[i].amount /\ k[i] = new[i].amount
    <3>1. \A i \in 1 .. n : i \in DOMAIN log /\ i \in DOMAIN new
      BY <1>3, <1>6
    <3> QED
      BY <1>4, <1>5, <3>1 DEF Amount
  <2>4. \A i \in 1 .. n : log[i].amount \in Int
    BY <1>7 DEF Entry
  <2> QED
    BY <1>3, <2>1, <2>2, <2>3, <2>4
<1>9. PutAt(g, 1 .. n, k, 1 .. n + 1, n + 1)
  BY <1>6, <1>8 DEF PutAt
<1>10. Total(k, 1 .. n + 1) = Total(g, 1 .. n) + (k[n + 1] - Was(g, 1 .. n, n + 1))
  BY <1>9, TotalPut
<1>11. Was(g, 1 .. n, n + 1) = 0
  BY <1>6 DEF Was
<1>12. SumOf(new) = Total(k, 1 .. n + 1) /\ SumOf(log) = Total(g, 1 .. n)
  BY <1>3, <1>4, <1>5, SumIsTotal
<1>13. SumOf(log) \in Int
  BY SumInt
<1> QED
  BY <1>1, <1>8, <1>10, <1>11, <1>12, <1>13

LEMMA SumConcat ==
  ASSUME NEW log \in Seq(Entry), NEW more \in Seq(Entry), NEW e \in Entry
  PROVE  SumOf(log \o Append(more, e)) = SumOf(log \o more) + e.amount
<1>1. Append(more, e) = more \o <<e>> /\ <<e>> \in Seq(Entry)
  BY AppendIsConcat
<1>2. log \o more \in Seq(Entry)
  BY ConcatProperties
<1>3. log \o (more \o <<e>>) = (log \o more) \o <<e>>
  BY <1>1, ConcatAssociative
<1>4. Append(log \o more, e) = (log \o more) \o <<e>>
  BY <1>2, AppendIsConcat
<1> QED
  BY <1>1, <1>2, <1>3, <1>4, SumAppend

(* What a lone session has computed agrees with what it will have posted. *)
Owed(t) == IF req[t].op = "sale" THEN req[t].amount ELSE -req[t].amount

Owes(t) == ledNew[t] # None => ledNew[t].balance = SumOf(creditLog[req[t].c]) + Owed(t)

Holds(t) ==
  \A c \in Customers : accNew[t][c] # None => accNew[t][c].total = SumOf(pointsLog[c] \o posts[t][c])

CreditBalances == \A c \in Customers : ledger[c] # None => ledger[c].balance = SumOf(creditLog[c])
PointsBalance  == \A c \in Customers : account[c] # None => account[c].total = SumOf(pointsLog[c])

SerialInv ==
  ~overlapped => CreditBalances /\ PointsBalance /\ \A t \in Threads : Owes(t) /\ Holds(t)

OneActive == ~overlapped => \A t, u \in Threads : pc[t] # "idle" /\ pc[u] # "idle" => t = u

Knows == TypeOK /\ LastInv /\ OnceInv

(* An idle session has computed nothing. *)
LEMMA IdleOwes ==
  ASSUME Knows', NEW t \in Threads, pc'[t] = "idle"
  PROVE  Owes(t)' /\ Holds(t)'
<1>1. ledNew'[t] = None
  BY DEF Knows, TypeOK, InStage
<1>2. posts'[t] = NoPosts
  BY DEF Knows, OnceInv, ChargesOneSale
<1>3. \A c \in Customers : accNew'[t][c] = None
  BY <1>2 DEF Knows, LastInv, SessionShows, NoPosts
<1> QED
  BY <1>1, <1>3 DEF Owes, Holds

LEMMA IdleEmpty ==
  ASSUME Knows, NEW t \in Threads, pc[t] \in SaleStages \union {"idle"}
  PROVE  /\ posts[t] = NoPosts /\ \A c \in Customers : accNew[t][c] = None /\ posts[t][c] = <<>>
         /\ pc[t] = "idle" => ledNew[t] = None
<1>1. posts[t] = NoPosts
  BY DEF Knows, OnceInv, ChargesOneSale
<1>2. \A c \in Customers : posts[t][c] = <<>>
  BY <1>1 DEF NoPosts
<1>3. \A c \in Customers : accNew[t][c] = None
  BY <1>2 DEF Knows, LastInv, SessionShows
<1>4. pc[t] = "idle" => ledNew[t] = None
  BY DEF Knows, TypeOK, InStage
<1> QED
  BY <1>1, <1>2, <1>3, <1>4

(* The commit enters what the session has charged. *)
LEMMA CommitCredits ==
  ASSUME Knows, NEW t \in Threads, CreditBalances, Owes(t), Commit(t)
  PROVE  CreditBalances'
<1> SUFFICES ASSUME NEW c \in Customers, ledger'[c] # None
             PROVE  ledger'[c].balance = SumOf(creditLog'[c])
  BY DEF CreditBalances
<1>1. TypeOK
  BY DEF Knows
<1>2. CASE ledNew[t] = None \/ c # req[t].c
  <2>1. UNCHANGED <<ledger[c], creditLog[c]>>
    BY <1>1, <1>2 DEF Commit, TypeOK
  <2> QED
    BY <2>1 DEF CreditBalances
<1>3. CASE ledNew[t] # None /\ c = req[t].c
  <2>1. PICK e : e = CreditEntry(t)
    OBVIOUS
  <2>2. ledger'[c] = ledNew[t] /\ creditLog'[c] = Append(creditLog[c], e)
    BY <1>1, <1>3, <2>1 DEF Commit, TypeOK
  <2>3. req[t].op \in {"sale", "repay"} /\ ledNew[t] \in Ledger
    BY <1>1, <1>3 DEF TypeOK, InStage, RowOrNone
  <2>4. e \in Entry /\ e.amount = Owed(t)
    BY <1>1, <2>1, <2>3 DEF CreditEntry, Entry, Ledger, TypeOK, InStage, Request, Owed
  <2>5. creditLog[c] \in Seq(Entry)
    BY <1>1 DEF TypeOK
  <2>6. SumOf(creditLog'[c]) = SumOf(creditLog[c]) + Owed(t)
    BY <2>2, <2>4, <2>5, SumAppend
  <2> QED
    BY <1>3, <2>2, <2>6 DEF Owes
<1> QED
  BY <1>2, <1>3

LEMMA CreditStep ==
  ASSUME Knows, Knows', NEW t \in Threads, CreditBalances, Owes(t),
         SaleStep(t) \/ AccountStep(t) \/ Commit(t) \/ Abort(t)
  PROVE  CreditBalances' /\ Owes(t)'
<1>0. TypeOK /\ (pc[t] = "idle" => ledNew[t] = None)
  BY IdleEmpty DEF Knows
<1>1. ASSUME UNCHANGED <<ledger, creditLog>> PROVE CreditBalances'
  BY <1>1 DEF CreditBalances
<1>2. ASSUME UNCHANGED creditLog, ledNew'[t] = None \/ (UNCHANGED req /\ ledNew'[t] = ledNew[t])
      PROVE  Owes(t)'
  BY <1>2 DEF Owes, Owed
<1>3. ASSUME Rollback(t) PROVE CreditBalances' /\ Owes(t)'
  <2>1. UNCHANGED <<ledger, creditLog>> /\ ledNew'[t] = None
    BY <1>0, <1>3 DEF Rollback, EndSession, committed, TypeOK
  <2> QED
    BY <1>1, <1>2, <2>1
<1>4. CASE Commit(t)
  <2>1. ledNew'[t] = None
    BY <1>0, <1>4 DEF Commit, EndSession, TypeOK
  <2> QED
    BY <1>4, <2>1, CommitCredits DEF Owes
<1>5. CASE SaleOwe(t) /\ ~Rollback(t)
  <2>1. PICK c \in Customers : c = req[t].c
    BY <1>0, <1>5 DEF SaleOwe, TypeOK, InStage, SaleStages
  <2>2. /\ ledger[c] # None /\ req[t].op = "sale" /\ UNCHANGED <<ledger, creditLog, req>>
        /\ ledNew'[t] = Charged(ledger[c], req[t].amount)
    BY <1>0, <1>5, <2>1 DEF SaleOwe, committed, TypeOK, InStage, SaleStages
  <2>3. Owes(t)'
    BY <2>1, <2>2 DEF Owes, Owed, Charged, CreditBalances
  <2> QED
    BY <1>1, <2>2, <2>3
<1>6. CASE SaleCreateLedger(t) /\ ~Rollback(t)
  <2>1. PICK c \in Customers : c = req[t].c
    BY <1>0, <1>6 DEF SaleCreateLedger, TypeOK, InStage, SaleStages
  <2>2. /\ ledger[c] = None /\ req[t].op = "sale" /\ UNCHANGED <<ledger, creditLog, req>>
        /\ ledNew'[t] = Charged([balance |-> 0, limit |-> 0], req[t].amount)
    BY <1>0, <1>6, <2>1 DEF SaleCreateLedger, committed, TypeOK, InStage, SaleStages
  <2>3. creditLog[c] = <<>>
    BY <2>2 DEF Knows, LastInv, LastEntryIsBalance, CreditShows
  <2>4. Owes(t)'
    BY <2>1, <2>2, <2>3, SumEmpty DEF Owes, Owed, Charged
  <2> QED
    BY <1>1, <2>2, <2>4
<1>7. ASSUME NEW c \in Customers, NEW n \in Amounts, Repay(t, c, n) PROVE CreditBalances' /\ Owes(t)'
  <2>1. /\ ledger[c] # None /\ UNCHANGED <<ledger, creditLog>>
        /\ req'[t] = Asks("repay", c, None, FALSE, n, <<>>)
        /\ ledNew'[t] = Charged(ledger[c], -n)
    BY <1>0, <1>7 DEF Repay, committed, TypeOK
  <2>2. req'[t].c = c /\ req'[t].op = "repay" /\ req'[t].amount = n
    BY <2>1 DEF Asks
  <2>3. ledNew'[t].balance = SumOf(creditLog[c]) + (-n)
    BY <2>1 DEF Charged, CreditBalances
  <2>4. Owed(t)' = -n
    BY <2>2 DEF Owed
  <2>5. Owes(t)'
    BY <2>1, <2>2, <2>3, <2>4 DEF Owes
  <2> QED
    BY <1>1, <2>1, <2>5
<1>8. CASE SaleInsert(t) \/ SaleNoLedger(t) \/ SaleFlushLedger(t) \/ SaleEarn(t) \/ SaleEnroll(t)
  <2>1. CASE ~Rollback(t)
    <3>1. UNCHANGED <<ledger, creditLog, req, ledNew>>
      BY <1>8, <2>1 DEF SaleInsert, SaleNoLedger, SaleFlushLedger, SaleEarn, SaleEnroll, committed
    <3> QED
      BY <1>1, <1>2, <3>1
  <2> QED
    BY <1>3, <2>1
<1>9. CASE \/ \E c \in Customers, id \in SaleIds, total \in Totals, credit \in BOOLEAN :
                SaleBegin(t, c, id, total, credit)
           \/ \E c \in Customers, n \in Amounts, id \in SaleIds \union {None} :
                  Redeem(t, c, n, id)
           \/ \E items \in Batches : AdjustBegin(t, items)
           \/ Expire(t)
  <2>1. UNCHANGED <<ledger, creditLog, ledNew>> /\ pc[t] = "idle"
    BY <1>9 DEF SaleBegin, Redeem, AdjustBegin, Expire, committed
  <2> QED
    BY <1>0, <1>1, <1>2, <2>1
<1>10. CASE AdjustItem(t)
  <2>1. UNCHANGED <<ledger, creditLog, ledNew>> /\ ledNew[t] = None
    BY <1>0, <1>10 DEF AdjustItem, committed, TypeOK, InStage
  <2> QED
    BY <1>1, <1>2, <2>1
<1> QED
  BY <1>3, <1>4, <1>5, <1>6, <1>7, <1>8, <1>9, <1>10 DEF SaleStep, AccountStep, Abort

(* A move leaves the account agreeing with what is posted. *)
LEMMA MoveHolds ==
  ASSUME Knows, NEW t \in Threads, Holds(t), UNCHANGED pointsLog, NEW c \in Customers,
         NEW base \in Account, base.total = SumOf(pointsLog[c] \o posts[t][c]),
         NEW points \in Int, NEW type \in {"EARN", "REDEEM", "ADJUST"},
         NEW id \in SaleIds \union {None}, Move(t, c, base, points, type, id)
  PROVE  Holds(t)'
<1>0. TypeOK
  BY DEF Knows
<1>1. PICK e : e = [type |-> type, amount |-> points, after |-> base.total + points, txn |-> id]
  OBVIOUS
<1>2. e \in Entry /\ e.amount = points
  BY <1>1 DEF Entry, Account
<1>3. /\ posts'[t][c] = Append(posts[t][c], e)
      /\ \A d \in Customers \ {c} : posts'[t][d] = posts[t][d]
  BY <1>0, <1>1, MovePosts
<1>4. /\ accNew'[t][c].total = base.total + points
      /\ \A d \in Customers \ {c} : accNew'[t][d] = accNew[t][d]
  BY <1>0 DEF Move, TypeOK
<1>5. posts[t][c] \in Seq(Entry) /\ pointsLog[c] \in Seq(Entry)
  BY <1>0 DEF TypeOK
<1>6. SumOf(pointsLog[c] \o posts'[t][c]) = SumOf(pointsLog[c] \o posts[t][c]) + points
  BY <1>2, <1>3, <1>5, SumConcat
<1>7. ASSUME NEW d \in Customers, accNew'[t][d] # None
      PROVE  accNew'[t][d].total = SumOf(pointsLog'[d] \o posts'[t][d])
  <2>1. CASE d = c
    BY <1>4, <1>6, <2>1
  <2>2. CASE d # c
    BY <1>3, <1>4, <1>7, <2>2 DEF Holds
  <2> QED
    BY <2>1, <2>2
<1> QED
  BY <1>7 DEF Holds

(* An account as the session sees it. *)
LEMMA SeenBalances ==
  ASSUME Knows, NEW t \in Threads, Holds(t), PointsBalance, NEW c \in Customers,
         NEW row, row = SeenAccount(t, c), row # None
  PROVE  row \in Account /\ row.total = SumOf(pointsLog[c] \o posts[t][c])
<1>0. TypeOK
  BY DEF Knows
<1>1. row \in Account
  BY <1>0 DEF SeenAccount, TypeOK, RowOrNone
<1>2. CASE accNew[t][c] # None
  <2>1. row = accNew[t][c]
    BY <1>2 DEF SeenAccount
  <2> QED
    BY <1>1, <1>2, <2>1 DEF Holds
<1>3. CASE accNew[t][c] = None
  <2>1. posts[t][c] = <<>> /\ pointsLog[c] \in Seq(Entry)
    BY <1>0, <1>3 DEF Knows, LastInv, SessionShows, TypeOK
  <2>2. pointsLog[c] \o posts[t][c] = pointsLog[c]
    BY <2>1, ConcatEmptySeq
  <2> QED
    BY <1>1, <1>3, <2>2 DEF SeenAccount, PointsBalance
<1> QED
  BY <1>1, <1>2, <1>3

LEMMA PointsMove ==
  ASSUME Knows, Knows', NEW t \in Threads, PointsBalance, Holds(t),
         SaleStep(t) \/ AccountStep(t) \/ Commit(t) \/ Abort(t)
  PROVE  PointsBalance' /\ Holds(t)'
<1>0. TypeOK
  BY DEF Knows
<1>1. ASSUME UNCHANGED <<account, pointsLog>> PROVE PointsBalance'
  BY <1>1 DEF PointsBalance
<1>2. ASSUME UNCHANGED <<pointsLog, accNew, posts>> PROVE Holds(t)'
  BY <1>2 DEF Holds
<1>3. ASSUME Rollback(t) PROVE PointsBalance' /\ Holds(t)'
  <2>1. UNCHANGED <<account, pointsLog>> /\ pc'[t] = "idle"
    BY <1>0, <1>3 DEF Rollback, EndSession, committed, TypeOK
  <2> QED
    BY <1>1, <2>1, IdleOwes
<1>4. CASE Commit(t)
  <2>1. pc'[t] = "idle"
    BY <1>0, <1>4 DEF Commit, EndSession, TypeOK
  <2>2. ASSUME NEW c \in Customers, account'[c] # None
        PROVE  account'[c].total = SumOf(pointsLog'[c])
    <3>1. /\ pointsLog'[c] = pointsLog[c] \o posts[t][c]
          /\ account'[c] = SeenAccount(t, c)
      BY <1>4 DEF Commit, SeenAccount
    <3> QED
      BY <2>2, <3>1, SeenBalances
  <2> QED
    BY <2>1, <2>2, IdleOwes DEF PointsBalance
<1>5. CASE SaleEarn(t) \/ (SaleEnroll(t) /\ ~Rollback(t))
  <2>1. UNCHANGED <<account, pointsLog>>
    BY <1>5 DEF SaleEarn, SaleEnroll, committed
  <2>2. PICK c \in Customers : c = req[t].c
    BY <1>0, <1>5 DEF SaleEarn, SaleEnroll, TypeOK, InStage, SaleStages
  <2>3. PICK n \in Int : n = req[t].amount * Rate
    BY <1>0, AccountsAssumption DEF TypeOK, Request
  <2>4. PICK id \in SaleIds : id = req[t].id
    BY <1>0, <1>5 DEF SaleEarn, SaleEnroll, TypeOK, InStage, SaleStages
  <2>5. accNew[t][c] = None /\ posts[t][c] = <<>> /\ pointsLog[c] \in Seq(Entry)
    BY <1>0, <1>5, IdleEmpty DEF SaleEarn, SaleEnroll, SaleStages, TypeOK
  <2>6. pointsLog[c] \o posts[t][c] = pointsLog[c]
    BY <2>5, ConcatEmptySeq
  <2>7. CASE UNCHANGED <<accNew, posts>>
    BY <1>1, <1>2, <2>1, <2>7
  <2>8. CASE account[c] # None /\ Move(t, c, account[c], n, "EARN", id)
    <3>1. PICK base \in Account : base = account[c]
      BY <1>0, <2>8 DEF TypeOK, RowOrNone
    <3>2. base.total = SumOf(pointsLog[c] \o posts[t][c])
      BY <2>6, <2>8, <3>1 DEF PointsBalance
    <3>3. Holds(t)'
      BY <2>1, <2>8, <3>1, <3>2, MoveHolds
    <3> QED
      BY <1>1, <2>1, <3>3
  <2>9. CASE account[c] = None /\ Move(t, c, [total |-> 0, redeemable |-> 0], n, "EARN", id)
    <3>0. [total |-> 0, redeemable |-> 0] \in Account
      BY DEF Account
    <3>1. PICK base \in Account : base = [total |-> 0, redeemable |-> 0]
      BY <3>0
    <3>2. pointsLog[c] = <<>>
      BY <2>9 DEF Knows, LastInv, LastEntryIsBalance, PointsShow
    <3>3. base.total = SumOf(pointsLog[c] \o posts[t][c])
      BY <2>6, <3>1, <3>2, SumEmpty
    <3>4. Holds(t)'
      BY <2>1, <2>9, <3>1, <3>3, MoveHolds
    <3> QED
      BY <1>1, <2>1, <3>4
  <2> QED
    BY <1>5, <2>2, <2>3, <2>4, <2>7, <2>8, <2>9 DEF SaleEarn, SaleEnroll
<1>6. CASE AdjustItem(t)
  <2>1. PICK item : item = Head(req[t].todo)
    OBVIOUS
  <2>2. item.c \in Customers /\ item.points \in Int
    <3>1. req[t].todo \in Seq(Item) /\ req[t].todo # <<>>
      BY <1>0, <1>6 DEF AdjustItem, TypeOK, InStage, Request
    <3>2. item \in Item
      BY <2>1, <3>1, HeadTailProperties
    <3> QED
      BY <3>2 DEF Item
  <2>3. PICK row : row = SeenAccount(t, item.c)
    OBVIOUS
  <2>4. /\ UNCHANGED <<account, pointsLog>>
        /\ row = None => UNCHANGED <<accNew, posts>>
        /\ row # None => Move(t, item.c, row, item.points, "ADJUST", None)
    BY <1>6, <2>1, <2>3 DEF AdjustItem, committed
  <2>5. CASE row = None
    BY <1>1, <1>2, <2>4, <2>5
  <2>6. CASE row # None
    <3>1. row \in Account /\ row.total = SumOf(pointsLog[item.c] \o posts[t][item.c])
      BY <2>2, <2>3, <2>6, SeenBalances
    <3>2. Holds(t)'
      BY <2>2, <2>4, <2>6, <3>1, MoveHolds
    <3> QED
      BY <1>1, <2>4, <3>2
  <2> QED
    BY <2>5, <2>6
<1>7. CASE Expire(t)
  <2>1. UNCHANGED <<account, pointsLog>>
    BY <1>7 DEF Expire, committed
  <2>2. ASSUME NEW c \in Customers, accNew'[t][c] # None
        PROVE  accNew'[t][c].total = SumOf(pointsLog'[c] \o posts'[t][c])
    <3>1. PICK e : e = [type |-> "EXPIRE", amount |-> -account[c].redeemable,
                        after |-> Emptied(account[c]).total, txn |-> None]
      OBVIOUS
    <3>2. c \in Expired /\ accNew'[t][c] = Emptied(account[c]) /\ posts'[t][c] = <<e>>
      BY <1>0, <1>7, <2>2, <3>1 DEF Expire, TypeOK
    <3>3. account[c] \in Account /\ account[c].total = SumOf(pointsLog[c])
      BY <1>0, <3>2 DEF Expired, TypeOK, RowOrNone, PointsBalance
    <3>4. e \in Entry /\ e.amount = -account[c].redeemable /\ e.amount \in Int
      BY <3>1, <3>3 DEF Entry, Emptied, Account
    <3>5. <<>> \in Seq(Entry) /\ Append(<<>>, e) = <<e>> /\ pointsLog[c] \in Seq(Entry)
      BY <1>0, <3>4 DEF TypeOK
    <3>6. SumOf(pointsLog[c] \o Append(<<>>, e)) = SumOf(pointsLog[c] \o <<>>) + e.amount
      BY <3>4, <3>5, SumConcat
    <3>7. pointsLog[c] \o <<>> = pointsLog[c]
      BY <3>5, ConcatEmptySeq
    <3>8. SumOf(pointsLog[c] \o posts'[t][c]) = account[c].total + e.amount
      BY <3>2, <3>3, <3>5, <3>6, <3>7
    <3>9. accNew'[t][c].total = account[c].total + e.amount
      <4>1. Emptied(account[c]).total = account[c].total - account[c].redeemable
        BY DEF Emptied
      <4>2. account[c].total \in Int /\ account[c].redeemable \in Int
        BY <3>3 DEF Account
      <4> QED
        BY <3>2, <3>4, <4>1, <4>2
    <3> QED
      BY <2>1, <3>8, <3>9
  <2>3. Holds(t)'
    BY <2>2 DEF Holds
  <2> QED
    BY <1>1, <2>1, <2>3
<1>8. ASSUME NEW c \in Customers, NEW n \in Amounts,
             NEW id \in SaleIds \union {None}, Redeem(t, c, n, id)
      PROVE  PointsBalance' /\ Holds(t)'
  <2>1. UNCHANGED <<account, pointsLog>> /\ Move(t, c, account[c], -n, "REDEEM", id)
        /\ account[c] # None /\ pc[t] = "idle"
    BY <1>8 DEF Redeem, committed
  <2>2. PICK m \in Int : m = -n
    BY AccountsAssumption
  <2>3. PICK base \in Account : base = account[c]
    BY <1>0, <2>1 DEF TypeOK, RowOrNone
  <2>4. base.total = SumOf(pointsLog[c] \o posts[t][c])
    <3>1. posts[t][c] = <<>> /\ pointsLog[c] \in Seq(Entry)
      BY <1>0, <2>1, IdleEmpty DEF TypeOK
    <3>2. pointsLog[c] \o posts[t][c] = pointsLog[c]
      BY <3>1, ConcatEmptySeq
    <3> QED
      BY <2>1, <2>3, <3>2 DEF PointsBalance
  <2>5. Holds(t)'
    BY <2>1, <2>2, <2>3, <2>4, MoveHolds
  <2> QED
    BY <1>1, <2>1, <2>5
<1>9. CASE SaleInsert(t) \/ SaleNoLedger(t) \/ SaleFlushLedger(t) \/ SaleOwe(t) \/ SaleCreateLedger(t)
  <2>1. CASE ~Rollback(t)
    <3>1. UNCHANGED <<account, pointsLog, accNew, posts>>
      BY <1>9, <2>1 DEF SaleInsert, SaleNoLedger, SaleFlushLedger, SaleOwe, SaleCreateLedger, committed
    <3> QED
      BY <1>1, <1>2, <3>1
  <2> QED
    BY <1>3, <2>1
<1>10. CASE \/ \E c \in Customers, id \in SaleIds, total \in Totals, credit \in BOOLEAN :
                 SaleBegin(t, c, id, total, credit)
            \/ \E c \in Customers, n \in Amounts : Repay(t, c, n)
            \/ \E items \in Batches : AdjustBegin(t, items)
  <2>1. UNCHANGED <<account, pointsLog, accNew, posts>>
    BY <1>10 DEF SaleBegin, Repay, AdjustBegin, committed
  <2> QED
    BY <1>1, <1>2, <2>1
<1> QED
  BY <1>3, <1>4, <1>5, <1>6, <1>7, <1>8, <1>9, <1>10 DEF SaleStep, AccountStep, Abort

(* Sets of at most one member. *)
LEMMA OneIsAll ==
  ASSUME NEW S, IsFiniteSet(S), Cardinality(S) <= 1, NEW t \in S, NEW u \in S
  PROVE  t = u
<1> SUFFICES ASSUME t # u PROVE FALSE
  OBVIOUS
<1>1. IsFiniteSet({t}) /\ Cardinality({t}) = 1
  BY FS_Singleton
<1>2. IsFiniteSet({t} \union {u}) /\ Cardinality({t} \union {u}) = 2
  <2>1. u \notin {t}
    OBVIOUS
  <2> QED
    BY <1>1, <2>1, FS_AddElement
<1>3. {t} \union {u} \subseteq S
  OBVIOUS
<1>4. Cardinality({t} \union {u}) <= Cardinality(S) /\ Cardinality(S) \in Nat
  BY <1>3, FS_Subset, FS_CardinalityType
<1> QED
  BY <1>2, <1>4

(* A step is one thread's, which is at work before it or after it, or none's. *)
LEMMA OneActs ==
  ASSUME TypeOK, NEW t \in Threads, SaleStep(t) \/ AccountStep(t) \/ Commit(t) \/ Abort(t)
  PROVE  /\ \A u \in Threads : u # t => pc'[u] = pc[u]
         /\ pc[t] # "idle" \/ pc'[t] # "idle"
<1> USE DEF TypeOK
<1>1. ASSUME Rollback(t) \/ Commit(t) PROVE \A u \in Threads : u # t => pc'[u] = pc[u]
  BY <1>1 DEF Rollback, Commit, EndSession
<1>2. CASE Commit(t) \/ Abort(t)
  BY <1>1, <1>2 DEF Commit, Abort
<1>3. CASE SaleInsert(t) \/ SaleNoLedger(t) \/ SaleFlushLedger(t) \/ SaleOwe(t) \/ SaleCreateLedger(t)
           \/ SaleEarn(t) \/ SaleEnroll(t) \/ AdjustItem(t)
  <2>1. pc[t] # "idle"
    BY <1>3 DEF SaleInsert, SaleNoLedger, SaleFlushLedger, SaleOwe, SaleCreateLedger, SaleEarn, SaleEnroll,
                AdjustItem
  <2>2. ~Rollback(t) => \A u \in Threads : u # t => pc'[u] = pc[u]
    BY <1>3 DEF SaleInsert, SaleNoLedger, SaleFlushLedger, SaleOwe, SaleCreateLedger, SaleEarn, SaleEnroll,
                AdjustItem
  <2> QED
    BY <1>1, <2>1, <2>2
<1>4. CASE \/ \E c \in Customers, id \in SaleIds, total \in Totals, credit \in BOOLEAN :
                SaleBegin(t, c, id, total, credit)
           \/ \E c \in Customers, n \in Amounts :
                Repay(t, c, n) \/ \E id \in SaleIds \union {None} : Redeem(t, c, n, id)
           \/ \E items \in Batches : AdjustBegin(t, items)
           \/ Expire(t)
  <2>1. PICK stage \in {"insert", "commit", "adjust"} : pc' = [pc EXCEPT ![t] = stage]
    BY <1>4 DEF SaleBegin, Repay, Redeem, AdjustBegin, Expire
  <2> QED
    BY <2>1
<1> QED
  BY <1>2, <1>3, <1>4 DEF SaleStep, AccountStep

SerialStart == OneActive /\ SerialInv

LEMMA SerialInit ==
  ASSUME MCInit
  PROVE  SerialStart
<1>1. /\ \A t \in Threads : pc[t] = "idle" /\ ledNew[t] = None /\ accNew[t] = NoRows
      /\ account = NoRows /\ creditLog = NoPosts /\ pointsLog = NoPosts
      /\ ledger = [c \in Customers |->
                     IF Limit[c] = None THEN None ELSE [balance |-> 0, limit |-> Limit[c]]]
  BY DEF MCInit, Init
<1>2. OneActive
  BY <1>1 DEF OneActive
<1>3. CreditBalances
  <2>1. ASSUME NEW c \in Customers, ledger[c] # None PROVE ledger[c].balance = 0 /\ creditLog[c] = <<>>
    BY <1>1, <2>1 DEF NoPosts
  <2> QED
    BY <2>1, SumEmpty DEF CreditBalances
<1>4. PointsBalance /\ \A t \in Threads : Owes(t) /\ Holds(t)
  BY <1>1 DEF PointsBalance, NoRows, Owes, Holds
<1> QED
  BY <1>2, <1>3, <1>4 DEF SerialStart, SerialInv

LEMMA SerialStep ==
  ASSUME IsFiniteSet(Threads), Knows, Knows', SerialStart, [MCNext]_<<vars, overlapped>>
  PROVE  SerialStart'
<1>0. TypeOK /\ OneActive /\ SerialInv
  BY DEF Knows, SerialStart
<1>1. CASE UNCHANGED <<vars, overlapped>>
  <2>1. UNCHANGED <<pc, overlapped, ledger, account, creditLog, pointsLog, ledNew, accNew, posts, req>>
    BY <1>1 DEF vars
  <2>2. OneActive'
    BY <1>0, <2>1 DEF OneActive
  <2>3. SerialInv'
    BY <1>0, <2>1 DEF SerialInv, CreditBalances, PointsBalance, Owes, Holds, Owed
  <2> QED
    BY <2>2, <2>3 DEF SerialStart
<1>2. CASE MCNext
  <2> SUFFICES ASSUME ~overlapped' PROVE SerialStart'
    BY DEF SerialStart, OneActive, SerialInv
  <2>1. ~overlapped /\ ~(Cardinality(Busy') > 1) /\ Next
    BY <1>2 DEF MCNext
  <2>2. \A u, v \in Threads : pc'[u] # "idle" /\ pc'[v] # "idle" => u = v
    <3>1. PICK A : A = Busy'
      OBVIOUS
    <3>2. A \subseteq Threads
      BY <3>1 DEF Busy
    <3>3. IsFiniteSet(A) /\ Cardinality(A) \in Nat
      BY <3>2, FS_Subset, FS_CardinalityType
    <3>4. Cardinality(A) <= 1
      BY <2>1, <3>1, <3>3
    <3>5. \A u, v \in A : u = v
      BY <3>3, <3>4, OneIsAll
    <3> QED
      BY <3>1, <3>5 DEF Busy
  <2>3. OneActive'
    BY <2>2 DEF OneActive
  <2>4. CreditBalances /\ PointsBalance /\ \A t \in Threads : Owes(t) /\ Holds(t)
    BY <1>0, <2>1 DEF SerialInv
  <2>5. ASSUME NEW t \in Threads, SaleStep(t) \/ AccountStep(t) \/ Commit(t) \/ Abort(t)
        PROVE  SerialInv'
    <3>1. CreditBalances' /\ PointsBalance' /\ Owes(t)' /\ Holds(t)'
      BY <2>4, <2>5, CreditStep, PointsMove
    <3>2. ASSUME NEW u \in Threads, u # t PROVE Owes(u)' /\ Holds(u)'
      <4>1. pc'[u] = pc[u] /\ (pc[t] # "idle" \/ pc'[t] # "idle")
        BY <1>0, <2>5, <3>2, OneActs
      <4>2. pc'[u] = "idle"
        BY <1>0, <2>1, <2>2, <3>2, <4>1 DEF OneActive
      <4> QED
        BY <4>2, IdleOwes
    <3> QED
      BY <3>1, <3>2 DEF SerialInv
  <2>6. ASSUME NEW c \in Customers, Enroll(c) PROVE SerialInv'
    <3>1. /\ UNCHANGED <<ledger, creditLog, pointsLog, ledNew, accNew, posts, req>>
          /\ account[c] = None /\ account' = [account EXCEPT ![c] = [total |-> 0, redeemable |-> 0]]
      BY <2>6 DEF Enroll, sessions
    <3>2. pointsLog[c] = <<>>
      BY <3>1 DEF Knows, LastInv, LastEntryIsBalance, PointsShow
    <3>3. PointsBalance'
      BY <1>0, <2>4, <3>1, <3>2, SumEmpty DEF PointsBalance, TypeOK
    <3>4. CreditBalances' /\ \A t \in Threads : Owes(t)' /\ Holds(t)'
      BY <2>4, <3>1 DEF CreditBalances, Owes, Owed, Holds
    <3> QED
      BY <3>3, <3>4 DEF SerialInv
  <2>7. ASSUME SwitchProgram \/ \E c \in Customers : BecomeDormant(c) PROVE SerialInv'
    <3>1. UNCHANGED <<ledger, account, creditLog, pointsLog, ledNew, accNew, posts, req>>
      BY <2>7 DEF SwitchProgram, BecomeDormant, committed, sessions
    <3> QED
      BY <2>4, <3>1 DEF SerialInv, CreditBalances, PointsBalance, Owes, Owed, Holds
  <2> QED
    BY <2>1, <2>3, <2>5, <2>6, <2>7 DEF Next, SerialStart
<1> QED
  BY <1>1, <1>2

(* As long as no two requests overlap, what a customer owes is the sum of   *)
(* the credit entries and what points a customer has is the sum of the      *)
(* loyalty entries: a sale, a repayment, a redemption, an adjustment or the *)
(* expiry posts exactly what it adds, also when it makes the account.       *)
THEOREM SerialBooks ==
  ASSUME IsFiniteSet(Threads)
  PROVE  MCSpec => []SerialBooksBalance
<1>1. MCSpec => Spec
  <2>1. MCInit => Init
    BY DEF MCInit
  <2>2. [MCNext]_<<vars, overlapped>> => [Next]_vars
    BY DEF MCNext
  <2> QED
    BY <2>1, <2>2, PTL DEF MCSpec, Spec
<1>2. Spec => []Knows
  <2>1. TypeOK /\ LastInv /\ OnceInv => Knows
    BY DEF Knows
  <2> QED
    BY <2>1, TypeInvariant, LastInductive, OnceInductive, PTL
<1>3. MCInit => SerialStart
  BY SerialInit
<1>4. Knows /\ Knows' /\ SerialStart /\ [MCNext]_<<vars, overlapped>> => SerialStart'
  BY SerialStep
<1>5. SerialStart => SerialBooksBalance
  BY DEF SerialStart, SerialInv, CreditBalances, PointsBalance, SerialBooksBalance, BooksBalance
<1> QED
  BY <1>1, <1>2, <1>3, <1>4, <1>5, PTL DEF MCSpec
=============================================================================
