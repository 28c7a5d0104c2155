------------------------ MODULE Stockroom_proofs ------------------------
(***************************************************************************)
(* What TLC checks of the stockroom on a small instance, for any number of *)
(* threads, workers, orders' lines, invoices, products and suggestions.    *)
(*                                                                         *)
(* Purchase orders.  PoInv says what a request knows: what it has put on   *)
(* lines whose row locks it holds (Locked), that the lines it is to insert *)
(* are nobody else's (Numbered, Apart), and that it takes to the stock     *)
(* what it has put on lines, except between a line and its product         *)
(* (Matched).  So a commit adds the same to the lines as to the stock, and *)
(* what the others hold is spared by every step (Spares).  PoSerial: what  *)
(* a lone request has decided still holds (Decided).                       *)
(*                                                                         *)
(* Invoices.  OcrInv: a session holds the rows it has written, no two hold *)
(* one, and stock and adjustments part by what commits overwrote.  JobsInv *)
(* adds what a lone session knows of its job (Told).                       *)
(*                                                                         *)
(* Inventory.  ShopInv: a session changes stock by what it records (Fit),  *)
(* and no two insert one product (OwnNew).  PriceInv: who holds the lock   *)
(* of the weekly run is the only one to insert suggestions (Exclusive),    *)
(* where none is pending (Due).  RecordsInv: what a lone session has read  *)
(* is still so, and the history it adds is the price it writes (Reads).    *)
(*                                                                         *)
(* Waiting.  A row is locked only by a session that is at work (Held,      *)
(* AtWork, Resting), so that whoever waits waits for one that can go on or *)
(* for a circle.  Unread: what is so of every invoice as long as nothing   *)
(* but the broker starts process_ocr_job.                                  *)
(***************************************************************************)
EXTENDS MCStockroom, Sums

-----------------------------------------------------------------------------
(* The inductive invariant. *)

Request ==
  [op : {"none", "send", "confirm", "cancel", "update", "receive"},
   pc : {"idle", "delete", "lock", "line", "product", "check", "commit"},
   todo : Seq(Delivered), status : Statuses \union {None},
   lines : [LineIds -> PoLine \union {None}], stock : [Products -> Int \union {None}],
   booked : [LineIds -> Nat], deleted : SUBSET LineIds, new : [LineIds -> PoLine \union {None}]]

PoTables ==
  /\ status \in Statuses
  /\ lines \in [LineIds -> PoLine \union {None}] /\ got \in [LineIds -> Nat]
  /\ stock \in [Products -> Int]
  /\ lineLock \in [LineIds -> Threads \union {None}] /\ prodLock \in [Products -> Threads \union {None}]
  /\ used \in 0 .. MaxLines
  /\ \A l \in LineIds : l > used => lines[l] = None /\ got[l] = 0

\* Where a request is says which handler it is of.
Placed(r) ==
  /\ r.pc = "idle" <=> r.op = "none"
  /\ r.pc \in {"line", "product", "check"} => r.op = "receive"
  /\ r.pc \in {"delete", "lock"} => r.op = "update"
  /\ r.pc \in {"line", "product"} => r.todo # <<>>
  /\ r.op # "receive" => /\ \A l \in LineIds : r.lines[l] = None
                         /\ \A p \in Products : r.stock[p] = None
  /\ r.op # "update" => r.deleted = {} /\ \A l \in LineIds : r.new[l] = None

\* What a request has done to rows it has done with their locks.
Locked(t, r) ==
  /\ \A l \in LineIds : r.lines[l] = None => r.booked[l] = 0
  /\ \A l \in LineIds : r.lines[l] # None =>
       /\ lineLock[l] = t /\ lines[l] # None
       /\ r.lines[l].received = lines[l].received + r.booked[l]
  /\ \A p \in Products : r.stock[p] # None => prodLock[p] = t
  /\ r.pc = "commit" => \A l \in r.deleted : lines[l] # None => lineLock[l] = t

\* The lines it is to insert are new, those it is to delete are not.
Numbered(r) ==
  /\ \A l \in LineIds : r.new[l] # None =>
       /\ lines[l] = None /\ got[l] = 0 /\ l <= used
       /\ r.new[l].received = 0
  /\ \A l \in r.deleted : l <= used

\* What it takes to the stock is what it has put on lines, but for the item in between.
Gain(r) == [p \in Products |-> IF r.stock[p] = None THEN 0 ELSE r.stock[p] - stock[p]]
Between(r) == IF r.pc = "product" THEN Head(r.todo).qty ELSE 0
Matched(r) == Total(r.booked, LineIds) = Total(Gain(r), Products) + Between(r)

Apart ==
  \A t, u \in Threads, l \in LineIds :
    /\ t # u /\ req[t].new[l] # None => req[u].new[l] = None
    /\ l \in req[t].deleted => req[u].new[l] = None

PoInv ==
  /\ PoTables /\ req \in [Threads -> Request]
  /\ \A t \in Threads : Placed(req[t]) /\ Locked(t, req[t]) /\ Numbered(req[t]) /\ Matched(req[t])
  /\ Apart /\ ReceiptsAddUp

\* A step of a thread leaves what the others have locked, drawn and seen.
Spares(t) ==
  /\ \A l \in LineIds : lineLock[l] \notin {t, None} =>
       lineLock'[l] = lineLock[l] /\ (lines[l] # None => lines'[l] = lines[l])
  /\ \A p \in Products : prodLock[p] \notin {t, None} => prodLock'[p] = prodLock[p] /\ stock'[p] = stock[p]
  /\ \A u \in Threads \ {t}, l \in LineIds : req[u].new[l] # None => lines'[l] = None /\ got'[l] = 0
  /\ \A u \in Threads \ {t} : \A l \in req[u].deleted : lines[l] = None => lines'[l] = None
  /\ used <= used'

Good(t, r) == Placed(r) /\ Locked(t, r) /\ Numbered(r) /\ Matched(r)

LEMMA LinesFinite == IsFiniteSet(LineIds) /\ IsFiniteSet(Products) /\ None \notin Threads /\ None \notin Int /\ None \notin PoLine
<1>1. IsFiniteSet(1 .. MaxLines)
  BY OrdersAssumption, FS_Interval
<1> QED
  BY <1>1, OrdersAssumption DEF LineIds, PoLine

LEMMA GoodIs ==
  ASSUME PoInv, NEW t \in Threads
  PROVE  req[t] \in Request /\ Good(t, req[t])
  BY DEF PoInv, Good

\* The sums of the property are those of Sums.
LEMMA AddUpIs ==
  /\ ReceiptsAddUp <=> /\ \A l \in Present(lines) : lines[l].received = got[l]
                       /\ Total(stock, Products) = Total(got, LineIds)
  /\ ReceiptsAddUp' <=> /\ \A l \in Present(lines') : lines'[l].received = got'[l]
                        /\ Total(stock', Products) = Total(got', LineIds)
<1>1. ReceiptsAddUp <=> /\ \A l \in Present(lines) : lines[l].received = got[l]
                        /\ Total(stock, Products) = Total(got, LineIds)
  BY DEF ReceiptsAddUp, Total, MapThenSumSet, MapThenFoldSet
<1>2. ReceiptsAddUp' <=> /\ \A l \in Present(lines') : lines'[l].received = got'[l]
                         /\ Total(stock', Products) = Total(got', LineIds)
  BY DEF ReceiptsAddUp, Total, MapThenSumSet, MapThenFoldSet, Present
<1> QED
  BY <1>1, <1>2

LEMMA IdleIs ==
  /\ Idle \in Request /\ Idle.op = "none" /\ Idle.pc = "idle" /\ Idle.deleted = {} /\ Idle.status = None
  /\ \A l \in LineIds : Idle.lines[l] = None /\ Idle.booked[l] = 0 /\ Idle.new[l] = None
  /\ \A p \in Products : Idle.stock[p] = None
  BY DEF Idle, Request

LEMMA OthersKeep ==
  ASSUME PoInv, PoTables', NEW t \in Threads, Spares(t), NEW u \in Threads, u # t, NEW q, q = req[u]
  PROVE  Good(u, q)'
<1>1. q \in Request /\ Placed(q) /\ Locked(u, q) /\ Numbered(q) /\ Matched(q) /\ u # None
  BY LinesFinite DEF PoInv
<1>2. Placed(q)'
  BY <1>1 DEF Placed
<1>3. Locked(u, q)'
  <2>1. \A l \in LineIds : q.lines[l] # None =>
          /\ lineLock'[l] = u /\ lines'[l] # None
          /\ q.lines[l].received = lines'[l].received + q.booked[l]
    BY <1>1 DEF Locked, Spares
  <2>2. \A p \in Products : q.stock[p] # None => prodLock'[p] = u
    BY <1>1 DEF Locked, Spares
  <2>3. ASSUME q.pc = "commit", NEW l \in q.deleted, lines'[l] # None
        PROVE  lineLock'[l] = u
    <3>1. l \in LineIds
      BY <1>1, <2>3 DEF Request
    <3>2. lines[l] # None
      BY <2>3 DEF Spares
    <3>3. lineLock[l] = u
      BY <1>1, <2>3, <3>2 DEF Locked
    <3> QED
      BY <1>1, <3>1, <3>3 DEF Spares
  <2> QED
    BY <1>1, <2>1, <2>2, <2>3 DEF Locked
<1>4. Numbered(q)'
  <2>1. used \in Int /\ used' \in Int /\ used <= used' /\ LineIds \subseteq Int
    BY OrdersAssumption DEF PoInv, PoTables, Spares, LineIds
  <2>2. ASSUME NEW l \in LineIds, q.new[l] # None
        PROVE  lines'[l] = None /\ got'[l] = 0 /\ l <= used' /\ q.new[l].received = 0
    BY <1>1, <2>1, <2>2 DEF Numbered, Spares
  <2>3. ASSUME NEW l \in q.deleted PROVE l <= used'
    <3>1. l \in LineIds /\ l <= used
      BY <1>1 DEF Numbered, Request
    <3> QED
      BY <2>1, <3>1
  <2> QED
    BY <2>2, <2>3 DEF Numbered
<1>5. Matched(q)'
  <2>1. \A p \in Products : Gain(q)[p] = Gain(q)'[p]
    BY <1>1 DEF Gain, Locked, Spares
  <2>2. PICK g : g = Gain(q)
    OBVIOUS
  <2>3. PICK k : k = Gain(q)'
    OBVIOUS
  <2>4. Total(g, Products) = Total(k, Products)
    BY <2>1, <2>2, <2>3, LinesFinite, TotalSame
  <2> QED
    BY <1>1, <2>2, <2>3, <2>4 DEF Matched, Between
<1> QED
  BY <1>2, <1>3, <1>4, <1>5 DEF Good

LEMMA PoMoves ==
  ASSUME PoInv, PoTables', ReceiptsAddUp', NEW t \in Threads, NEW r \in Request, req' = [req EXCEPT ![t] = r],
         Spares(t), Good(t, r)',
         \A u \in Threads \ {t}, l \in LineIds :
           /\ r.new[l] # None => req[u].new[l] = None /\ l \notin req[u].deleted
           /\ l \in r.deleted => req[u].new[l] = None,
         \A l \in r.deleted : r.new[l] = None
  PROVE  PoInv'
<1>1. /\ req' \in [Threads -> Request] /\ req'[t] = r
      /\ \A u \in Threads : u # t => req'[u] = req[u]
  BY DEF PoInv
<1>2. ASSUME NEW u \in Threads PROVE Good(u, req[u])'
  <2>1. PICK q : q = req'[u]
    OBVIOUS
  <2>2. Good(u, q)'
    <3>1. CASE u = t
      BY <1>1, <2>1, <3>1
    <3>2. CASE u # t
      <4>1. q = req[u]
        BY <1>1, <2>1, <3>2
      <4> QED
        BY <3>2, <4>1, OthersKeep
    <3> QED
      BY <3>1, <3>2
  <2> QED
    BY <2>1, <2>2 DEF Good, Placed, Locked, Numbered, Matched, Gain, Between
<1>3. Apart'
  <2>1. ASSUME NEW u \in Threads, NEW v \in Threads, NEW l \in LineIds
        PROVE  /\ u # v /\ req'[u].new[l] # None => req'[v].new[l] = None
               /\ l \in req'[u].deleted => req'[v].new[l] = None
    BY <1>1, <2>1 DEF PoInv, Apart
  <2> QED
    BY <2>1 DEF Apart
<1> QED
  BY <1>1, <1>2, <1>3 DEF PoInv, Good

-----------------------------------------------------------------------------
(* Requests that begin, and sessions that end. *)

LEMMA IdleGood ==
  ASSUME NEW t, PoTables'
  PROVE  Good(t, Idle)'
<1>1. Placed(Idle)' /\ Locked(t, Idle)' /\ Numbered(Idle)'
  BY IdleIs DEF Placed, Locked, Numbered
<1>2. Matched(Idle)'
  <2>1. Total(Idle.booked, LineIds) = 0
    BY IdleIs, LinesFinite, TotalZero
  <2>2. \A p \in Products : Gain(Idle)'[p] = 0
    BY IdleIs DEF Gain
  <2>3. PICK g : g = Gain(Idle)'
    OBVIOUS
  <2>4. Total(g, Products) = 0
    BY <2>2, <2>3, LinesFinite, TotalZero
  <2> QED
    BY <2>1, <2>3, <2>4, IdleIs DEF Matched, Between, Idle
<1> QED
  BY <1>1, <1>2 DEF Good

\* A request that has only read.
Fresh(r) ==
  /\ r \in Request /\ Placed(r) /\ r.pc # "product" /\ r.deleted = {}
  /\ \A l \in LineIds : r.lines[l] = None /\ r.booked[l] = 0
  /\ \A p \in Products : r.stock[p] = None
  /\ \A l \in LineIds : r.new[l] # None => l > used /\ l <= used' /\ r.new[l].received = 0

LEMMA PoBegins ==
  ASSUME PoInv, NEW t \in Threads, NEW r, Begin(t, r), used' \in used .. MaxLines, Fresh(r)
  PROVE  PoInv'
<1>1. /\ UNCHANGED <<status, lines, stock, got, lineLock, prodLock>>
      /\ req' = [req EXCEPT ![t] = r] /\ r \in Request
  BY DEF Begin, committed, Fresh
<1>2. used \in 0 .. MaxLines /\ used \in Int /\ used' \in Int /\ used <= used' /\ LineIds \subseteq Int /\ MaxLines \in Int
  BY OrdersAssumption DEF PoInv, PoTables, LineIds
<1>3. PoTables'
  BY <1>1, <1>2 DEF PoInv, PoTables
<1>4. ReceiptsAddUp'
  BY <1>1, AddUpIs DEF PoInv
<1>5. \A u \in Threads, l \in LineIds : req[u].new[l] # None => l <= used
  BY DEF PoInv, Numbered
<1>6. \A u \in Threads : \A l \in req[u].deleted : l <= used
  BY DEF PoInv, Numbered
<1>7. Spares(t)
  <2>1. \A u \in Threads, l \in LineIds : req[u].new[l] # None => lines[l] = None /\ got[l] = 0
    BY DEF PoInv, Numbered
  <2> QED
    BY <1>1, <1>2, <2>1 DEF Spares
<1>8. Good(t, r)'
  <2>1. Placed(r)' /\ Locked(t, r)'
    BY DEF Fresh, Placed, Locked
  <2>2. Numbered(r)'
    BY <1>1, <1>2 DEF Fresh, Numbered, PoInv, PoTables
  <2>3. Matched(r)'
    <3>1. Total(r.booked, LineIds) = 0
      BY LinesFinite, TotalZero DEF Fresh
    <3>2. \A p \in Products : Gain(r)'[p] = 0
      BY DEF Fresh, Gain
    <3>3. PICK g : g = Gain(r)'
      OBVIOUS
    <3>4. Total(g, Products) = 0
      BY <3>2, <3>3, LinesFinite, TotalZero
    <3> QED
      BY <3>1, <3>3, <3>4 DEF Matched, Between, Fresh
  <2> QED
    BY <2>1, <2>2, <2>3 DEF Good
<1>9. \A u \in Threads \ {t}, l \in LineIds :
        /\ r.new[l] # None => req[u].new[l] = None /\ l \notin req[u].deleted
        /\ l \in r.deleted => req[u].new[l] = None
  BY <1>2, <1>5, <1>6 DEF Fresh
<1> QED
  BY <1>1, <1>3, <1>4, <1>7, <1>8, <1>9, PoMoves DEF Fresh

\* A session that ends keeps the locks of the others.
LEMMA Frees ==
  ASSUME PoInv, NEW t \in Threads, EndSession(t)
  PROVE  /\ lineLock' \in [LineIds -> Threads \union {None}] /\ prodLock' \in [Products -> Threads \union {None}]
         /\ \A l \in LineIds : lineLock[l] \notin {t, None} => lineLock'[l] = lineLock[l]
         /\ \A p \in Products : prodLock[p] \notin {t, None} => prodLock'[p] = prodLock[p]
  BY DEF PoInv, PoTables, EndSession

LEMMA RollsBack ==
  ASSUME PoInv, NEW t \in Threads, Rollback(t)
  PROVE  PoInv'
<1>1. UNCHANGED <<status, lines, stock, got, used>> /\ EndSession(t) /\ req' = [req EXCEPT ![t] = Idle]
  BY DEF Rollback, EndSession, committed
<1>2. PoTables' /\ used <= used'
  BY <1>1, Frees, OrdersAssumption DEF PoInv, PoTables
<1>3. ReceiptsAddUp'
  BY <1>1, AddUpIs DEF PoInv
<1>4. Spares(t)
  <2>1. \A u \in Threads, l \in LineIds : req[u].new[l] # None => lines[l] = None /\ got[l] = 0
    BY DEF PoInv, Numbered
  <2> QED
    BY <1>1, <1>2, <2>1, Frees DEF Spares
<1> QED
  BY <1>1, <1>2, <1>3, <1>4, IdleGood, IdleIs, PoMoves

LEMMA WritesIs ==
  ASSUME NEW op \in {"send", "confirm", "cancel"}, NEW new \in Statuses, NEW r, r = Writes(op, new)
  PROVE  /\ Fresh(r) /\ r.op = op /\ r.pc = "commit" /\ r.status = new
<1>1. /\ r.op = op /\ r.pc = "commit" /\ r.status = new /\ r.lines = Idle.lines /\ r.stock = Idle.stock
      /\ r.booked = Idle.booked /\ r.new = Idle.new /\ r.deleted = Idle.deleted /\ r \in Request
  BY IdleIs DEF Writes, Request
<1> QED
  BY <1>1, IdleIs DEF Fresh, Placed

LEMMA SendsConfirmsCancels ==
  ASSUME PoInv, NEW t \in Threads, Send(t) \/ Confirm(t) \/ Cancel(t)
  PROVE  PoInv'
<1>1. PICK op \in {"send", "confirm", "cancel"}, new \in Statuses :
        Begin(t, Writes(op, new)) /\ used' = used
  BY DEF Send, Confirm, Cancel, Statuses
<1>2. PICK r : r = Writes(op, new)
  OBVIOUS
<1>3. Fresh(r)
  BY <1>2, WritesIs
<1>4. used' \in used .. MaxLines
  BY <1>1, OrdersAssumption DEF PoInv, PoTables
<1> QED
  BY <1>1, <1>2, <1>3, <1>4, PoBegins

LEMMA RowsAre ==
  ASSUME NEW draft \in Seq(Ordered), NEW n \in Nat
  PROVE  /\ Rows(draft, n) \in [LineIds -> PoLine \union {None}]
         /\ \A l \in LineIds : Rows(draft, n)[l] # None =>
              l > n /\ l <= n + Len(draft) /\ Rows(draft, n)[l].received = 0
<1>1. DOMAIN draft = 1 .. Len(draft) /\ Len(draft) \in Nat /\ LineIds \subseteq Int
  BY OrdersAssumption DEF LineIds
<1>2. ASSUME NEW l \in LineIds, l - n \in DOMAIN draft
      PROVE  /\ [product |-> draft[l - n].product, ordered |-> draft[l - n].ordered, received |-> 0] \in PoLine
             /\ l > n /\ l <= n + Len(draft)
  <2>1. draft[l - n] \in Ordered
    BY <1>2
  <2>2. l \in Int /\ l - n >= 1 /\ l - n <= Len(draft)
    BY <1>1, <1>2
  <2> QED
    BY <1>1, <2>1, <2>2 DEF Ordered, PoLine
<1> QED
  BY <1>2 DEF Rows

LEMMA Updates ==
  ASSUME PoInv, NEW t \in Threads, NEW draft \in Drafts, Update(t, draft)
  PROVE  PoInv'
<1>1. PICK r : r = [Idle EXCEPT !.op = "update", !.pc = "delete", !.new = Rows(draft, used)]
  OBVIOUS
<1>2. Begin(t, r) /\ used' = used + Len(draft) /\ used + Len(draft) <= MaxLines
  BY <1>1 DEF Update
<1>3. used \in Nat /\ draft \in Seq(Ordered) /\ Len(draft) \in Nat /\ MaxLines \in Nat
  BY OrdersAssumption DEF PoInv, PoTables
<1>4. used' \in used .. MaxLines
  BY <1>2, <1>3
<1>5. PICK new : new = Rows(draft, used)
  OBVIOUS
<1>6. /\ new \in [LineIds -> PoLine \union {None}]
      /\ \A l \in LineIds : new[l] # None => l > used /\ l <= used' /\ new[l].received = 0
  BY <1>2, <1>3, <1>5, RowsAre
<1>7. /\ r.op = "update" /\ r.pc = "delete" /\ r.lines = Idle.lines /\ r.stock = Idle.stock
      /\ r.booked = Idle.booked /\ r.new = new /\ r.deleted = Idle.deleted /\ r \in Request
  BY <1>1, <1>5, <1>6, IdleIs DEF Request
<1>8. Fresh(r)
  BY <1>6, <1>7, IdleIs DEF Fresh, Placed
<1> QED
  BY <1>2, <1>4, <1>8, PoBegins

LEMMA Receives ==
  ASSUME PoInv, NEW t \in Threads, NEW given \in Deliveries, Receive(t, given)
  PROVE  PoInv'
<1>1. PICK r : r = [Idle EXCEPT !.op = "receive", !.pc = "line", !.todo = given]
  OBVIOUS
<1>2. Begin(t, r) /\ used' = used
  BY <1>1 DEF Receive
<1>3. given \in Seq(Delivered) /\ given # <<>>
  BY OrdersAssumption
<1>4. used' \in used .. MaxLines
  BY <1>2, OrdersAssumption DEF PoInv, PoTables
<1>5. Fresh(r)
  BY <1>1, <1>3 DEF Idle, Request, Fresh, Placed
<1> QED
  BY <1>2, <1>4, <1>5, PoBegins

-----------------------------------------------------------------------------
(* Steps of a session before its commit. *)

LEMMA PoSpares ==
  ASSUME PoInv, NEW t \in Threads, UNCHANGED <<committed, used>>,
         lineLock' \in [LineIds -> Threads \union {None}], prodLock' \in [Products -> Threads \union {None}],
         \A l \in LineIds : lineLock[l] \notin {t, None} => lineLock'[l] = lineLock[l],
         \A p \in Products : prodLock[p] \notin {t, None} => prodLock'[p] = prodLock[p]
  PROVE  PoTables' /\ ReceiptsAddUp' /\ Spares(t)
<1>1. UNCHANGED <<status, lines, stock, got, used>>
  BY DEF committed
<1>2. PoTables' /\ used <= used'
  BY <1>1, OrdersAssumption DEF PoInv, PoTables
<1>3. ReceiptsAddUp'
  BY <1>1, AddUpIs DEF PoInv
<1>4. \A u \in Threads, l \in LineIds : req[u].new[l] # None => lines[l] = None /\ got[l] = 0
  BY DEF PoInv, Numbered
<1>5. Spares(t)
  BY <1>1, <1>2, <1>4 DEF Spares
<1> QED
  BY <1>2, <1>3, <1>5

\* What of a request the others do not share.
LEMMA ApartIs ==
  ASSUME PoInv, NEW t \in Threads, NEW o, o = req[t]
  PROVE  /\ \A u \in Threads \ {t}, l \in LineIds :
              /\ o.new[l] # None => req[u].new[l] = None /\ l \notin req[u].deleted
              /\ l \in o.deleted => req[u].new[l] = None
         /\ \A l \in o.deleted : l \in LineIds /\ o.new[l] = None
<1>1. \A l \in o.deleted : l \in LineIds
  BY DEF PoInv, Request
<1> QED
  BY <1>1 DEF PoInv, Apart

LEMMA SeesLines ==
  ASSUME PoInv, NEW t \in Threads, UpdateSees(t)
  PROVE  PoInv'
<1>1. PICK o : o = req[t]
  OBVIOUS
<1>2. o \in Request /\ Good(t, o) /\ o.pc = "delete"
  BY <1>1, GoodIs DEF UpdateSees
<1>3. PICK r : r = [o EXCEPT !.pc = "lock", !.deleted = Present(lines)]
  OBVIOUS
<1>4. /\ r.pc = "lock" /\ r.deleted = Present(lines) /\ r.op = o.op /\ r.lines = o.lines /\ r.stock = o.stock
      /\ r.booked = o.booked /\ r.new = o.new /\ r.todo = o.todo /\ r \in Request
  BY <1>2, <1>3 DEF Request, Present
<1>5. req' = [req EXCEPT ![t] = r] /\ UNCHANGED <<committed, lineLock, prodLock, used>>
  BY <1>1, <1>2, <1>3 DEF UpdateSees, PoInv
<1>6. PoTables' /\ ReceiptsAddUp' /\ Spares(t)
  BY <1>5, PoSpares DEF PoInv, PoTables
<1>7. UNCHANGED <<status, lines, stock, got>>
  BY <1>5 DEF committed
<1>8. \A l \in LineIds : l \in Present(lines) => l <= used /\ \A u \in Threads : req[u].new[l] = None
  BY OrdersAssumption DEF PoInv, PoTables, Present, Numbered, LineIds
<1>9. Good(t, r)'
  <2>1. Placed(r)'
    BY <1>2, <1>4 DEF Good, Placed
  <2>2. Locked(t, r)'
    BY <1>2, <1>4, <1>5, <1>7 DEF Good, Locked
  <2>3. Numbered(r)'
    BY <1>2, <1>4, <1>5, <1>7, <1>8 DEF Good, Numbered, Present
  <2>4. Matched(r)'
    BY <1>2, <1>4, <1>7 DEF Good, Matched, Gain, Between
  <2> QED
    BY <2>1, <2>2, <2>3, <2>4 DEF Good
<1>10. /\ \A u \in Threads \ {t}, l \in LineIds :
            /\ r.new[l] # None => req[u].new[l] = None /\ l \notin req[u].deleted
            /\ l \in r.deleted => req[u].new[l] = None
       /\ \A l \in r.deleted : r.new[l] = None
  BY <1>1, <1>4, <1>8, ApartIs DEF Present
<1> QED
  BY <1>4, <1>5, <1>6, <1>9, <1>10, PoMoves

LEMMA DeletesLines ==
  ASSUME PoInv, NEW t \in Threads, UpdateDeletes(t)
  PROVE  PoInv'
<1>1. PICK o : o = req[t]
  OBVIOUS
<1>2. o \in Request /\ Good(t, o) /\ o.pc = "lock"
  BY <1>1, GoodIs DEF UpdateDeletes
<1>3. PICK r : r = [o EXCEPT !.pc = "commit"]
  OBVIOUS
<1>4. /\ r.pc = "commit" /\ r.deleted = o.deleted /\ r.op = o.op /\ r.lines = o.lines /\ r.stock = o.stock
      /\ r.booked = o.booked /\ r.new = o.new /\ r.todo = o.todo /\ r \in Request
  BY <1>2, <1>3 DEF Request
<1>5. /\ req' = [req EXCEPT ![t] = r] /\ UNCHANGED <<committed, prodLock, used>>
      /\ \A l \in o.deleted : lineLock[l] \in {None, t}
      /\ lineLock' = [l \in LineIds |-> IF l \in o.deleted \intersect Present(lines) THEN t ELSE lineLock[l]]
  BY <1>1, <1>2, <1>3 DEF UpdateDeletes, Free, PoInv
<1>6. PoTables' /\ ReceiptsAddUp' /\ Spares(t)
  <2>1. lineLock' \in [LineIds -> Threads \union {None}] /\ prodLock' \in [Products -> Threads \union {None}]
    BY <1>5 DEF PoInv, PoTables
  <2> QED
    BY <1>5, <2>1, PoSpares
<1>7. UNCHANGED <<status, lines, stock, got>>
  BY <1>5 DEF committed
<1>8. Good(t, r)'
  <2>1. Placed(r)'
    BY <1>2, <1>4 DEF Good, Placed
  <2>2. Locked(t, r)'
    <3>1. r.op # "receive"
      BY <1>2, <1>4 DEF Good, Placed
    <3>2. ASSUME NEW l \in r.deleted, lines'[l] # None PROVE lineLock'[l] = t
      BY <1>2, <1>4, <1>5, <1>7, <3>2 DEF Request, Present
    <3> QED
      BY <1>2, <1>4, <3>1, <3>2 DEF Good, Locked, Placed
  <2>3. Numbered(r)'
    BY <1>2, <1>4, <1>5, <1>7 DEF Good, Numbered
  <2>4. Matched(r)'
    BY <1>2, <1>4, <1>7 DEF Good, Matched, Gain, Between
  <2> QED
    BY <2>1, <2>2, <2>3, <2>4 DEF Good
<1>9. /\ \A u \in Threads \ {t}, l \in LineIds :
           /\ r.new[l] # None => req[u].new[l] = None /\ l \notin req[u].deleted
           /\ l \in r.deleted => req[u].new[l] = None
      /\ \A l \in r.deleted : r.new[l] = None
  BY <1>1, <1>4, ApartIs
<1> QED
  BY <1>4, <1>5, <1>6, <1>8, <1>9, PoMoves

LEMMA ChecksLines ==
  ASSUME PoInv, NEW t \in Threads, ReceiveCheck(t)
  PROVE  PoInv'
<1>1. PICK o : o = req[t]
  OBVIOUS
<1>2. o \in Request /\ Good(t, o) /\ o.pc = "check"
  BY <1>1, GoodIs DEF ReceiveCheck
<1>3. PICK s \in {"FULFILLED", None} : s = IF Complete(t) THEN "FULFILLED" ELSE None
  OBVIOUS
<1>4. PICK r : r = [o EXCEPT !.pc = "commit", !.status = s]
  OBVIOUS
<1>5. /\ r.pc = "commit" /\ r.deleted = o.deleted /\ r.op = o.op /\ r.lines = o.lines /\ r.stock = o.stock
      /\ r.booked = o.booked /\ r.new = o.new /\ r.todo = o.todo /\ r \in Request
  BY <1>2, <1>3, <1>4 DEF Request, Statuses
<1>6. req' = [req EXCEPT ![t] = r] /\ UNCHANGED <<committed, lineLock, prodLock, used>>
  BY <1>1, <1>2, <1>3, <1>4 DEF ReceiveCheck, PoInv
<1>7. PoTables' /\ ReceiptsAddUp' /\ Spares(t)
  BY <1>6, PoSpares DEF PoInv, PoTables
<1>8. UNCHANGED <<status, lines, stock, got>>
  BY <1>6 DEF committed
<1>9. Good(t, r)'
  <2>1. Placed(r)'
    BY <1>2, <1>5 DEF Good, Placed
  <2>2. Locked(t, r)'
    BY <1>2, <1>5, <1>6, <1>8 DEF Good, Locked, Placed
  <2>3. Numbered(r)'
    BY <1>2, <1>5, <1>6, <1>8 DEF Good, Numbered
  <2>4. Matched(r)'
    BY <1>2, <1>5, <1>8 DEF Good, Matched, Gain, Between
  <2> QED
    BY <2>1, <2>2, <2>3, <2>4 DEF Good
<1>10. /\ \A u \in Threads \ {t}, l \in LineIds :
            /\ r.new[l] # None => req[u].new[l] = None /\ l \notin req[u].deleted
            /\ l \in r.deleted => req[u].new[l] = None
       /\ \A l \in r.deleted : r.new[l] = None
  BY <1>1, <1>5, ApartIs
<1> QED
  BY <1>5, <1>6, <1>7, <1>9, <1>10, PoMoves

\* A row as the session sees it.
LEMMA SeenIs ==
  ASSUME PoInv, NEW t \in Threads, NEW o, o = req[t], NEW l \in LineIds, lines[l] # None
  PROVE  /\ SeenLine(t, l) \in PoLine
         /\ SeenLine(t, l).received = lines[l].received + o.booked[l]
         /\ lines[l].received \in Int /\ o.booked[l] \in Nat
<1>1. o \in Request /\ Locked(t, o)
  BY GoodIs DEF Good
<1>2. lines[l] \in PoLine /\ o.lines[l] \in PoLine \union {None} /\ o.booked[l] \in Nat
  BY <1>1 DEF PoInv, PoTables, Request
<1>3. lines[l].received \in Int
  BY <1>2 DEF PoLine
<1> QED
  BY <1>1, <1>2, <1>3 DEF SeenLine, Locked

LEMMA BooksLine ==
  ASSUME PoInv, NEW t \in Threads, ReceiveLine(t)
  PROVE  PoInv'
<1>1. PICK o : o = req[t]
  OBVIOUS
<1>2. o \in Request /\ Good(t, o) /\ o.pc = "line"
  BY <1>1, GoodIs DEF ReceiveLine
<1>3. PICK item : item = Head(o.todo)
  OBVIOUS
<1>4. item \in Delivered /\ item.qty \in Nat
  <2>1. o.todo \in Seq(Delivered) /\ o.todo # <<>>
    BY <1>2 DEF Good, Placed, Request
  <2>2. item \in Delivered
    BY <1>3, <2>1
  <2> QED
    BY <2>2 DEF Delivered
<1>5. CASE Rollback(t)
  BY <1>5, RollsBack
<1>6. ASSUME NEW l \in LinesOf(item.product), Free(lineLock[l], t), lineLock' = [lineLock EXCEPT ![l] = t],
             req' = [req EXCEPT
                       ![t].pc = "product",
                       ![t].lines[l] = [SeenLine(t, l) EXCEPT !.received = @ + item.qty],
                       ![t].booked[l] = @ + item.qty],
             UNCHANGED <<committed, prodLock, used>>
      PROVE  PoInv'
  <2>1. l \in LineIds /\ lines[l] # None
    BY DEF LinesOf, Present
  <2>2. PICK seen : seen = SeenLine(t, l)
    OBVIOUS
  <2>3. seen \in PoLine /\ seen.received = lines[l].received + o.booked[l] /\ lines[l].received \in Int
        /\ o.booked[l] \in Nat
    BY <1>1, <2>1, <2>2, SeenIs
  <2>4. PICK row : row = [seen EXCEPT !.received = @ + item.qty]
    OBVIOUS
  <2>5. row \in PoLine /\ row.received = lines[l].received + (o.booked[l] + item.qty) /\ row # None
    BY <1>4, <2>3, <2>4, LinesFinite DEF PoLine
  <2>6. PICK ls : ls = [o.lines EXCEPT ![l] = row]
    OBVIOUS
  <2>7. PICK b : b = [o.booked EXCEPT ![l] = @ + item.qty]
    OBVIOUS
  <2>8. /\ ls \in [LineIds -> PoLine \union {None}] /\ ls[l] = row
        /\ \A m \in LineIds : m # l => ls[m] = o.lines[m]
    BY <1>2, <2>1, <2>5, <2>6 DEF Request
  <2>9. /\ b \in [LineIds -> Nat] /\ b[l] = o.booked[l] + item.qty
        /\ \A m \in LineIds : m # l => b[m] = o.booked[m]
    BY <1>2, <1>4, <2>1, <2>3, <2>7 DEF Request
  <2>10. PICK r : r = [o EXCEPT !.pc = "product", !.lines = ls, !.booked = b]
    OBVIOUS
  <2>11. /\ r.pc = "product" /\ r.lines = ls /\ r.booked = b /\ r.op = o.op /\ r.stock = o.stock
         /\ r.new = o.new /\ r.deleted = o.deleted /\ r.todo = o.todo /\ r \in Request
    BY <1>2, <2>8, <2>9, <2>10 DEF Request
  <2>12. req' = [req EXCEPT ![t] = r]
    BY <1>1, <1>2, <1>6, <2>2, <2>4, <2>6, <2>7, <2>10 DEF PoInv, Request
  <2>13. PoTables' /\ ReceiptsAddUp' /\ Spares(t)
    <3>1. lineLock' \in [LineIds -> Threads \union {None}] /\ prodLock' \in [Products -> Threads \union {None}]
      BY <1>6, <2>1 DEF PoInv, PoTables
    <3>2. \A m \in LineIds : lineLock[m] \notin {t, None} => lineLock'[m] = lineLock[m]
      BY <1>6, <2>1 DEF PoInv, PoTables, Free
    <3> QED
      BY <1>6, <3>1, <3>2, PoSpares
  <2>14. UNCHANGED <<status, lines, stock, got>>
    BY <1>6 DEF committed
  <2>15. Placed(r)'
    BY <1>2, <2>11 DEF Good, Placed
  <2>16. Locked(t, r)'
    <3>1. lineLock'[l] = t /\ \A m \in LineIds : m # l => lineLock'[m] = lineLock[m]
      BY <1>6, <2>1 DEF PoInv, PoTables
    <3> QED
      BY <1>2, <1>6, <2>1, <2>5, <2>8, <2>9, <2>11, <2>14, <3>1 DEF Good, Locked
  <2>17. Numbered(r)'
    BY <1>2, <1>6, <2>11, <2>14 DEF Good, Numbered
  <2>18. Matched(r)'
    <3>1. Gain(r)' = Gain(o)
      BY <2>11, <2>14 DEF Gain
    <3>2. PutAt(o.booked, LineIds, b, LineIds, l)
      BY <1>2, <2>1, <2>9, LinesFinite DEF PutAt, Request
    <3>3. Total(b, LineIds) = Total(o.booked, LineIds) + (b[l] - Was(o.booked, LineIds, l))
      BY <3>2, TotalPut
    <3>4. Was(o.booked, LineIds, l) = o.booked[l]
      BY <2>1 DEF Was
    <3>5. Total(o.booked, LineIds) = Total(Gain(o), Products) + 0
      BY <1>2 DEF Good, Matched, Between
    <3>6. Total(o.booked, LineIds) \in Int
      BY <1>2, LinesFinite, TotalInt DEF Request
    <3>7. Total(Gain(o), Products) \in Int
      <4>1. \A p \in Products : Gain(o)[p] \in Int
        BY <1>2, LinesFinite DEF Gain, Request, PoInv, PoTables
      <4>2. PICK g : g = Gain(o)
        OBVIOUS
      <4> QED
        BY <4>1, <4>2, LinesFinite, TotalInt
    <3>8. Total(b, LineIds) = Total(Gain(o), Products) + item.qty
      BY <1>4, <2>3, <2>9, <3>3, <3>4, <3>5, <3>6, <3>7
    <3> QED
      BY <1>3, <2>11, <3>1, <3>8 DEF Matched, Between
  <2>19. Good(t, r)'
    BY <2>15, <2>16, <2>17, <2>18 DEF Good
  <2>20. /\ \A u \in Threads \ {t}, m \in LineIds :
              /\ r.new[m] # None => req[u].new[m] = None /\ m \notin req[u].deleted
              /\ m \in r.deleted => req[u].new[m] = None
         /\ \A m \in r.deleted : r.new[m] = None
    BY <1>1, <2>11, ApartIs
  <2> QED
    BY <2>11, <2>12, <2>13, <2>19, <2>20, PoMoves
<1> QED
  BY <1>1, <1>3, <1>5, <1>6 DEF ReceiveLine

\* The head of what is still to book, and what comes after it.
LEMMA HeadIs ==
  ASSUME NEW o \in Request, o.todo # <<>>
  PROVE  /\ Head(o.todo) \in Delivered /\ Head(o.todo).qty \in Nat
         /\ Tail(o.todo) \in Seq(Delivered)
<1>1. o.todo \in Seq(Delivered)
  BY DEF Request
<1>2. Head(o.todo) \in Delivered /\ Tail(o.todo) \in Seq(Delivered)
  BY <1>1
<1> QED
  BY <1>2 DEF Delivered

LEMMA GainInt ==
  ASSUME PoInv, NEW o \in Request
  PROVE  /\ \A p \in Products : Gain(o)[p] \in Int
         /\ Total(Gain(o), Products) \in Int /\ Total(o.booked, LineIds) \in Int
<1>1. \A p \in Products : Gain(o)[p] \in Int
  BY LinesFinite DEF Gain, Request, PoInv, PoTables
<1>2. PICK g : g = Gain(o)
  OBVIOUS
<1>3. Total(g, Products) \in Int
  BY <1>1, <1>2, LinesFinite, TotalInt
<1>4. Total(o.booked, LineIds) \in Int
  BY LinesFinite, TotalInt DEF Request
<1> QED
  BY <1>1, <1>2, <1>3, <1>4

LEMMA BooksProduct ==
  ASSUME PoInv, NEW t \in Threads, ReceiveProduct(t)
  PROVE  PoInv'
<1>1. PICK o : o = req[t]
  OBVIOUS
<1>2. o \in Request /\ Good(t, o) /\ o.pc = "product"
  BY <1>1, GoodIs DEF ReceiveProduct
<1>3. o.todo # <<>>
  BY <1>2 DEF Good, Placed
<1>4. PICK item : item = Head(o.todo)
  OBVIOUS
<1>5. item.qty \in Nat /\ Tail(o.todo) \in Seq(Delivered)
  BY <1>2, <1>3, <1>4, HeadIs
<1>6. PICK p : p = item.product
  OBVIOUS
<1>7. CASE p \notin Products
  <2>1. Rollback(t)
    BY <1>1, <1>4, <1>6, <1>7 DEF ReceiveProduct
  <2> QED
    BY <2>1, RollsBack
<1>8. CASE p \in Products
  <2>1. /\ prodLock[p] \in {None, t} /\ prodLock' = [prodLock EXCEPT ![p] = t]
        /\ req' = [req EXCEPT
                      ![t].stock[p] = SeenStock(t, p) + item.qty,
                      ![t].todo = Tail(@),
                      ![t].pc = NextStage(req[t].todo)]
        /\ UNCHANGED <<committed, lineLock, used>>
    BY <1>1, <1>4, <1>6, <1>8 DEF ReceiveProduct, Free
  <2>2. PICK seen : seen = SeenStock(t, p)
    OBVIOUS
  <2>3. seen \in Int /\ stock[p] \in Int /\ seen = IF o.stock[p] # None THEN o.stock[p] ELSE stock[p]
    BY <1>1, <1>2, <1>8, <2>2, LinesFinite DEF SeenStock, Request, PoInv, PoTables
  <2>4. PICK n : n = seen + item.qty
    OBVIOUS
  <2>5. n \in Int /\ n # None
    BY <1>5, <2>3, <2>4, LinesFinite
  <2>6. PICK st : st = [o.stock EXCEPT ![p] = n]
    OBVIOUS
  <2>7. /\ st \in [Products -> Int \union {None}] /\ st[p] = n
        /\ \A q \in Products : q # p => st[q] = o.stock[q]
    BY <1>2, <1>8, <2>5, <2>6 DEF Request
  <2>8. PICK stage \in {"check", "line"} : stage = NextStage(o.todo)
    BY DEF NextStage
  <2>9. PICK rest : rest = Tail(o.todo)
    OBVIOUS
  <2>10. PICK r : r = [o EXCEPT !.pc = stage, !.stock = st, !.todo = rest]
    OBVIOUS
  <2>11. /\ r.pc = stage /\ r.lines = o.lines /\ r.booked = o.booked /\ r.op = o.op /\ r.stock = st
         /\ r.new = o.new /\ r.deleted = o.deleted /\ r.todo = rest /\ r \in Request
    BY <1>2, <1>5, <2>7, <2>8, <2>9, <2>10 DEF Request
  <2>12. req' = [req EXCEPT ![t] = r]
    BY <1>1, <1>2, <2>1, <2>2, <2>4, <2>6, <2>8, <2>9, <2>10 DEF PoInv, Request
  <2>13. PoTables' /\ ReceiptsAddUp' /\ Spares(t)
    <3>1. lineLock' \in [LineIds -> Threads \union {None}] /\ prodLock' \in [Products -> Threads \union {None}]
      BY <1>8, <2>1 DEF PoInv, PoTables
    <3>2. \A q \in Products : prodLock[q] \notin {t, None} => prodLock'[q] = prodLock[q]
      BY <1>8, <2>1 DEF PoInv, PoTables
    <3> QED
      BY <2>1, <3>1, <3>2, PoSpares
  <2>14. UNCHANGED <<status, lines, stock, got>>
    BY <2>1 DEF committed
  <2>15. Placed(r)'
    BY <1>2, <2>8, <2>9, <2>11 DEF Good, Placed, NextStage
  <2>16. Locked(t, r)'
    <3>1. prodLock'[p] = t /\ \A q \in Products : q # p => prodLock'[q] = prodLock[q]
      BY <1>8, <2>1 DEF PoInv, PoTables
    <3> QED
      BY <1>2, <2>1, <2>7, <2>8, <2>11, <2>14, <3>1 DEF Good, Locked
  <2>17. Numbered(r)'
    BY <1>2, <2>1, <2>11, <2>14 DEF Good, Numbered
  <2>18. Matched(r)'
    <3>1. PICK g : g = Gain(o)
      OBVIOUS
    <3>2. PICK k : k = Gain(r)'
      OBVIOUS
    <3>3. /\ k[p] = g[p] + item.qty /\ g[p] \in Int
          /\ \A q \in Products : q # p => k[q] = g[q]
      <4>1. g[p] = seen - stock[p] /\ k[p] = n - stock[p]
        BY <1>8, <2>3, <2>5, <2>7, <2>11, <2>14, <3>1, <3>2 DEF Gain
      <4>2. \A q \in Products : q # p => k[q] = g[q]
        BY <2>7, <2>11, <2>14, <3>1, <3>2 DEF Gain
      <4> QED
        BY <1>5, <2>3, <2>4, <4>1, <4>2
    <3>4. PutAt(g, Products, k, Products, p)
      BY <1>2, <1>5, <1>8, <3>1, <3>3, GainInt, LinesFinite DEF PutAt
    <3>5. Total(k, Products) = Total(g, Products) + (k[p] - Was(g, Products, p))
      BY <3>4, TotalPut
    <3>6. Was(g, Products, p) = g[p]
      BY <1>8 DEF Was
    <3>7. Total(g, Products) \in Int
      BY <1>2, <3>1, GainInt
    <3>8. Total(k, Products) = Total(g, Products) + item.qty
      BY <1>5, <3>3, <3>5, <3>6, <3>7
    <3>9. Total(o.booked, LineIds) = Total(g, Products) + item.qty
      BY <1>2, <1>4, <3>1 DEF Good, Matched, Between
    <3>10. Between(r)' = 0
      BY <2>8, <2>11 DEF Between
    <3>11. Total(r.booked, LineIds) = Total(k, Products) + 0
      BY <1>5, <2>11, <3>7, <3>8, <3>9
    <3> QED
      BY <3>2, <3>10, <3>11 DEF Matched
  <2>19. Good(t, r)'
    BY <2>15, <2>16, <2>17, <2>18 DEF Good
  <2>20. /\ \A u \in Threads \ {t}, m \in LineIds :
              /\ r.new[m] # None => req[u].new[m] = None /\ m \notin req[u].deleted
              /\ m \in r.deleted => req[u].new[m] = None
         /\ \A m \in r.deleted : r.new[m] = None
    BY <1>1, <2>11, ApartIs
  <2> QED
    BY <2>11, <2>12, <2>13, <2>19, <2>20, PoMoves
<1> QED
  BY <1>7, <1>8

-----------------------------------------------------------------------------
(* The commit. *)

\* What the commit of the request o writes, row by row.
Written(o) ==
  /\ \A l \in LineIds :
       /\ o.new[l] # None => lines'[l] = o.new[l] /\ lines[l] = None /\ o.lines[l] = None /\ got[l] = 0
       /\ o.new[l] = None /\ l \in o.deleted => lines'[l] = None
       /\ o.new[l] = None /\ l \notin o.deleted =>
            lines'[l] = IF o.lines[l] # None THEN o.lines[l] ELSE lines[l]
       /\ got'[l] = got[l] + o.booked[l]
       /\ o.lines[l] = None => o.booked[l] = 0
       /\ o.lines[l] # None => lines[l] # None /\ o.lines[l].received = lines[l].received + o.booked[l]
  /\ \A p \in Products : /\ o.stock[p] = None => stock'[p] = stock[p]
                         /\ o.stock[p] # None => stock'[p] = o.stock[p]
  /\ used' = used

LEMMA WrittenIs ==
  ASSUME PoInv, NEW t \in Threads, NEW o, o = req[t], Commit(t)
  PROVE  Written(o)
<1>1. o \in Request /\ Good(t, o) /\ o.pc = "commit"
  BY GoodIs DEF Commit
<1>2. \A l \in LineIds : o.new[l] # None => lines[l] = None /\ got[l] = 0 /\ o.lines[l] = None
  BY <1>1 DEF Good, Numbered, Locked
<1>3. \A l \in LineIds : /\ o.lines[l] = None => o.booked[l] = 0
                         /\ o.lines[l] # None => lines[l] # None /\ o.lines[l].received = lines[l].received + o.booked[l]
  BY <1>1 DEF Good, Locked
<1>4. /\ lines' = [l \in LineIds |-> IF o.new[l] # None THEN o.new[l]
                                     ELSE IF l \in o.deleted THEN None
                                     ELSE IF o.lines[l] # None THEN o.lines[l] ELSE lines[l]]
      /\ stock' = [p \in Products |-> IF o.stock[p] # None THEN o.stock[p] ELSE stock[p]]
      /\ got' = [l \in LineIds |-> got[l] + o.booked[l]]
      /\ used' = used
  BY DEF Commit, SeenLine, SeenStock
<1> QED
  BY <1>2, <1>3, <1>4 DEF Written

LEMMA WritesTables ==
  ASSUME PoInv, NEW t \in Threads, NEW o, o = req[t], Commit(t)
  PROVE  PoTables'
<1>1. o \in Request /\ Good(t, o)
  BY GoodIs
<1>2. Written(o)
  BY WrittenIs
<1>3. EndSession(t) /\ status' = IF o.status = None THEN status ELSE o.status
  BY DEF Commit
<1>4. status' \in Statuses
  BY <1>1, <1>3 DEF Request, PoInv, PoTables
<1>5. lines' \in [LineIds -> PoLine \union {None}]
  <2>1. DOMAIN lines' = LineIds /\ lines' = [l \in LineIds |-> lines'[l]]
    BY DEF Commit
  <2>2. \A l \in LineIds : lines'[l] \in PoLine \union {None}
    BY <1>1, <1>2 DEF Written, Request, PoInv, PoTables
  <2> QED
    BY <2>1, <2>2
<1>6. got' \in [LineIds -> Nat]
  <2>1. got' = [l \in LineIds |-> got'[l]]
    BY DEF Commit
  <2>2. \A l \in LineIds : got'[l] \in Nat
    <3>1. \A l \in LineIds : got[l] \in Nat /\ o.booked[l] \in Nat
      BY <1>1 DEF Request, PoInv, PoTables
    <3> QED
      BY <1>2, <3>1 DEF Written
  <2> QED
    BY <2>1, <2>2
<1>7. stock' \in [Products -> Int]
  <2>1. stock' = [p \in Products |-> stock'[p]]
    BY DEF Commit
  <2>2. \A p \in Products : stock'[p] \in Int
    BY <1>1, <1>2 DEF Written, Request, PoInv, PoTables
  <2> QED
    BY <2>1, <2>2
<1>8. ASSUME NEW l \in LineIds, l > used PROVE lines'[l] = None /\ got'[l] = 0
  <2>1. lines[l] = None /\ got[l] = 0
    BY <1>8 DEF PoInv, PoTables
  <2>2. o.new[l] = None
    <3>1. o.new[l] # None => l <= used
      BY <1>1 DEF Good, Numbered
    <3>2. l \in Int /\ used \in Int
      BY OrdersAssumption DEF PoInv, PoTables, LineIds
    <3> QED
      BY <1>8, <3>1, <3>2
  <2> QED
    BY <1>2, <2>1, <2>2 DEF Written
<1>9. used' = used
  BY <1>2 DEF Written
<1>10. lineLock' \in [LineIds -> Threads \union {None}] /\ prodLock' \in [Products -> Threads \union {None}]
  BY <1>3, Frees
<1>11. used \in 0 .. MaxLines
  BY DEF PoInv, PoTables
<1> QED
  BY <1>4, <1>5, <1>6, <1>7, <1>8, <1>9, <1>10, <1>11 DEF PoTables

LEMMA WritesAddUp ==
  ASSUME PoInv, NEW t \in Threads, NEW o, o = req[t], Commit(t)
  PROVE  ReceiptsAddUp'
<1>1. o \in Request /\ Good(t, o) /\ o.pc = "commit"
  BY GoodIs DEF Commit
<1>2. Written(o) /\ PoTables'
  BY WrittenIs, WritesTables
<1>3. /\ \A l \in LineIds : lines[l] # None => lines[l].received = got[l]
      /\ Total(stock, Products) = Total(got, LineIds)
  BY AddUpIs DEF PoInv, Present
<1>4. ASSUME NEW l \in LineIds, lines'[l] # None PROVE lines'[l].received = got'[l]
  <2>1. got[l] \in Nat /\ o.booked[l] \in Nat
    BY <1>1 DEF Request, PoInv, PoTables
  <2>2. CASE o.new[l] # None
    <3>1. o.new[l].received = 0
      BY <1>1, <2>2 DEF Good, Numbered
    <3> QED
      BY <1>2, <2>1, <2>2, <3>1 DEF Written
  <2>3. CASE o.new[l] = None /\ o.lines[l] # None
    BY <1>2, <1>3, <1>4, <2>1, <2>3 DEF Written
  <2>4. CASE o.new[l] = None /\ o.lines[l] = None
    BY <1>2, <1>3, <1>4, <2>1, <2>4 DEF Written
  <2> QED
    BY <2>2, <2>3, <2>4
<1>5. Total(stock', Products) = Total(got', LineIds)
  <2>1. PICK g : g = Gain(o)
    OBVIOUS
  <2>2. PICK s : s = stock'
    OBVIOUS
  <2>3. PICK h : h = got'
    OBVIOUS
  <2>4. \A p \in Products : stock[p] \in Int /\ s[p] \in Int /\ g[p] \in Int /\ s[p] = stock[p] + g[p]
    <3>1. \A p \in Products : stock[p] \in Int /\ s[p] \in Int
      BY <1>2, <2>2 DEF PoInv, PoTables
    <3>2. \A p \in Products : g[p] = IF o.stock[p] = None THEN 0 ELSE s[p] - stock[p]
      BY <1>2, <2>1, <2>2 DEF Written, Gain
    <3>3. \A p \in Products : o.stock[p] = None => s[p] = stock[p]
      BY <1>2, <2>2 DEF Written
    <3> QED
      BY <3>1, <3>2, <3>3
  <2>5. Total(s, Products) = Total(stock, Products) + Total(g, Products)
    BY <2>4, LinesFinite, TotalChange
  <2>6. \A l \in LineIds : got[l] \in Int /\ h[l] \in Int /\ o.booked[l] \in Int /\ h[l] = got[l] + o.booked[l]
    BY <1>1, <1>2, <2>3 DEF Request, PoInv, PoTables, Written
  <2>7. Total(h, LineIds) = Total(got, LineIds) + Total(o.booked, LineIds)
    <3>1. PICK b : b = o.booked
      OBVIOUS
    <3>2. Total(h, LineIds) = Total(got, LineIds) + Total(b, LineIds)
      BY <2>6, <3>1, LinesFinite, TotalChange
    <3> QED
      BY <3>1, <3>2
  <2>8. Total(o.booked, LineIds) = Total(g, Products) + 0 /\ Total(g, Products) \in Int
    BY <1>1, <2>1, GainInt DEF Good, Matched, Between
  <2> QED
    BY <1>3, <2>2, <2>3, <2>5, <2>7, <2>8
<1> QED
  BY <1>4, <1>5, AddUpIs DEF Present

LEMMA WritesApart ==
  ASSUME PoInv, NEW t \in Threads, NEW o, o = req[t], Commit(t)
  PROVE  Spares(t)
<1>1. o \in Request /\ Good(t, o) /\ o.pc = "commit" /\ Written(o) /\ EndSession(t)
  BY GoodIs, WrittenIs DEF Commit
<1>2. ASSUME NEW l \in LineIds, lineLock[l] \notin {t, None}
      PROVE  lineLock'[l] = lineLock[l] /\ (lines[l] # None => lines'[l] = lines[l])
  <2>1. lineLock'[l] = lineLock[l]
    BY <1>1, <1>2, Frees
  <2>2. o.lines[l] = None /\ (lines[l] # None => l \notin o.deleted)
    BY <1>1, <1>2 DEF Good, Locked
  <2> QED
    BY <1>1, <2>1, <2>2 DEF Written
<1>3. ASSUME NEW p \in Products, prodLock[p] \notin {t, None}
      PROVE  prodLock'[p] = prodLock[p] /\ stock'[p] = stock[p]
  <2>1. o.stock[p] = None
    BY <1>1, <1>3 DEF Good, Locked
  <2> QED
    BY <1>1, <1>3, <2>1, Frees DEF Written
<1>4. \A l \in LineIds : lines[l] = None /\ o.new[l] = None => lines'[l] = None /\ got'[l] = got[l] + 0
  BY <1>1 DEF Written
<1>5. ASSUME NEW u \in Threads \ {t}, NEW l \in LineIds, req[u].new[l] # None
      PROVE  lines'[l] = None /\ got'[l] = 0
  <2>1. lines[l] = None /\ got[l] = 0
    BY <1>5 DEF PoInv, Numbered
  <2>2. o.new[l] = None
    BY <1>5, ApartIs
  <2> QED
    BY <1>4, <2>1, <2>2
<1>6. ASSUME NEW u \in Threads \ {t}, NEW l \in req[u].deleted, lines[l] = None
      PROVE  lines'[l] = None
  <2>1. l \in LineIds
    BY <1>6 DEF PoInv, Request
  <2>2. o.new[l] = None
    BY <1>6, <2>1, ApartIs
  <2> QED
    BY <1>4, <1>6, <2>1, <2>2
<1>7. used <= used'
  BY <1>1, OrdersAssumption DEF Written, PoInv, PoTables
<1> QED
  BY <1>2, <1>3, <1>5, <1>6, <1>7 DEF Spares

LEMMA Commits ==
  ASSUME PoInv, NEW t \in Threads, Commit(t)
  PROVE  PoInv'
<1>1. PoTables' /\ ReceiptsAddUp' /\ Spares(t)
  BY WritesTables, WritesAddUp, WritesApart
<1>2. req' = [req EXCEPT ![t] = Idle]
  BY DEF Commit, EndSession
<1> QED
  BY <1>1, <1>2, IdleGood, IdleIs, PoMoves

-----------------------------------------------------------------------------
(* Every state. *)

LEMMA PoInit == Init => PoInv
<1> SUFFICES ASSUME Init PROVE PoInv
  OBVIOUS
<1>1. PICK draft \in Drafts \ {<<>>} :
        Len(draft) <= MaxLines /\ lines = Rows(draft, 0) /\ used = Len(draft)
  BY DEF Init
<1>2. draft \in Seq(Ordered) /\ used \in Nat /\ MaxLines \in Nat
  BY <1>1, OrdersAssumption
<1>3. /\ lines \in [LineIds -> PoLine \union {None}]
      /\ \A l \in LineIds : lines[l] # None => l <= used /\ lines[l].received = 0
  BY <1>1, <1>2, RowsAre
<1>4. PoTables
  <2>1. used \in 0 .. MaxLines
    BY <1>1, <1>2
  <2>2. \A l \in LineIds : l > used => lines[l] = None
    BY <1>2, <1>3 DEF LineIds
  <2> QED
    BY <1>3, <2>1, <2>2 DEF Init, PoTables, Statuses
<1>5. ReceiptsAddUp
  <2>1. Total(stock, Products) = 0 /\ Total(got, LineIds) = 0
    BY LinesFinite, TotalZero DEF Init
  <2>2. \A l \in Present(lines) : lines[l].received = got[l]
    BY <1>3 DEF Init, Present
  <2> QED
    BY <2>1, <2>2, AddUpIs
<1>6. \A t \in Threads : req[t] = Idle
  BY DEF Init
<1>7. Placed(Idle) /\ Numbered(Idle) /\ \A t \in Threads : Locked(t, Idle)
  BY IdleIs DEF Placed, Numbered, Locked
<1>8. Matched(Idle)
  <2>1. Total(Idle.booked, LineIds) = 0
    BY IdleIs, LinesFinite, TotalZero
  <2>2. \A p \in Products : Gain(Idle)[p] = 0
    BY IdleIs DEF Gain
  <2>3. PICK g : g = Gain(Idle)
    OBVIOUS
  <2>4. Total(g, Products) = 0
    BY <2>2, <2>3, LinesFinite, TotalZero
  <2> QED
    BY <2>1, <2>3, <2>4, IdleIs DEF Matched, Between, Idle
<1>9. req \in [Threads -> Request] /\ Apart
  BY <1>6, IdleIs DEF Init, Apart
<1> QED
  BY <1>4, <1>5, <1>6, <1>7, <1>8, <1>9 DEF PoInv

LEMMA PoStep == PoInv /\ [Next]_vars => PoInv'
<1> SUFFICES ASSUME PoInv, [Next]_vars PROVE PoInv'
  OBVIOUS
<1>1. CASE UNCHANGED vars
  <2>1. UNCHANGED <<status, lines, stock, got, used, req, lineLock, prodLock>>
    BY <1>1 DEF vars
  <2>2. PoTables' /\ ReceiptsAddUp' /\ Apart'
    BY <2>1, AddUpIs DEF PoInv, PoTables, Apart
  <2>3. ASSUME NEW t \in Threads PROVE Good(t, req[t])'
    <3>1. PICK q : q = req[t]
      OBVIOUS
    <3>2. Placed(q) /\ Locked(t, q) /\ Numbered(q) /\ Matched(q)
      BY <3>1 DEF PoInv
    <3>3. Placed(q)' /\ Locked(t, q)' /\ Numbered(q)'
      BY <2>1, <3>2 DEF Placed, Locked, Numbered
    <3>4. Matched(q)'
      <4>1. Gain(q)' = Gain(q)
        BY <2>1 DEF Gain
      <4> QED
        BY <3>2, <4>1 DEF Matched, Between
    <3>5. q = req'[t]
      BY <2>1, <3>1
    <3> QED
      BY <3>3, <3>4, <3>5 DEF Good, Placed, Locked, Numbered, Matched, Gain, Between
  <2> QED
    BY <2>1, <2>2, <2>3 DEF PoInv, Good
<1>2. CASE Next
  <2>1. PICK t \in Threads :
          \/ Send(t) \/ Confirm(t) \/ Cancel(t)
          \/ \E draft \in Drafts : Update(t, draft)
          \/ \E given \in Deliveries : Receive(t, given)
          \/ Step(t)
          \/ Abort(t)
    BY <1>2 DEF Next
  <2>2. CASE Send(t) \/ Confirm(t) \/ Cancel(t)
    BY <2>2, SendsConfirmsCancels
  <2>3. CASE \E draft \in Drafts : Update(t, draft)
    BY <2>3, Updates
  <2>4. CASE \E given \in Deliveries : Receive(t, given)
    BY <2>4, Receives
  <2>5. CASE Step(t)
    BY <2>5, SeesLines, DeletesLines, BooksLine, BooksProduct, ChecksLines, Commits DEF Step
  <2>6. CASE Abort(t)
    BY <2>6, RollsBack DEF Abort
  <2> QED
    BY <2>1, <2>2, <2>3, <2>4, <2>5, <2>6
<1> QED
  BY <1>1, <1>2

LEMMA PoMeans == PoInv => ReceiptsInv
<1> SUFFICES ASSUME PoInv PROVE ReceiptsInv
  OBVIOUS
<1>1. Present(lines) \subseteq 1 .. used
  <2>1. ASSUME NEW l \in Present(lines) PROVE l \in 1 .. used
    <3>1. l \in LineIds /\ lines[l] # None
      BY DEF Present
    <3>2. l \in Int /\ l >= 1 /\ used \in Int
      BY <3>1, OrdersAssumption DEF LineIds, PoInv, PoTables
    <3>3. ~(l > used)
      BY <3>1 DEF PoInv, PoTables
    <3> QED
      BY <3>2, <3>3
  <2> QED
    BY <2>1
<1>2. \A t \in Threads :
         /\ req[t].pc \in {"idle", "delete", "lock", "line", "product", "check", "commit"}
         /\ req[t].status \in Statuses \union {None}
         /\ req[t].pc \in {"line", "product"} => req[t].todo # <<>>
  BY DEF PoInv, Request, Placed
<1> QED
  BY <1>1, <1>2 DEF PoInv, PoTables, ReceiptsInv, TypeOK

(* Receiving is atomic and no receipt is lost, whatever the number of       *)
(* threads, lines and products: a line shows what its committed receipts    *)
(* put on it, and the stock of all products has grown by what all receipts  *)
(* put on lines (receive_purchase_order, update_purchase_order).            *)
THEOREM ReceiptsHold == Spec => []ReceiptsInv
<1> QED
  BY PoInit, PoStep, PoMeans, PTL DEF Spec

-----------------------------------------------------------------------------
(* One request at a time. *)

OneActive == ~overlapped => \A t, u \in Threads : req[t].pc # "idle" /\ req[u].pc # "idle" => t = u

Truth ==
  /\ StatusTellsTruth /\ HasLinesWhenSent
  /\ status = "DRAFT" => \A l \in LineIds : got[l] = 0

Seen(r, l) == IF r.lines[l] # None THEN r.lines[l] ELSE lines[l]

\* What a lone request has found and decided.
Decided(r) ==
  /\ r.op = "send" => status = "DRAFT" /\ Present(lines) # {} /\ r.status = "SENT"
  /\ r.op = "confirm" => status = "SENT" /\ r.status = "CONFIRMED"
  /\ r.op = "cancel" => r.status = "CANCELLED"
  /\ r.op = "update" => status = "DRAFT" /\ r.status = None
  /\ r.op = "receive" =>
       /\ status \in Receivable
       /\ r.pc \in {"product", "check", "commit"} =>
            \E l \in LineIds : r.lines[l] # None /\ r.booked[l] > 0
       /\ r.pc = "commit" =>
            r.status = IF \A l \in Present(lines) : Seen(r, l).received >= Seen(r, l).ordered
                       THEN "FULFILLED" ELSE None

PoSerial == ~overlapped => Truth /\ \A t \in Threads : Decided(req[t])

MCInv == PoInv /\ OneActive /\ PoSerial

\* Sets of at most one member.
LEMMA OneIsAll ==
  ASSUME NEW S, IsFiniteSet(S), Cardinality(S) <= 1, NEW t \in S, NEW u \in S
  PROVE  t = u
<1> SUFFICES ASSUME t # u PROVE FALSE
  OBVIOUS
<1>1. IsFiniteSet({t}) /\ Cardinality({t}) = 1
  BY FS_Singleton
<1>2. IsFiniteSet({t} \union {u}) /\ Cardinality({t} \union {u}) = 2
  <2>1. u \notin {t}
    OBVIOUS
  <2> QED
    BY <1>1, <2>1, FS_AddElement
<1>3. {t} \union {u} \subseteq S
  OBVIOUS
<1>4. Cardinality({t} \union {u}) <= Cardinality(S) /\ Cardinality(S) \in Nat
  BY <1>3, FS_Subset, FS_CardinalityType
<1> QED
  BY <1>2, <1>4

\* A request alone: the others are idle.
Alone(t) == \A u \in Threads \ {t} : req[u].op = "none"

\* What a lone request starts from.
Before(t, o) == PoInv /\ Truth /\ o = req[t] /\ Decided(o) /\ Alone(t)

\* What it has to leave behind.
After(t) == Truth' /\ \A u \in Threads : Decided(req[u])'

LEMMA LoneKeeps ==
  ASSUME PoInv, NEW t \in Threads, Alone(t), NEW r, req' = [req EXCEPT ![t] = r], Truth', Decided(r)'
  PROVE  After(t)
<1>1. req'[t] = r /\ \A u \in Threads : u # t => req'[u] = req[u]
  BY DEF PoInv
<1>2. ASSUME NEW u \in Threads PROVE Decided(req[u])'
  <2>1. PICK q : q = req'[u]
    OBVIOUS
  <2>2. Decided(q)'
    <3>1. CASE u = t
      BY <1>1, <2>1, <3>1
    <3>2. CASE u # t
      BY <1>1, <2>1, <3>2 DEF Alone, Decided
    <3> QED
      BY <3>1, <3>2
  <2> QED
    BY <2>1, <2>2 DEF Decided, Seen
<1> QED
  BY <1>2 DEF After

LEMMA TruthStays ==
  ASSUME Truth, UNCHANGED committed
  PROVE  Truth'
<1>1. UNCHANGED <<status, lines, stock, got>>
  BY DEF committed
<1> QED
  BY <1>1 DEF Truth, StatusTellsTruth, HasLinesWhenSent, Missing, Present

LEMMA IdleDecided == Decided(Idle)'
  BY IdleIs DEF Decided

LEMMA LoneRollback ==
  ASSUME NEW t \in Threads, NEW o, Before(t, o), Rollback(t)
  PROVE  After(t)
<1>1. req' = [req EXCEPT ![t] = Idle] /\ Truth'
  BY TruthStays DEF Rollback, EndSession, Before
<1> QED
  BY <1>1, IdleDecided, LoneKeeps DEF Before

LEMMA LoneWrites ==
  ASSUME NEW t \in Threads, NEW o, Before(t, o), Send(t) \/ Confirm(t) \/ Cancel(t)
  PROVE  After(t)
<1>1. Truth' /\ UNCHANGED committed
  BY TruthStays DEF Send, Confirm, Cancel, Begin, Before
<1>2. UNCHANGED <<status, lines>>
  BY <1>1 DEF committed
<1>3. CASE Send(t)
  <2>1. PICK r : r = Writes("send", "SENT")
    OBVIOUS
  <2>2. req' = [req EXCEPT ![t] = r] /\ status = "DRAFT" /\ Present(lines) # {}
    BY <1>3, <2>1 DEF Send, Begin, SendAllowed
  <2>3. r.op = "send" /\ r.status = "SENT"
    BY <2>1, WritesIs DEF Statuses
  <2>4. Decided(r)'
    BY <1>2, <2>2, <2>3 DEF Decided, Present
  <2> QED
    BY <1>1, <2>2, <2>4, LoneKeeps DEF Before
<1>4. CASE Confirm(t)
  <2>1. PICK r : r = Writes("confirm", "CONFIRMED")
    OBVIOUS
  <2>2. req' = [req EXCEPT ![t] = r] /\ status = "SENT"
    BY <1>4, <2>1 DEF Confirm, Begin
  <2>3. r.op = "confirm" /\ r.status = "CONFIRMED"
    BY <2>1, WritesIs DEF Statuses
  <2>4. Decided(r)'
    BY <1>2, <2>2, <2>3 DEF Decided
  <2> QED
    BY <1>1, <2>2, <2>4, LoneKeeps DEF Before
<1>5. CASE Cancel(t)
  <2>1. PICK r : r = Writes("cancel", "CANCELLED")
    OBVIOUS
  <2>2. req' = [req EXCEPT ![t] = r]
    BY <1>5, <2>1 DEF Cancel, Begin
  <2>3. r.op = "cancel" /\ r.status = "CANCELLED"
    BY <2>1, WritesIs DEF Statuses
  <2>4. Decided(r)'
    BY <2>3 DEF Decided
  <2> QED
    BY <1>1, <2>2, <2>4, LoneKeeps DEF Before
<1> QED
  BY <1>3, <1>4, <1>5

LEMMA LoneUpdate ==
  ASSUME NEW t \in Threads, NEW o, Before(t, o), NEW draft \in Drafts, Update(t, draft)
  PROVE  After(t)
<1>1. PICK r : r = [Idle EXCEPT !.op = "update", !.pc = "delete", !.new = Rows(draft, used)]
  OBVIOUS
<1>2. req' = [req EXCEPT ![t] = r] /\ status = "DRAFT" /\ UNCHANGED committed
  BY <1>1 DEF Update, Begin
<1>3. r.op = "update" /\ r.status = None
  BY <1>1 DEF Idle
<1>4. Decided(r)'
  BY <1>2, <1>3 DEF Decided, committed
<1> QED
  BY <1>2, <1>4, TruthStays, LoneKeeps DEF Before

LEMMA LoneReceive ==
  ASSUME NEW t \in Threads, NEW o, Before(t, o), NEW given \in Deliveries, Receive(t, given)
  PROVE  After(t)
<1>1. PICK r : r = [Idle EXCEPT !.op = "receive", !.pc = "line", !.todo = given]
  OBVIOUS
<1>2. req' = [req EXCEPT ![t] = r] /\ status \in Receivable /\ UNCHANGED committed
  BY <1>1 DEF Receive, Begin
<1>3. r.op = "receive" /\ r.pc = "line"
  BY <1>1 DEF Idle
<1>4. Decided(r)'
  BY <1>2, <1>3 DEF Decided, committed
<1> QED
  BY <1>2, <1>4, TruthStays, LoneKeeps DEF Before

LEMMA LoneReplaces ==
  ASSUME NEW t \in Threads, NEW o, Before(t, o), UpdateSees(t) \/ UpdateDeletes(t)
  PROVE  After(t)
<1>1. o \in Request /\ o.op = "update"
  BY GoodIs DEF Before, UpdateSees, UpdateDeletes, Good, Placed
<1>2. PICK r : r = req'[t]
  OBVIOUS
<1>3. req' = [req EXCEPT ![t] = r] /\ r.op = o.op /\ r.status = o.status /\ UNCHANGED committed
  BY <1>1, <1>2 DEF UpdateSees, UpdateDeletes, Before, PoInv, Request
<1>4. Decided(r)'
  BY <1>1, <1>3 DEF Decided, Before, committed
<1> QED
  BY <1>3, <1>4, TruthStays, LoneKeeps DEF Before

LEMMA LoneLine ==
  ASSUME NEW t \in Threads, NEW o, Before(t, o), ReceiveLine(t)
  PROVE  After(t)
<1>1. o \in Request /\ Good(t, o) /\ o.pc = "line" /\ o.op = "receive" /\ o.todo # <<>>
  BY GoodIs DEF Before, ReceiveLine, Good, Placed
<1>2. PICK item : item = Head(o.todo)
  OBVIOUS
<1>3. item.qty \in Nat \ {0}
  <2>1. item \in Delivered
    BY <1>1, <1>2, HeadIs
  <2> QED
    BY <2>1 DEF Delivered
<1>4. CASE Rollback(t)
  BY <1>4, LoneRollback
<1>5. ASSUME NEW l \in LinesOf(item.product),
             req' = [req EXCEPT
                       ![t].pc = "product",
                       ![t].lines[l] = [SeenLine(t, l) EXCEPT !.received = @ + item.qty],
                       ![t].booked[l] = @ + item.qty],
             UNCHANGED committed
      PROVE  After(t)
  <2>1. l \in LineIds /\ lines[l] # None
    BY DEF LinesOf, Present
  <2>2. PICK row : row = [SeenLine(t, l) EXCEPT !.received = @ + item.qty]
    OBVIOUS
  <2>3. row # None /\ o.booked[l] \in Nat
    <3>1. SeenLine(t, l) \in PoLine /\ o.booked[l] \in Nat /\ SeenLine(t, l).received \in Int
      BY <2>1, SeenIs DEF Before, PoLine
    <3>2. row \in PoLine
      BY <1>3, <2>2, <3>1 DEF PoLine
    <3> QED
      BY <3>1, <3>2, LinesFinite
  <2>4. PICK r : r = req'[t]
    OBVIOUS
  <2>5. /\ req' = [req EXCEPT ![t] = r] /\ r.op = "receive" /\ r.pc = "product"
        /\ r.lines = [o.lines EXCEPT ![l] = row] /\ r.booked = [o.booked EXCEPT ![l] = @ + item.qty]
    BY <1>1, <1>5, <2>2, <2>4 DEF Before, PoInv, Request
  <2>6. r.lines[l] # None /\ r.booked[l] > 0
    <3>1. r.lines[l] = row /\ r.booked[l] = o.booked[l] + item.qty
      BY <1>1, <2>1, <2>5 DEF Request
    <3> QED
      BY <1>3, <2>3, <3>1
  <2>7. Decided(r)'
    BY <1>1, <1>5, <2>1, <2>5, <2>6 DEF Decided, Before, committed
  <2> QED
    BY <1>5, <2>5, <2>7, TruthStays, LoneKeeps DEF Before
<1> QED
  BY <1>2, <1>4, <1>5 DEF ReceiveLine, Before

LEMMA LoneProduct ==
  ASSUME NEW t \in Threads, NEW o, Before(t, o), ReceiveProduct(t)
  PROVE  After(t)
<1>1. o \in Request /\ Good(t, o) /\ o.pc = "product" /\ o.op = "receive"
  BY GoodIs DEF Before, ReceiveProduct, Good, Placed
<1>2. CASE Rollback(t)
  BY <1>2, LoneRollback
<1>3. CASE ~Rollback(t)
  <2>1. PICK r : r = req'[t]
    OBVIOUS
  <2>2. /\ req' = [req EXCEPT ![t] = r] /\ UNCHANGED committed
        /\ r.op = o.op /\ r.pc \in {"line", "check"} /\ r.lines = o.lines /\ r.booked = o.booked
    BY <1>1, <1>3, <2>1 DEF ReceiveProduct, Before, PoInv, Request, NextStage
  <2>3. Decided(r)'
    BY <1>1, <2>2 DEF Decided, Before, committed
  <2> QED
    BY <2>2, <2>3, TruthStays, LoneKeeps DEF Before
<1> QED
  BY <1>2, <1>3

LEMMA LoneCheck ==
  ASSUME NEW t \in Threads, NEW o, Before(t, o), ReceiveCheck(t)
  PROVE  After(t)
<1>1. o \in Request /\ Good(t, o) /\ o.pc = "check" /\ o.op = "receive"
  BY GoodIs DEF Before, ReceiveCheck, Good, Placed
<1>2. PICK r : r = req'[t]
  OBVIOUS
<1>3. /\ req' = [req EXCEPT ![t] = r] /\ UNCHANGED committed
      /\ r.op = o.op /\ r.pc = "commit" /\ r.lines = o.lines /\ r.booked = o.booked
      /\ r.status = IF Complete(t) THEN "FULFILLED" ELSE None
  BY <1>1, <1>2 DEF ReceiveCheck, Before, PoInv, Request
<1>4. Complete(t) <=> \A l \in Present(lines) : Seen(o, l).received >= Seen(o, l).ordered
  BY DEF Complete, SeenLine, Seen, Before
<1>5. \A l : Seen(r, l)' = Seen(o, l)
  BY <1>3 DEF Seen, committed
<1>6. Decided(r)'
  BY <1>1, <1>3, <1>4, <1>5 DEF Decided, Before, committed, Present
<1> QED
  BY <1>3, <1>6, TruthStays, LoneKeeps DEF Before

\* Unless lines are replaced, the commit shows what the request has seen.
LEMMA ShowsSeen ==
  ASSUME PoInv, NEW t \in Threads, NEW o, o = req[t], Commit(t), o.op # "update"
  PROVE  /\ Present(lines') = Present(lines)
         /\ \A l \in LineIds : lines'[l] = Seen(o, l) /\ got'[l] = got[l] + o.booked[l]
         /\ \A l \in LineIds : got[l] \in Nat /\ o.booked[l] \in Nat
<1>1. o \in Request /\ Good(t, o) /\ Written(o)
  BY GoodIs, WrittenIs
<1>2. o.deleted = {} /\ \A l \in LineIds : o.new[l] = None
  BY <1>1 DEF Good, Placed
<1>3. \A l \in LineIds : lines'[l] = Seen(o, l) /\ got'[l] = got[l] + o.booked[l]
  BY <1>1, <1>2 DEF Written, Seen
<1>4. \A l \in LineIds : lines'[l] # None <=> lines[l] # None
  BY <1>1, <1>3 DEF Written, Seen
<1>5. \A l \in LineIds : got[l] \in Nat /\ o.booked[l] \in Nat
  BY <1>1 DEF PoInv, PoTables, Request
<1> QED
  BY <1>3, <1>4, <1>5 DEF Present

\* A request that has booked nothing leaves the lines and the receipts.
LEMMA ShowsSame ==
  ASSUME PoInv, NEW t \in Threads, NEW o, o = req[t], Commit(t), o.op \in {"send", "confirm", "cancel"}
  PROVE  \A l \in LineIds : lines'[l] = lines[l] /\ got'[l] = got[l]
<1>1. o \in Request /\ Good(t, o) /\ Written(o)
  BY GoodIs, WrittenIs
<1>2. /\ o.deleted = {}
      /\ \A l \in LineIds : o.new[l] = None /\ o.lines[l] = None /\ o.booked[l] = 0 /\ got[l] \in Nat
  BY <1>1 DEF Good, Placed, Locked, PoInv, PoTables
<1> QED
  BY <1>1, <1>2 DEF Written

LEMMA LoneCommit ==
  ASSUME NEW t \in Threads, NEW o, Before(t, o), Commit(t)
  PROVE  After(t)
<1>1. /\ o \in Request /\ Good(t, o) /\ Written(o) /\ PoInv /\ o = req[t] /\ o.pc = "commit"
      /\ Truth /\ Decided(o)
  BY GoodIs, WrittenIs DEF Before, Commit
<1>2. req' = [req EXCEPT ![t] = Idle] /\ status' = IF o.status = None THEN status ELSE o.status
  BY <1>1 DEF Commit, EndSession
<1>3. None \notin Statuses \/ o.status # None \/ status' = status
  BY <1>2
<1>4. CASE o.op = "send"
  <2>1. \A l \in LineIds : lines'[l] = lines[l] /\ got'[l] = got[l]
    BY <1>1, <1>4, ShowsSame
  <2>2. status = "DRAFT" /\ Present(lines) # {} /\ (status' = "SENT" \/ status' = "DRAFT")
    BY <1>1, <1>2, <1>4 DEF Decided
  <2>3. \A l \in LineIds : got'[l] = 0
    BY <1>1, <2>1, <2>2 DEF Truth
  <2>4. Present(lines') # {}
    BY <2>1, <2>2 DEF Present
  <2> QED
    BY <2>2, <2>3, <2>4, <1>1, <1>2, IdleDecided, LoneKeeps
       DEF Before, Truth, StatusTellsTruth, HasLinesWhenSent, Present, Receivable
<1>5. CASE o.op = "confirm"
  <2>1. \A l \in LineIds : lines'[l] = lines[l] /\ got'[l] = got[l]
    BY <1>1, <1>5, ShowsSame
  <2>2. status = "SENT" /\ (status' = "CONFIRMED" \/ status' = "SENT")
    BY <1>1, <1>2, <1>5 DEF Decided
  <2>3. Missing # {} \/ \A l \in LineIds : got[l] = 0
    BY <1>1, <2>2 DEF Truth, StatusTellsTruth, Receivable
  <2>4. Missing' = Missing /\ Present(lines') = Present(lines)
    BY <2>1 DEF Missing, Present
  <2>5. Present(lines) # {}
    BY <1>1, <2>2 DEF Truth, HasLinesWhenSent
  <2>6. Truth'
    BY <2>1, <2>2, <2>3, <2>4, <2>5 DEF Truth, StatusTellsTruth, HasLinesWhenSent
  <2> QED
    BY <2>6, <1>1, <1>2, IdleDecided, LoneKeeps DEF Before
<1>6. CASE o.op = "cancel"
  <2>1. \A l \in LineIds : lines'[l] = lines[l] /\ got'[l] = got[l]
    BY <1>1, <1>6, ShowsSame
  <2>2. o.status = "CANCELLED"
    BY <1>1, <1>6 DEF Decided
  <2>3. Missing' = Missing /\ Present(lines') = Present(lines)
    BY <2>1 DEF Missing, Present
  <2>4. status' = "CANCELLED" \/ status' = status
    BY <1>2, <2>2
  <2>5. Truth'
    BY <1>1, <2>1, <2>3, <2>4 DEF Truth, StatusTellsTruth, HasLinesWhenSent, Receivable, Present
  <2> QED
    BY <2>5, <1>1, <1>2, IdleDecided, LoneKeeps DEF Before
<1>7. CASE o.op = "update"
  <2>1. status' = "DRAFT" /\ status = "DRAFT"
    BY <1>1, <1>2, <1>7 DEF Decided
  <2>2. \A l \in LineIds : got'[l] = 0
    <3>1. \A l \in LineIds : o.lines[l] = None
      BY <1>1, <1>7 DEF Good, Placed
    <3>2. \A l \in LineIds : o.booked[l] = 0 /\ got[l] = 0
      BY <1>1, <2>1, <3>1 DEF Truth, Written
    <3> QED
      BY <1>1, <3>2 DEF Written
  <2>3. Truth'
    BY <2>1, <2>2 DEF Truth, StatusTellsTruth, HasLinesWhenSent, Receivable
  <2> QED
    BY <2>3, <1>1, <1>2, IdleDecided, LoneKeeps DEF Before
<1>8. CASE o.op = "receive"
  <2>1. /\ Present(lines') = Present(lines)
        /\ \A l \in LineIds : lines'[l] = Seen(o, l) /\ got'[l] = got[l] + o.booked[l]
        /\ \A l \in LineIds : got[l] \in Nat /\ o.booked[l] \in Nat
    BY <1>1, <1>8, ShowsSeen
  <2>2. /\ status \in Receivable
        /\ o.status = IF \A l \in Present(lines) : Seen(o, l).received >= Seen(o, l).ordered
                      THEN "FULFILLED" ELSE None
    BY <1>1, <1>8 DEF Decided
  <2>3. PICK k \in LineIds : o.lines[k] # None /\ o.booked[k] > 0
    BY <1>1, <1>8 DEF Decided
  <2>4. k \in Present(lines') /\ got'[k] > 0
    <3>1. k \in Present(lines)
      BY <1>1, <2>3 DEF Written, Present
    <3> QED
      BY <2>1, <2>3, <3>1
  <2>5. \A l \in Present(lines') : lines'[l].received \in Int /\ lines'[l].ordered \in Int
    <3>1. PoTables'
      BY <1>1, WritesTables
    <3>2. \A l \in LineIds : lines'[l] \in PoLine \union {None}
      BY <3>1 DEF PoTables
    <3> QED
      BY <3>2 DEF Present, PoLine
  <2>6. CASE \A l \in Present(lines) : Seen(o, l).received >= Seen(o, l).ordered
    <3>1. o.status = "FULFILLED"
      BY <2>2, <2>6
    <3>2. Missing' = {}
      <4>1. ASSUME NEW l \in Present(lines') PROVE ~(lines'[l].received < lines'[l].ordered)
        <5>1. lines'[l].received >= lines'[l].ordered
          BY <2>1, <2>6 DEF Present
        <5> QED
          BY <2>5, <5>1
      <4> QED
        BY <4>1 DEF Missing, Present
    <3>3. status' = "FULFILLED"
      BY <1>2, <3>1, OrdersAssumption DEF Statuses
    <3>4. Truth'
      BY <2>4, <3>2, <3>3 DEF Truth, StatusTellsTruth, HasLinesWhenSent, Receivable, Present
    <3> QED
      BY <3>4, <1>1, <1>2, IdleDecided, LoneKeeps DEF Before
  <2>7. CASE ~\A l \in Present(lines) : Seen(o, l).received >= Seen(o, l).ordered
    <3>1. PICK l \in Present(lines) : ~(Seen(o, l).received >= Seen(o, l).ordered)
      BY <2>7
    <3>2. status' = status
      BY <1>2, <2>2, <2>7
    <3>3. l \in Present(lines') /\ lines'[l].received < lines'[l].ordered
      <4>1. l \in Present(lines') /\ ~(lines'[l].received >= lines'[l].ordered)
        BY <2>1, <3>1 DEF Present
      <4> QED
        BY <2>5, <4>1
    <3>4. Missing' # {} /\ Present(lines') # {}
      BY <3>3 DEF Missing, Present
    <3>5. Truth'
      BY <2>2, <3>2, <3>4 DEF Truth, StatusTellsTruth, HasLinesWhenSent, Receivable, Present
    <3> QED
      BY <3>5, <1>1, <1>2, IdleDecided, LoneKeeps DEF Before
  <2> QED
    BY <2>6, <2>7
<1> QED
  BY <1>1, <1>4, <1>5, <1>6, <1>7, <1>8 DEF Request, Good, Placed

LEMMA LoneStep ==
  ASSUME NEW t \in Threads, NEW o, Before(t, o),
         \/ Send(t) \/ Confirm(t) \/ Cancel(t)
         \/ \E draft \in Drafts : Update(t, draft)
         \/ \E given \in Deliveries : Receive(t, given)
         \/ Step(t)
         \/ Abort(t)
  PROVE  After(t)
<1>1. CASE Send(t) \/ Confirm(t) \/ Cancel(t)
  BY <1>1, LoneWrites
<1>2. CASE \E draft \in Drafts : Update(t, draft)
  BY <1>2, LoneUpdate
<1>3. CASE \E given \in Deliveries : Receive(t, given)
  BY <1>3, LoneReceive
<1>4. CASE Step(t)
  BY <1>4, LoneReplaces, LoneLine, LoneProduct, LoneCheck, LoneCommit DEF Step
<1>5. CASE Abort(t)
  BY <1>5, LoneRollback DEF Abort
<1> QED
  BY <1>1, <1>2, <1>3, <1>4, <1>5

\* A step is one thread's, which is at work before it or after it.
LEMMA OneActs ==
  ASSUME PoInv, NEW t \in Threads,
         \/ Send(t) \/ Confirm(t) \/ Cancel(t)
         \/ \E draft \in Drafts : Update(t, draft)
         \/ \E given \in Deliveries : Receive(t, given)
         \/ Step(t)
         \/ Abort(t)
  PROVE  /\ \A u \in Threads : u # t => req'[u] = req[u]
         /\ t \in Active \/ t \in Active'
<1>0. /\ DOMAIN req = Threads
      /\ \A r : req' = [req EXCEPT ![t] = r] => req'[t] = r /\ \A u \in Threads : u # t => req'[u] = req[u]
  BY DEF PoInv
<1>1. ASSUME NEW r, Begin(t, r), r.pc # "idle"
      PROVE  /\ \A u \in Threads : u # t => req'[u] = req[u]
             /\ t \in Active'
  BY <1>0, <1>1 DEF Begin, Active
<1>2. ASSUME Send(t) \/ Confirm(t) \/ Cancel(t)
      PROVE  \E r : Begin(t, r) /\ r.pc # "idle"
  <2>1. PICK op \in {"send", "confirm", "cancel"}, new \in Statuses : Begin(t, Writes(op, new))
    BY <1>2 DEF Send, Confirm, Cancel, Statuses
  <2>2. PICK r : r = Writes(op, new)
    OBVIOUS
  <2>3. r.pc = "commit"
    BY <2>2, WritesIs
  <2> QED
    BY <2>1, <2>2, <2>3
<1>3. ASSUME NEW draft \in Drafts, Update(t, draft)
      PROVE  \E r : Begin(t, r) /\ r.pc # "idle"
  <2>1. PICK r : r = [Idle EXCEPT !.op = "update", !.pc = "delete", !.new = Rows(draft, used)]
    OBVIOUS
  <2>2. Begin(t, r) /\ r.pc = "delete"
    BY <1>3, <2>1 DEF Update, Idle
  <2> QED
    BY <2>2
<1>4. ASSUME NEW given \in Deliveries, Receive(t, given)
      PROVE  \E r : Begin(t, r) /\ r.pc # "idle"
  <2>1. PICK r : r = [Idle EXCEPT !.op = "receive", !.pc = "line", !.todo = given]
    OBVIOUS
  <2>2. Begin(t, r) /\ r.pc = "line"
    BY <1>4, <2>1 DEF Receive, Idle
  <2> QED
    BY <2>2
<1>5. ASSUME Step(t) \/ Abort(t)
      PROVE  /\ \A u \in Threads : u # t => req'[u] = req[u]
             /\ t \in Active
  <2>1. t \in Active
    BY <1>5 DEF Step, Abort, Active, UpdateSees, UpdateDeletes, ReceiveLine, ReceiveProduct, ReceiveCheck, Commit
  <2>2. ASSUME Rollback(t) \/ Commit(t) PROVE \A u \in Threads : u # t => req'[u] = req[u]
    BY <1>0, <2>2 DEF Rollback, Commit, EndSession
  <2>3. ASSUME UpdateSees(t) \/ UpdateDeletes(t) \/ ReceiveLine(t) \/ ReceiveProduct(t) \/ ReceiveCheck(t),
               ~Rollback(t)
        PROVE  \A u \in Threads : u # t => req'[u] = req[u]
    BY <1>0, <2>3 DEF UpdateSees, UpdateDeletes, ReceiveLine, ReceiveProduct, ReceiveCheck
  <2> QED
    BY <1>5, <2>1, <2>2, <2>3 DEF Step, Abort
<1> QED
  BY <1>1, <1>2, <1>3, <1>4, <1>5

LEMMA MCInit_Inv == MCInit => MCInv
<1> SUFFICES ASSUME MCInit PROVE MCInv
  OBVIOUS
<1>1. PoInv /\ status = "DRAFT" /\ \A l \in LineIds : got[l] = 0
  BY PoInit DEF MCInit, Init
<1>2. \A t \in Threads : req[t] = Idle
  BY DEF MCInit, Init
<1>3. OneActive
  BY <1>2, IdleIs DEF OneActive
<1>4. Truth
  BY <1>1 DEF Truth, StatusTellsTruth, HasLinesWhenSent, Receivable
<1>5. Decided(Idle)
  BY IdleIs DEF Decided
<1> QED
  BY <1>1, <1>2, <1>3, <1>4, <1>5 DEF MCInv, PoSerial

LEMMA MCStep == MCInv /\ [MCNext]_<<vars, overlapped>> => MCInv'
<1> SUFFICES ASSUME MCInv, [MCNext]_<<vars, overlapped>> PROVE MCInv'
  OBVIOUS
<1>0. PoInv /\ OneActive /\ PoSerial
  BY DEF MCInv
<1>1. PoInv'
  <2>1. [Next]_vars
    BY DEF MCNext
  <2> QED
    BY <1>0, <2>1, PoStep
<1>2. CASE UNCHANGED <<vars, overlapped>>
  <2>1. UNCHANGED <<status, lines, stock, got, used, req, lineLock, prodLock, overlapped>>
    BY <1>2 DEF vars
  <2>2. OneActive'
    BY <1>0, <2>1 DEF OneActive
  <2>3. PoSerial'
    BY <1>0, <2>1 DEF PoSerial, Truth, StatusTellsTruth, HasLinesWhenSent, Missing, Present, Decided, Seen
  <2> QED
    BY <1>1, <2>2, <2>3 DEF MCInv
<1>3. CASE MCNext
  <2>1. SUFFICES ASSUME ~overlapped' PROVE MCInv'
    BY <1>1 DEF MCInv, OneActive, PoSerial
  <2>2. ~overlapped /\ ~(Cardinality(Active') > 1) /\ Next
    BY <1>3, <2>1 DEF MCNext
  <2>3. PICK t \in Threads :
          \/ Send(t) \/ Confirm(t) \/ Cancel(t)
          \/ \E draft \in Drafts : Update(t, draft)
          \/ \E given \in Deliveries : Receive(t, given)
          \/ Step(t)
          \/ Abort(t)
    BY <2>2 DEF Next
  <2>4. \A u, v \in Active' : u = v
    <3>1. PICK A : A = Active'
      OBVIOUS
    <3>2. A \subseteq Threads
      BY <3>1 DEF Active
    <3>3. IsFiniteSet(A) /\ Cardinality(A) \in Nat
      BY <3>2, OrdersAssumption, FS_Subset, FS_CardinalityType
    <3>4. Cardinality(A) <= 1
      BY <2>2, <3>1, <3>3
    <3> QED
      BY <3>1, <3>3, <3>4, OneIsAll
  <2>5. OneActive'
    BY <2>4 DEF OneActive, Active
  <2>6. /\ \A u \in Threads : u # t => req'[u] = req[u]
        /\ t \in Active \/ t \in Active'
    BY <1>0, <2>3, OneActs
  <2>7. \A u \in Threads \ {t} : req[u].pc = "idle"
    BY <1>0, <2>2, <2>4, <2>6 DEF OneActive, Active
  <2>8. Alone(t)
    BY <1>0, <2>7 DEF Alone, PoInv, Placed
  <2>9. PICK o : o = req[t]
    OBVIOUS
  <2>10. Before(t, o)
    <3>1. \A u \in Threads : Decided(req[u])
      BY <1>0, <2>2 DEF PoSerial
    <3>2. Decided(o)
      BY <2>9, <3>1
    <3> QED
      BY <1>0, <2>2, <2>8, <2>9, <3>2 DEF Before, PoSerial
  <2>11. After(t)
    BY <2>3, <2>10, LoneStep
  <2> QED
    BY <1>1, <2>5, <2>11 DEF MCInv, PoSerial, After
<1> QED
  BY <1>2, <1>3

LEMMA MCMeans == MCInv => SerialStatusTellsTruth
  BY DEF MCInv, PoSerial, Truth, SerialStatusTellsTruth

(* As long as no two requests overlap, an order that was sent has lines,    *)
(* and it is fulfilled exactly when goods were received and nothing ordered *)
(* is missing, unless it was cancelled: what each handler has read of the   *)
(* status is still so when it commits.                                      *)
THEOREM SerialOrders == MCSpec => []SerialStatusTellsTruth
<1> QED
  BY MCInit_Inv, MCStep, MCMeans, PTL DEF MCSpec

-----------------------------------------------------------------------------
(* Invoices: types, locks, and stock against its adjustments. *)

OcrSession ==
  [op : {"none", "delay", "start", "ocr", "read", "failing", "confirm", "dismiss"},
   job : Jobs \union {None}, write : Ocr!Statuses \union {None}, body : Seq(Ocr!Entry),
   dirty : SUBSET Ocr!Rows, held : SUBSET Ocr!Rows,
   read : [Products -> Int \union {None}], own : [Products -> Int \union {None}],
   given : [ItemIds -> Ocr!Entry \union {None}], last : Ocr!Entry \union {None},
   gone : SUBSET ItemIds, new : SUBSET ItemIds]

\* A session that is at work has a job, what it is to write is a status, and it has computed
\* the stock of the products it has read.
Working(r) ==
  /\ r.op # "none" => r.job \in Jobs
  /\ r.op \in {"read", "failing", "confirm", "dismiss"} => r.write \in Ocr!Statuses
  /\ \A p \in Products : r.own[p] = None <=> r.read[p] = None

OcrTables ==
  /\ jobs \in [Jobs -> Ocr!Statuses \union {None}]
  /\ items \in [ItemIds -> Ocr!Item \union {None}]
  /\ booked \in [Products -> Int] /\ adjusted \in [Products -> Int] /\ misread \in [Products -> Int]
  /\ added \in [Jobs -> Nat]
  /\ queue \subseteq [task : {Ocr!SentAs("process_ocr_job")}, job : Jobs]
  /\ drawn \subseteq ItemIds

OcrInv ==
  /\ OcrTables
  /\ reading \in [Ocr!Sessions -> OcrSession]
  /\ \A s \in Ocr!Sessions : Working(reading[s])
  /\ \A s, u \in Ocr!Sessions : s # u => reading[s].held \intersect reading[u].held = {}
  /\ Ocr!StockFollowsAdjustments

LEMMA OcrIdleIs ==
  ASSUME NEW r, r = Ocr!Idle
  PROVE  /\ r \in OcrSession /\ Working(r)
         /\ r.op = "none" /\ r.held = {} /\ r.gone = {} /\ r.new = {}
         /\ \A i \in ItemIds : r.given[i] = None
  BY DEF Ocr!Idle, OcrSession, Working

\* A step of one session that commits nothing.
LEMMA OcrBecomes ==
  ASSUME OcrInv, NEW s \in Ocr!Sessions, NEW r \in OcrSession, Working(r),
         reading' = [reading EXCEPT ![s] = r], UNCHANGED Ocr!committed,
         \A u \in Ocr!Sessions : u # s => r.held \intersect reading[u].held = {},
         queue' \subseteq [task : {Ocr!SentAs("process_ocr_job")}, job : Jobs],
         drawn' \subseteq ItemIds
  PROVE  OcrInv'
<1>1. OcrTables'
  BY DEF OcrInv, OcrTables, Ocr!committed, Ocr!Item, Ocr!Statuses, Ocr!Entry, Ocr!SentAs
<1>2. reading' \in [Ocr!Sessions -> OcrSession]
  BY DEF OcrInv
<1>3. \A u \in Ocr!Sessions : reading'[u] = IF u = s THEN r ELSE reading[u]
  BY DEF OcrInv
<1>4. \A u \in Ocr!Sessions : Working(reading[u])'
  <2>1. \A u \in Ocr!Sessions : Working(reading[u]) /\ Working(r)
    BY DEF OcrInv
  <2> QED
    BY <1>3, <2>1 DEF Working
<1>5. ASSUME NEW u \in Ocr!Sessions, NEW v \in Ocr!Sessions, u # v
      PROVE  reading'[u].held \intersect reading'[v].held = {}
  BY <1>3, <1>5 DEF OcrInv
<1>6. Ocr!StockFollowsAdjustments'
  BY DEF OcrInv, Ocr!committed, Ocr!StockFollowsAdjustments
<1> QED
  BY <1>1, <1>2, <1>4, <1>5, <1>6 DEF OcrInv

\* The same, of a step that neither sends nor draws anything.
LEMMA OcrOnly ==
  ASSUME OcrInv, NEW s \in Ocr!Sessions, NEW r \in OcrSession, Working(r),
         Ocr!Become(s, r), UNCHANGED <<Ocr!committed, queue, direct, drawn>>,
         \A u \in Ocr!Sessions : u # s => r.held \intersect reading[u].held = {}
  PROVE  OcrInv'
<1>1. /\ queue' \subseteq [task : {Ocr!SentAs("process_ocr_job")}, job : Jobs]
      /\ drawn' \subseteq ItemIds
  BY DEF OcrInv, OcrTables
<1> QED
  BY <1>1, OcrBecomes DEF Ocr!Become

LEMMA OcrUpload ==
  ASSUME OcrInv, NEW t \in Threads, NEW j \in Jobs, Ocr!Upload(t, j)
  PROVE  OcrInv'
<1>1. PICK r : r = [Ocr!Idle EXCEPT !.op = "delay", !.job = j]
  OBVIOUS
<1>2. r \in OcrSession /\ Working(r) /\ r.held = {}
  <2>1. PICK o : o = Ocr!Idle
    OBVIOUS
  <2>2. o \in OcrSession /\ Working(o) /\ o.held = {}
    BY <2>1, OcrIdleIs
  <2>3. r = [o EXCEPT !.op = "delay", !.job = j]
    BY <1>1, <2>1
  <2> QED
    BY <2>2, <2>3 DEF OcrSession, Working
<1>3. t \in Ocr!Sessions /\ reading' = [reading EXCEPT ![t] = r]
  BY <1>1 DEF Ocr!Upload, Ocr!Become, Ocr!Sessions
<1>4. jobs' = [jobs EXCEPT ![j] = "QUEUED"] /\ "QUEUED" \in Ocr!Statuses
  BY DEF Ocr!Upload, Ocr!Statuses
<1>5. UNCHANGED <<items, booked, adjusted, misread, added, queue, drawn>>
  BY DEF Ocr!Upload
<1>6. OcrTables'
  <2>1. jobs' \in [Jobs -> Ocr!Statuses \union {None}]
    BY <1>4 DEF OcrInv, OcrTables
  <2> QED
    BY <1>5, <2>1 DEF OcrInv, OcrTables, Ocr!Item, Ocr!Statuses, Ocr!Entry, Ocr!SentAs
<1>7. reading' \in [Ocr!Sessions -> OcrSession]
  BY <1>2, <1>3 DEF OcrInv
<1>8. \A u \in Ocr!Sessions : reading'[u] = IF u = t THEN r ELSE reading[u]
  BY <1>3 DEF OcrInv
<1>9. \A u \in Ocr!Sessions : Working(reading[u])'
  <2>1. \A u \in Ocr!Sessions : Working(reading[u]) /\ Working(r)
    BY <1>2 DEF OcrInv
  <2> QED
    BY <1>8, <2>1 DEF Working
<1>10. ASSUME NEW u \in Ocr!Sessions, NEW v \in Ocr!Sessions, u # v
      PROVE  reading'[u].held \intersect reading'[v].held = {}
  BY <1>2, <1>8, <1>10 DEF OcrInv
<1>11. Ocr!StockFollowsAdjustments'
  BY <1>5 DEF OcrInv, Ocr!StockFollowsAdjustments
<1> QED
  BY <1>6, <1>7, <1>9, <1>10, <1>11 DEF OcrInv

LEMMA OcrDelay ==
  ASSUME OcrInv, NEW t \in Threads, Ocr!Delay(t)
  PROVE  OcrInv'
<1>1. PICK r : r = Ocr!Idle
  OBVIOUS
<1>2. t \in Ocr!Sessions /\ reading[t].op = "delay"
  BY DEF Ocr!Delay, Ocr!Sessions
<1>3. reading[t].job \in Jobs
  BY <1>2 DEF OcrInv, Working
<1>4. /\ queue' \subseteq [task : {Ocr!SentAs("process_ocr_job")}, job : Jobs]
      /\ drawn' \subseteq ItemIds
  BY <1>3 DEF Ocr!Delay, OcrInv, OcrTables, Ocr!SentAs
<1>5. reading' = [reading EXCEPT ![t] = r] /\ UNCHANGED Ocr!committed
  BY <1>1 DEF Ocr!Delay, Ocr!Become
<1>6. r \in OcrSession /\ Working(r) /\ \A u \in Ocr!Sessions : r.held \intersect reading[u].held = {}
  BY <1>1, OcrIdleIs
<1> QED
  BY <1>2, <1>4, <1>5, <1>6, OcrBecomes

\* The broker holds no task that a worker knows.
LEMMA OcrTake ==
  ASSUME OcrInv, NEW w \in Workers, NEW m \in queue, Ocr!Take(w, m)
  PROVE  OcrInv' /\ reading' = reading /\ UNCHANGED <<Ocr!committed, drawn>>
<1>1. m.task \notin Ocr!Registered
  BY DEF OcrInv, OcrTables, Ocr!SentAs, Ocr!Registered
<1>2. reading' = reading /\ UNCHANGED <<Ocr!committed, drawn>> /\ queue' \subseteq queue
  BY <1>1 DEF Ocr!Take
<1>3. OcrTables'
  BY <1>2 DEF OcrInv, OcrTables, Ocr!committed, Ocr!Item, Ocr!Statuses, Ocr!Entry, Ocr!SentAs
<1>4. \A u \in Ocr!Sessions : Working(reading[u])'
  BY <1>2 DEF OcrInv, Working
<1>5. Ocr!StockFollowsAdjustments'
  BY <1>2 DEF OcrInv, Ocr!committed, Ocr!StockFollowsAdjustments
<1> QED
  BY <1>2, <1>3, <1>4, <1>5 DEF OcrInv

LEMMA OcrCall ==
  ASSUME OcrInv, NEW w \in Workers, NEW j \in Jobs, Ocr!Call(w, j)
  PROVE  OcrInv'
<1>1. PICK r : r = [Ocr!Idle EXCEPT !.op = "start", !.job = j, !.write = "PROCESSING", !.dirty = {j}]
  OBVIOUS
<1>2. r \in OcrSession /\ Working(r) /\ r.held = {}
  <2>1. PICK o : o = Ocr!Idle
    OBVIOUS
  <2>2. o \in OcrSession /\ Working(o) /\ o.held = {}
    BY <2>1, OcrIdleIs
  <2>3. r = [o EXCEPT !.op = "start", !.job = j, !.write = "PROCESSING", !.dirty = {j}]
    BY <1>1, <2>1
  <2>4. {j} \in SUBSET Ocr!Rows /\ "PROCESSING" \in Ocr!Statuses
    BY DEF Ocr!Rows, Ocr!Statuses
  <2> QED
    BY <2>2, <2>3, <2>4 DEF OcrSession, Working
<1>3. w \in Ocr!Sessions /\ Ocr!Become(w, r)
  BY <1>1 DEF Ocr!Call, Ocr!Begin, Ocr!Sessions
<1> QED
  BY <1>2, <1>3, OcrOnly DEF Ocr!Call

LEMMA OcrConfirm ==
  ASSUME OcrInv, NEW t \in Threads, NEW j \in Jobs, NEW body \in Bodies, Ocr!Confirm(t, j, body)
  PROVE  OcrInv'
<1>1. PICK r : r = [Ocr!Idle EXCEPT !.op = "confirm", !.job = j, !.write = "APPLIED", !.body = body,
                                   !.dirty = IF body = <<>> THEN {j} ELSE {}]
  OBVIOUS
<1>2. r \in OcrSession /\ Working(r) /\ r.held = {}
  <2>1. body \in Seq(Ocr!Entry)
    BY StockroomAssumption DEF Ocr!OcrAssumption
  <2> QED
    BY <1>1, <2>1 DEF Ocr!Idle, OcrSession, Working, Ocr!Statuses, Ocr!Rows
<1>3. t \in Ocr!Sessions /\ Ocr!Become(t, r)
  BY <1>1 DEF Ocr!Confirm, Ocr!Sessions
<1> QED
  BY <1>2, <1>3, OcrOnly DEF Ocr!Confirm

LEMMA OcrDismiss ==
  ASSUME OcrInv, NEW t \in Threads, NEW j \in Jobs, Ocr!Dismiss(t, j)
  PROVE  OcrInv'
<1>1. PICK r : r = [Ocr!Idle EXCEPT !.op = "dismiss", !.job = j, !.write = Ocr!Dismissed, !.dirty = {j}]
  OBVIOUS
<1>2. r \in OcrSession /\ Working(r) /\ r.held = {}
  <2>1. PICK o : o = Ocr!Idle
    OBVIOUS
  <2>2. o \in OcrSession /\ Working(o) /\ o.held = {}
    BY <2>1, OcrIdleIs
  <2>3. r = [o EXCEPT !.op = "dismiss", !.job = j, !.write = "FAILED", !.dirty = {j}]
    BY <1>1, <2>1 DEF Ocr!Dismissed
  <2>4. {j} \in SUBSET Ocr!Rows /\ "FAILED" \in Ocr!Statuses
    BY DEF Ocr!Rows, Ocr!Statuses
  <2> QED
    BY <2>2, <2>3, <2>4 DEF OcrSession, Working
<1>3. t \in Ocr!Sessions /\ Ocr!Become(t, r)
  BY <1>1 DEF Ocr!Dismiss, Ocr!Sessions
<1> QED
  BY <1>2, <1>3, OcrOnly DEF Ocr!Dismiss

LEMMA OcrRaise ==
  ASSUME OcrInv, NEW s \in Ocr!Sessions, Ocr!Raise(s),
         UNCHANGED <<Ocr!committed, queue, direct, drawn>>
  PROVE  OcrInv'
<1>1. CASE reading[s].op \in {"ocr", "read"}
  <2>1. PICK r : r = [Ocr!Idle EXCEPT !.op = "failing", !.job = reading[s].job,
                                     !.write = "FAILED", !.dirty = {reading[s].job}]
    OBVIOUS
  <2>2. reading[s].job \in Jobs
    BY <1>1 DEF OcrInv, Working
  <2>3. r \in OcrSession /\ Working(r) /\ r.held = {}
    <3>1. PICK j \in Jobs : j = reading[s].job
      BY <2>2
    <3>2. PICK o : o = Ocr!Idle
      OBVIOUS
    <3>3. o \in OcrSession /\ Working(o) /\ o.held = {}
      BY <3>2, OcrIdleIs
    <3>4. r = [o EXCEPT !.op = "failing", !.job = j, !.write = "FAILED", !.dirty = {j}]
      BY <2>1, <3>1, <3>2
    <3>5. {j} \in SUBSET Ocr!Rows /\ "FAILED" \in Ocr!Statuses
      BY DEF Ocr!Rows, Ocr!Statuses
    <3> QED
      BY <3>3, <3>4, <3>5 DEF OcrSession, Working
  <2>4. Ocr!Become(s, r)
    BY <1>1, <2>1 DEF Ocr!Raise
  <2> QED
    BY <2>3, <2>4, OcrOnly
<1>2. CASE reading[s].op \notin {"ocr", "read"}
  <2>1. PICK r : r = Ocr!Idle
    OBVIOUS
  <2>2. Ocr!Become(s, r)
    BY <1>2, <2>1 DEF Ocr!Raise
  <2> QED
    BY <2>1, <2>2, OcrIdleIs, OcrOnly
<1> QED
  BY <1>1, <1>2

LEMMA OcrCrash ==
  ASSUME OcrInv, NEW s \in Ocr!Sessions, Ocr!Crash(s)
  PROVE  OcrInv'
<1>1. PICK r : r = Ocr!Idle
  OBVIOUS
<1>2. Ocr!Become(s, r)
  BY <1>1 DEF Ocr!Crash
<1> QED
  BY <1>1, <1>2, OcrIdleIs, OcrOnly DEF Ocr!Crash

\* A flush takes rows that nobody holds.
LEMMA OcrFlush ==
  ASSUME OcrInv, NEW s \in Ocr!Sessions, Ocr!CanFlush(s), ~Ocr!Repeats(reading[s]),
         NEW r, r = Ocr!Flushed(reading[s])
  PROVE  /\ r \in OcrSession /\ Working(r)
         /\ r.held = reading[s].held \union reading[s].dirty /\ r.dirty = {}
         /\ \A u \in Ocr!Sessions : u # s => r.held \intersect reading[u].held = {}
         /\ r.op = reading[s].op /\ r.job = reading[s].job /\ r.write = reading[s].write
         /\ r.body = reading[s].body /\ r.read = reading[s].read /\ r.own = reading[s].own
         /\ r.given = reading[s].given /\ r.gone = reading[s].gone /\ r.new = reading[s].new
<1>1. PICK o : o = reading[s]
  OBVIOUS
<1>2. o \in OcrSession /\ Working(o)
  BY <1>1 DEF OcrInv
<1>3. r = [o EXCEPT !.held = @ \union o.dirty, !.dirty = {}]
  BY <1>1 DEF Ocr!Flushed
<1>4. /\ r.held = o.held \union o.dirty /\ r.dirty = {}
      /\ r.op = o.op /\ r.job = o.job /\ r.write = o.write /\ r.body = o.body /\ r.read = o.read
      /\ r.own = o.own /\ r.given = o.given /\ r.gone = o.gone /\ r.new = o.new
  BY <1>2, <1>3 DEF OcrSession
<1>5. r \in OcrSession
  BY <1>2, <1>3 DEF OcrSession
<1>6. Working(r)
  BY <1>2, <1>4 DEF Working
<1>7. ASSUME NEW u \in Ocr!Sessions, u # s
      PROVE  r.held \intersect reading[u].held = {}
  <2>1. reading[u].held \intersect o.dirty = {}
    BY <1>1, <1>7 DEF Ocr!CanFlush, Ocr!Blocks
  <2>2. o.held \intersect reading[u].held = {}
    BY <1>1, <1>7 DEF OcrInv
  <2> QED
    BY <1>4, <2>1, <2>2
<1> QED
  BY <1>1, <1>4, <1>5, <1>6, <1>7

LEMMA OcrStart ==
  ASSUME OcrInv, NEW w \in Workers, Ocr!Start(w)
  PROVE  OcrInv'
<1>1. w \in Ocr!Sessions /\ Ocr!CanFlush(w) /\ reading[w].op = "start"
  BY DEF Ocr!Start, Ocr!CanStart, Ocr!Sessions
<1>2. PICK f : f = Ocr!Flushed(reading[w])
  OBVIOUS
<1>3. PICK r : r = [f EXCEPT !.op = "ocr"]
  OBVIOUS
<1>4. /\ f \in OcrSession /\ Working(f)
      /\ \A u \in Ocr!Sessions : u # w => f.held \intersect reading[u].held = {}
      /\ f.op = "start"
  BY <1>1, <1>2, OcrFlush DEF Ocr!Repeats
<1>5. r \in OcrSession /\ Working(r) /\ r.held = f.held
  BY <1>3, <1>4 DEF OcrSession, Working
<1>6. Ocr!Become(w, r)
  BY <1>2, <1>3 DEF Ocr!Start, Ocr!CanStart
<1> QED
  BY <1>1, <1>4, <1>5, <1>6, OcrOnly DEF Ocr!Start, Ocr!CanStart

LEMMA OcrRecognise ==
  ASSUME OcrInv, NEW w \in Workers, Ocr!Recognise(w)
  PROVE  OcrInv'
<1>1. w \in Ocr!Sessions /\ reading[w].op = "ocr"
  BY DEF Ocr!Recognise, Ocr!Sessions
<1>2. CASE Ocr!Raise(w) /\ UNCHANGED drawn
  BY <1>1, <1>2, OcrRaise DEF Ocr!Recognise
<1>3. ASSUME NEW found \in SUBSET (ItemIds \ drawn), drawn' = drawn \union found,
             Ocr!Become(w, [reading[w] EXCEPT !.op = "read", !.write = "REVIEW",
                              !.gone = Ocr!RowsOf(reading[w].job), !.new = found,
                              !.dirty = Ocr!RowsOf(reading[w].job)])
      PROVE  OcrInv'
  <2>1. PICK o : o = reading[w]
    OBVIOUS
  <2>2. PICK rows : rows = Ocr!RowsOf(o.job)
    OBVIOUS
  <2>3. PICK r : r = [o EXCEPT !.op = "read", !.write = "REVIEW", !.gone = rows, !.new = found,
                               !.dirty = rows]
    OBVIOUS
  <2>4. o \in OcrSession /\ Working(o) /\ o.op = "ocr"
    BY <1>1, <2>1 DEF OcrInv
  <2>5. rows \subseteq ItemIds /\ rows \subseteq Ocr!Rows
    BY <2>2 DEF Ocr!RowsOf, Ocr!Rows
  <2>6. r \in OcrSession /\ Working(r) /\ r.held = o.held
    BY <2>3, <2>4, <2>5 DEF OcrSession, Working, Ocr!Statuses
  <2>7. reading' = [reading EXCEPT ![w] = r]
    BY <1>3, <2>1, <2>2, <2>3 DEF Ocr!Become
  <2>8. \A u \in Ocr!Sessions : u # w => r.held \intersect reading[u].held = {}
    BY <1>1, <2>1, <2>6 DEF OcrInv
  <2>9. /\ queue' \subseteq [task : {Ocr!SentAs("process_ocr_job")}, job : Jobs]
        /\ drawn' \subseteq ItemIds /\ UNCHANGED Ocr!committed
    BY <1>3 DEF OcrInv, OcrTables, Ocr!Recognise
  <2> QED
    BY <1>1, <2>6, <2>7, <2>8, <2>9, OcrBecomes
<1> QED
  BY <1>2, <1>3 DEF Ocr!Recognise

\* One entry of a confirmation: what it makes of the session.
LEMMA OcrBooked ==
  ASSUME OcrInv, NEW t \in Ocr!Sessions, Ocr!CanFlush(t), reading[t].op = "confirm",
         reading[t].body # <<>>, NEW e, e = Head(reading[t].body), e.product \in Products,
         NEW r, r = Ocr!Booked(reading[t], e)
  PROVE  /\ r \in OcrSession /\ Working(r)
         /\ \A u \in Ocr!Sessions : u # t => r.held \intersect reading[u].held = {}
         /\ r.op = "confirm" /\ r.job = reading[t].job /\ r.write = reading[t].write
         /\ r.gone = reading[t].gone /\ r.new = reading[t].new
         /\ e.item \in ItemIds
         /\ \A i \in ItemIds : r.given[i] = IF i = e.item THEN e ELSE reading[t].given[i]
<1>1. PICK o : o = reading[t]
  OBVIOUS
<1>2. PICK f : f = IF Ocr!Repeats(o) THEN o ELSE Ocr!Flushed(o)
  OBVIOUS
<1>3. o \in OcrSession /\ Working(o) /\ o.body # <<>> /\ o.op = "confirm"
  BY <1>1 DEF OcrInv
<1>4. /\ f \in OcrSession /\ Working(f)
      /\ \A u \in Ocr!Sessions : u # t => f.held \intersect reading[u].held = {}
      /\ f.op = o.op /\ f.job = o.job /\ f.write = o.write /\ f.body = o.body /\ f.read = o.read
      /\ f.own = o.own /\ f.given = o.given /\ f.gone = o.gone /\ f.new = o.new
  <2>1. CASE Ocr!Repeats(o)
    BY <1>1, <1>2, <1>3, <2>1 DEF OcrInv
  <2>2. CASE ~Ocr!Repeats(o)
    BY <1>1, <1>2, <2>2, OcrFlush
  <2> QED
    BY <2>1, <2>2
<1>5. e \in Ocr!Entry /\ Tail(o.body) \in Seq(Ocr!Entry)
  <2>1. o.body \in Seq(Ocr!Entry)
    BY <1>3 DEF OcrSession
  <2> QED
    BY <1>1, <1>3, <2>1
<1>6. PICK p \in Products : p = e.product
  OBVIOUS
<1>7. PICK i \in ItemIds : i = e.item
  BY <1>5 DEF Ocr!Entry
<1>8. PICK x : x = IF f.read[p] = None THEN booked[p] ELSE f.read[p]
  OBVIOUS
<1>9. PICK y : y = Ocr!Stock(o, p) + e.qty
  OBVIOUS
<1>10. PICK d : d = f.dirty \union {p}
                        \union (IF e # (IF o.given[i] # None THEN o.given[i] ELSE items[i].given)
                                THEN {i} ELSE {})
                        \union (IF Len(o.body) = 1 THEN {o.job} ELSE {})
  OBVIOUS
<1>11. x \in Int /\ y \in Int
  <2>1. booked[p] \in Int /\ f.read[p] \in Int \union {None} /\ o.own[p] \in Int \union {None}
    BY <1>3, <1>4 DEF OcrInv, OcrTables, OcrSession
  <2>2. e.qty \in Int
    BY <1>5 DEF Ocr!Entry
  <2> QED
    BY <1>8, <1>9, <2>1, <2>2 DEF Ocr!Stock
<1>12. d \subseteq Ocr!Rows
  <2>1. o.job \in Jobs
    BY <1>3 DEF Working
  <2>2. f.dirty \subseteq Ocr!Rows
    BY <1>4 DEF OcrSession
  <2> QED
    BY <1>10, <2>1, <2>2 DEF Ocr!Rows
<1>13. r = [f EXCEPT !.body = Tail(@), !.last = e, !.read[p] = x, !.own[p] = y, !.given[i] = e, !.dirty = d]
  BY <1>1, <1>2, <1>6, <1>7, <1>8, <1>9, <1>10 DEF Ocr!Booked
<1>14. /\ r.op = f.op /\ r.job = f.job /\ r.write = f.write /\ r.body = Tail(f.body)
       /\ r.dirty = d /\ r.held = f.held /\ r.gone = f.gone /\ r.new = f.new
       /\ r.read = [f.read EXCEPT ![p] = x] /\ r.own = [f.own EXCEPT ![p] = y]
       /\ r.given = [f.given EXCEPT ![i] = e]
  <2>1. f \in OcrSession
    BY <1>4
  <2>2. /\ r.op = f.op /\ r.job = f.job /\ r.write = f.write /\ r.held = f.held
        /\ r.gone = f.gone /\ r.new = f.new
    BY <1>13, <2>1 DEF OcrSession
  <2>3. r.body = Tail(f.body) /\ r.dirty = d
    BY <1>13, <2>1 DEF OcrSession
  <2>4. /\ r.read = [f.read EXCEPT ![p] = x] /\ r.own = [f.own EXCEPT ![p] = y]
        /\ r.given = [f.given EXCEPT ![i] = e]
    BY <1>13, <2>1 DEF OcrSession
  <2> QED
    BY <2>2, <2>3, <2>4
<1>15. r \in OcrSession
  <2>1. /\ [f.read EXCEPT ![p] = x] \in [Products -> Int \union {None}]
        /\ [f.own EXCEPT ![p] = y] \in [Products -> Int \union {None}]
        /\ [f.given EXCEPT ![i] = e] \in [ItemIds -> Ocr!Entry \union {None}]
    BY <1>4, <1>5, <1>11 DEF OcrSession
  <2>2. PICK fr \in [Products -> Int \union {None}] : fr = [f.read EXCEPT ![p] = x]
    BY <2>1
  <2>3. PICK fo \in [Products -> Int \union {None}] : fo = [f.own EXCEPT ![p] = y]
    BY <2>1
  <2>4. PICK fg \in [ItemIds -> Ocr!Entry \union {None}] : fg = [f.given EXCEPT ![i] = e]
    BY <2>1
  <2>5. PICK b \in Seq(Ocr!Entry) : b = Tail(f.body)
    BY <1>4, <1>5
  <2>6. r = [f EXCEPT !.body = b, !.last = e, !.read = fr, !.own = fo, !.given = fg, !.dirty = d]
    BY <1>13, <2>2, <2>3, <2>4, <2>5
  <2>7. PICK g : g = [f EXCEPT !.body = b, !.last = e, !.dirty = d]
    OBVIOUS
  <2>8. f \in OcrSession /\ g \in OcrSession
    BY <1>4, <1>5, <1>12, <2>7 DEF OcrSession
  <2>9. r = [g EXCEPT !.read = fr, !.own = fo, !.given = fg]
    BY <2>6, <2>7, <2>8 DEF OcrSession
  <2> QED
    BY <2>8, <2>9 DEF OcrSession
<1>16. Working(r)
  <2>1. None \notin Int
    BY StockroomAssumption DEF Ocr!OcrAssumption
  <2>2. f.read \in [Products -> Int \union {None}] /\ f.own \in [Products -> Int \union {None}]
    BY <1>4 DEF OcrSession
  <2>3. ASSUME NEW q \in Products PROVE r.own[q] = None <=> r.read[q] = None
    <3>1. CASE q = p
      BY <1>11, <1>14, <2>1, <2>2, <3>1
    <3>2. CASE q # p
      BY <1>4, <1>14, <2>2, <3>2 DEF Working
    <3> QED
      BY <3>1, <3>2
  <2> QED
    BY <1>4, <1>14, <2>3 DEF Working
<1>17. \A k \in ItemIds : r.given[k] = IF k = i THEN e ELSE o.given[k]
  <2>1. f.given \in [ItemIds -> Ocr!Entry \union {None}]
    BY <1>4 DEF OcrSession
  <2> QED
    BY <1>4, <1>14, <2>1
<1> QED
  BY <1>1, <1>3, <1>4, <1>7, <1>14, <1>15, <1>16, <1>17

LEMMA OcrConfirmItem ==
  ASSUME OcrInv, NEW t \in Threads, Ocr!ConfirmItem(t)
  PROVE  OcrInv'
<1>1. t \in Ocr!Sessions /\ Ocr!CanFlush(t) /\ reading[t].op = "confirm" /\ reading[t].body # <<>>
  BY DEF Ocr!ConfirmItem, Ocr!CanConfirmItem, Ocr!Sessions
<1>2. PICK e : e = Head(reading[t].body)
  OBVIOUS
<1>3. UNCHANGED <<Ocr!committed, queue, direct, drawn>>
  BY DEF Ocr!ConfirmItem, Ocr!CanConfirmItem
<1>4. Ocr!Raise(t) \/ (e.product \in Products /\ Ocr!Become(t, Ocr!Booked(reading[t], e)))
  BY <1>2 DEF Ocr!ConfirmItem, Ocr!CanConfirmItem
<1>5. CASE Ocr!Raise(t)
  BY <1>1, <1>3, <1>5, OcrRaise
<1>6. CASE e.product \in Products /\ Ocr!Become(t, Ocr!Booked(reading[t], e))
  <2>1. PICK r : r = Ocr!Booked(reading[t], e)
    OBVIOUS
  <2>2. /\ r \in OcrSession /\ Working(r)
        /\ \A u \in Ocr!Sessions : u # t => r.held \intersect reading[u].held = {}
    BY <1>1, <1>2, <1>6, <2>1, OcrBooked
  <2> QED
    BY <1>1, <1>3, <1>6, <2>1, <2>2, OcrOnly
<1> QED
  BY <1>4, <1>5, <1>6

\* A commit moves stock and adjustments together, up to what it overwrites.
LEMMA OcrCommit ==
  ASSUME OcrInv, NEW s \in Ocr!Sessions, Ocr!Commit(s)
  PROVE  OcrInv'
<1>1. PICK r : r = reading[s]
  OBVIOUS
<1>2. r \in OcrSession /\ Working(r) /\ r.op \in {"confirm", "dismiss", "read", "failing"}
  BY <1>1 DEF OcrInv, Ocr!Commit, Ocr!CanCommit
<1>3. r.job \in Jobs /\ r.write \in Ocr!Statuses
  BY <1>2 DEF Working
<1>4. r.own \in [Products -> Int \union {None}] /\ r.read \in [Products -> Int \union {None}]
  BY <1>2 DEF OcrSession
<1>5. \A p \in Products : r.own[p] = None <=> r.read[p] = None
  BY <1>2 DEF Working
<1>6. /\ booked' = [p \in Products |-> IF r.own[p] # None THEN r.own[p] ELSE booked[p]]
      /\ adjusted' = [p \in Products |-> IF r.own[p] # None THEN adjusted[p] + r.own[p] - r.read[p]
                                                            ELSE adjusted[p]]
      /\ misread' = [p \in Products |-> IF r.own[p] # None THEN misread[p] + booked[p] - r.read[p]
                                                           ELSE misread[p]]
  BY <1>1 DEF Ocr!Commit, Ocr!CanCommit, Ocr!Stock
<1>7. /\ booked \in [Products -> Int] /\ adjusted \in [Products -> Int]
      /\ misread \in [Products -> Int]
  BY DEF OcrInv, OcrTables
<1>8. /\ booked' \in [Products -> Int] /\ adjusted' \in [Products -> Int]
      /\ misread' \in [Products -> Int]
  <2>1. \A p \in Products : r.own[p] # None => r.own[p] \in Int /\ r.read[p] \in Int
    BY <1>4, <1>5
  <2> QED
    BY <1>6, <1>7, <2>1
<1>9. Ocr!StockFollowsAdjustments'
  <2>1. SUFFICES ASSUME NEW p \in Products PROVE booked'[p] + misread'[p] = adjusted'[p]
    BY DEF Ocr!StockFollowsAdjustments
  <2>2. booked[p] + misread[p] = adjusted[p]
    BY DEF OcrInv, Ocr!StockFollowsAdjustments
  <2>3. CASE r.own[p] = None
    BY <1>6, <1>7, <2>2, <2>3
  <2>4. CASE r.own[p] # None
    <3>1. r.own[p] \in Int /\ r.read[p] \in Int
      BY <1>4, <1>5, <2>4
    <3>2. /\ booked'[p] = r.own[p] /\ adjusted'[p] = adjusted[p] + r.own[p] - r.read[p]
          /\ misread'[p] = misread[p] + booked[p] - r.read[p]
      BY <1>6, <2>4
    <3> QED
      BY <1>7, <2>2, <3>1, <3>2
  <2> QED
    BY <2>3, <2>4
<1>10. jobs' \in [Jobs -> Ocr!Statuses \union {None}]
  <2>1. jobs' = [jobs EXCEPT ![r.job] = r.write]
    BY <1>1 DEF Ocr!Commit, Ocr!CanCommit
  <2> QED
    BY <1>3, <2>1 DEF OcrInv, OcrTables
<1>11. items' \in [ItemIds -> Ocr!Item \union {None}]
  <2>1. items' = [i \in ItemIds |->
               IF i \in r.gone THEN None
               ELSE IF i \in r.new THEN [job |-> r.job, given |-> None]
               ELSE IF r.given[i] # None /\ items[i] # None
                    THEN [items[i] EXCEPT !.given = r.given[i]]
               ELSE items[i]]
    BY <1>1 DEF Ocr!Commit, Ocr!CanCommit
  <2>2. [job |-> r.job, given |-> None] \in Ocr!Item
    BY <1>3 DEF Ocr!Item
  <2>3. ASSUME NEW i \in ItemIds, r.given[i] # None, items[i] # None
        PROVE  [items[i] EXCEPT !.given = r.given[i]] \in Ocr!Item
    <3>1. items[i] \in Ocr!Item
      BY <2>3 DEF OcrInv, OcrTables
    <3>2. r.given[i] \in Ocr!Entry
      BY <1>2, <2>3 DEF OcrSession
    <3> QED
      BY <3>1, <3>2 DEF Ocr!Item
  <2>4. \A i \in ItemIds : items[i] \in Ocr!Item \union {None}
    BY DEF OcrInv, OcrTables
  <2> QED
    BY <2>1, <2>2, <2>3, <2>4
<1>12. added' \in [Jobs -> Nat]
  <2>1. added' = [added EXCEPT ![r.job] = CASE r.op = "confirm" -> @ + 1
                                             [] r.op = "read"    -> 0
                                             [] OTHER            -> @]
    BY <1>1 DEF Ocr!Commit, Ocr!CanCommit
  <2> QED
    BY <1>3, <2>1 DEF OcrInv, OcrTables
<1>13. UNCHANGED <<queue, drawn>>
  BY DEF Ocr!Commit, Ocr!CanCommit
<1>14. OcrTables'
  BY <1>8, <1>10, <1>11, <1>12, <1>13 DEF OcrInv, OcrTables, Ocr!Item, Ocr!Statuses, Ocr!Entry, Ocr!SentAs
<1>15. PICK n : n = Ocr!Idle
  OBVIOUS
<1>16. n \in OcrSession /\ Working(n) /\ n.held = {}
  BY <1>15, OcrIdleIs
<1>17. reading' = [reading EXCEPT ![s] = n]
  BY <1>15 DEF Ocr!Commit, Ocr!CanCommit, Ocr!Become
<1>18. /\ reading' \in [Ocr!Sessions -> OcrSession]
       /\ \A u \in Ocr!Sessions : reading'[u] = IF u = s THEN n ELSE reading[u]
  BY <1>16, <1>17 DEF OcrInv
<1>19. \A u \in Ocr!Sessions : Working(reading[u])'
  <2>1. \A u \in Ocr!Sessions : Working(reading[u]) /\ Working(n)
    BY <1>16 DEF OcrInv
  <2> QED
    BY <1>18, <2>1 DEF Working
<1>20. ASSUME NEW u \in Ocr!Sessions, NEW v \in Ocr!Sessions, u # v
       PROVE  reading'[u].held \intersect reading'[v].held = {}
  BY <1>16, <1>18, <1>20 DEF OcrInv
<1> QED
  BY <1>9, <1>14, <1>18, <1>19, <1>20 DEF OcrInv

LEMMA OcrStart_Inv == Ocr!Init => OcrInv
<1> SUFFICES ASSUME Ocr!Init PROVE OcrInv
  OBVIOUS
<1>1. PICK n : n = Ocr!Idle
  OBVIOUS
<1>2. n \in OcrSession /\ Working(n) /\ n.held = {}
  BY <1>1, OcrIdleIs
<1>3. reading = [s \in Ocr!Sessions |-> n]
  BY <1>1 DEF Ocr!Init
<1>4. reading \in [Ocr!Sessions -> OcrSession] /\ \A s \in Ocr!Sessions : Working(reading[s])
  BY <1>2, <1>3
<1>5. \A s, u \in Ocr!Sessions : s # u => reading[s].held \intersect reading[u].held = {}
  BY <1>2, <1>3
<1>6. OcrTables
  BY DEF Ocr!Init, OcrTables
<1>7. Ocr!StockFollowsAdjustments
  BY DEF Ocr!Init, Ocr!StockFollowsAdjustments
<1> QED
  BY <1>4, <1>5, <1>6, <1>7 DEF OcrInv

\* A step of Ocr is one of these.
LEMMA OcrSteps ==
  ASSUME [Ocr!Next]_(Ocr!vars)
  PROVE  \/ \E t \in Threads, j \in Jobs :
              Ocr!Upload(t, j) \/ Ocr!Dismiss(t, j) \/ \E body \in Bodies : Ocr!Confirm(t, j, body)
         \/ \E t \in Threads : Ocr!Delay(t) \/ Ocr!ConfirmItem(t)
         \/ \E w \in Workers : (\E m \in queue : Ocr!Take(w, m)) \/ (\E j \in Jobs : Ocr!Call(w, j))
         \/ \E w \in Workers : Ocr!Start(w) \/ Ocr!Recognise(w)
         \/ \E s \in Ocr!Sessions :
              \/ Ocr!Commit(s) \/ Ocr!Crash(s)
              \/ Ocr!Raise(s) /\ UNCHANGED <<Ocr!committed, queue, direct, drawn>>
         \/ UNCHANGED Ocr!vars
<1>1. CASE Ocr!Next
  <2>1. CASE \E t \in Threads, j \in Jobs :
               Ocr!Upload(t, j) \/ Ocr!Dismiss(t, j) \/ \E body \in Bodies : Ocr!Confirm(t, j, body)
    BY <2>1
  <2>2. CASE \E w \in Workers : (\E m \in queue : Ocr!Take(w, m)) \/ (\E j \in Jobs : Ocr!Call(w, j))
    BY <2>2
  <2>3. ASSUME NEW s \in Ocr!Sessions, Ocr!Step(s) \/ Ocr!DeadlockVictim(s) \/ Ocr!Crash(s)
        PROVE  \/ \E t \in Threads : Ocr!Delay(t) \/ Ocr!ConfirmItem(t)
               \/ \E w \in Workers : Ocr!Start(w) \/ Ocr!Recognise(w)
               \/ Ocr!Commit(s) \/ Ocr!Crash(s)
               \/ Ocr!Raise(s) /\ UNCHANGED <<Ocr!committed, queue, direct, drawn>>
    <3>1. Ocr!CommitStale(s) \/ Ocr!DeadlockVictim(s) =>
            Ocr!Raise(s) /\ UNCHANGED <<Ocr!committed, queue, direct, drawn>>
      BY DEF Ocr!CommitStale, Ocr!CanFailStale, Ocr!DeadlockVictim
    <3> QED
      BY <2>3, <3>1 DEF Ocr!Step
  <2> QED
    BY <1>1, <2>1, <2>2, <2>3 DEF Ocr!Next
<1> QED
  BY <1>1

LEMMA OcrStays ==
  ASSUME OcrInv, UNCHANGED Ocr!vars
  PROVE  OcrInv'
<1>1. UNCHANGED <<jobs, items, booked, adjusted, reading, queue, direct, drawn, added, misread>>
  BY DEF Ocr!vars
<1>2. OcrTables'
  BY <1>1 DEF OcrInv, OcrTables, Ocr!Item, Ocr!Statuses, Ocr!Entry, Ocr!SentAs
<1>3. \A u \in Ocr!Sessions : Working(reading[u])'
  BY <1>1 DEF OcrInv, Working
<1>4. Ocr!StockFollowsAdjustments'
  BY <1>1 DEF OcrInv, Ocr!StockFollowsAdjustments
<1> QED
  BY <1>1, <1>2, <1>3, <1>4 DEF OcrInv

LEMMA OcrStep ==
  ASSUME OcrInv, [Ocr!Next]_(Ocr!vars)
  PROVE  OcrInv'
  BY OcrSteps, OcrUpload, OcrDismiss, OcrConfirm, OcrDelay, OcrConfirmItem, OcrTake, OcrCall,
     OcrStart, OcrRecognise, OcrCommit, OcrCrash, OcrRaise, OcrStays

LEMMA OcrMeans == OcrInv => Ocr!StockInv
<1> SUFFICES ASSUME OcrInv PROVE Ocr!StockInv
  OBVIOUS
<1>1. \A s \in Ocr!Sessions : reading[s].held \union reading[s].dirty \subseteq Ocr!Rows
  <2>1. SUFFICES ASSUME NEW s \in Ocr!Sessions
                 PROVE  reading[s].held \union reading[s].dirty \subseteq Ocr!Rows
    OBVIOUS
  <2>2. reading[s] \in OcrSession
    BY DEF OcrInv
  <2> QED
    BY <2>2 DEF OcrSession
<1> QED
  BY <1>1 DEF OcrInv, OcrTables, Ocr!StockInv, Ocr!TypeOK

(* Stock and its adjustments part only by what commits overwrite, whichever *)
(* confirmations fail at a later item, lose a deadlock, find their items    *)
(* deleted or die (confirm_job, vision/routes.py).                          *)
THEOREM InvoicesHold == Ocr!Spec => []Ocr!StockInv
<1>1. OcrInv /\ [Ocr!Next]_(Ocr!vars) => OcrInv'
  BY OcrStep
<1> QED
  BY <1>1, OcrStart_Inv, OcrMeans, PTL DEF Ocr!Spec

-----------------------------------------------------------------------------
(* Invoices: one session at a time. *)

JobsNext ==
  \/ Ocr!Next /\ jobsOverlapped' = (jobsOverlapped \/ Cardinality(Reading') > 1)
  \/ UNCHANGED <<Ocr!vars, jobsOverlapped>>

OneReading ==
  ~jobsOverlapped =>
    \A s, u \in Ocr!Sessions : reading[s].op # "none" /\ reading[u].op # "none" => s = u

\* A job that was never uploaded has no items either.
Truthful ==
  /\ Ocr!JobTellsTruth
  /\ \A j \in Jobs : jobs[j] = None => added[j] = 0 /\ Ocr!RowsOf(j) = {}

\* What a lone session knows of its job, and the items it has changed or is to delete.
Told(r) ==
  /\ r.op # "none" => jobs[r.job] # None
  /\ r.op = "confirm" => /\ jobs[r.job] = "REVIEW" /\ r.write = "APPLIED"
                         /\ \A i \in ItemIds : r.given[i] # None => i \in Ocr!RowsOf(r.job)
  /\ r.op # "confirm" => \A i \in ItemIds : r.given[i] = None
  /\ r.op = "read" => r.write = "REVIEW" /\ r.gone = Ocr!RowsOf(r.job)
  /\ r.op # "read" => r.gone = {} /\ r.new = {}
  /\ r.op \in {"dismiss", "failing"} => r.write = "FAILED"

JobsSerial == ~jobsOverlapped => Truthful /\ \A s \in Ocr!Sessions : Told(reading[s])

JobsInv == OcrInv /\ OneReading /\ JobsSerial

\* The session s is alone, and what it knows is so.
OcrBefore(s) ==
  /\ OcrInv /\ Truthful /\ \A u \in Ocr!Sessions : Told(reading[u])
  /\ \A u \in Ocr!Sessions \ {s} : reading[u].op = "none"

OcrAfter == Truthful' /\ \A u \in Ocr!Sessions : Told(reading[u])'

LEMMA OcrNone == None \notin Ocr!Statuses /\ None \notin Ocr!Item /\ None \notin Ocr!Entry
  BY StockroomAssumption DEF Ocr!OcrAssumption, Ocr!Item

\* An idle session knows nothing, so nothing that happens refutes it.
LEMMA IdleTold ==
  ASSUME NEW r, r.op = "none", Told(r)
  PROVE  Told(r)'
  BY DEF Told

LEMMA OcrOthers ==
  ASSUME NEW s \in Ocr!Sessions, OcrBefore(s), NEW r, reading' = [reading EXCEPT ![s] = r], Told(r)'
  PROVE  \A u \in Ocr!Sessions : Told(reading[u])'
<1> SUFFICES ASSUME NEW u \in Ocr!Sessions PROVE Told(reading[u])'
  OBVIOUS
<1>1. CASE u = s
  <2>1. reading'[u] = r
    BY <1>1 DEF OcrBefore, OcrInv
  <2> QED
    BY <2>1 DEF Told
<1>2. CASE u # s
  <2>1. PICK o : o = reading[u]
    OBVIOUS
  <2>2. reading'[u] = o /\ o.op = "none" /\ Told(o)
    BY <1>2, <2>1 DEF OcrBefore, OcrInv
  <2>3. Told(o)'
    BY <2>2, IdleTold
  <2> QED
    BY <2>2, <2>3 DEF Told
<1> QED
  BY <1>1, <1>2

\* A step that commits nothing.
LEMMA OcrTells ==
  ASSUME NEW s \in Ocr!Sessions, OcrBefore(s), NEW r, Told(r), Ocr!Become(s, r),
         UNCHANGED <<jobs, items, added>>
  PROVE  OcrAfter
<1>1. Truthful'
  BY DEF OcrBefore, Truthful, Ocr!JobTellsTruth, Ocr!RowsOf
<1>2. Told(r)'
  BY DEF Told, Ocr!RowsOf
<1> QED
  BY <1>1, <1>2, OcrOthers DEF OcrAfter, Ocr!Become

LEMMA IdleTells ==
  ASSUME NEW r, r = Ocr!Idle
  PROVE  Told(r)
  BY OcrIdleIs DEF Told

LEMMA UploadTells ==
  ASSUME NEW t \in Threads, OcrBefore(t), NEW j \in Jobs, Ocr!Upload(t, j)
  PROVE  OcrAfter
<1>1. jobs' = [jobs EXCEPT ![j] = "QUEUED"] /\ jobs[j] = None /\ UNCHANGED <<items, added>>
  BY DEF Ocr!Upload
<1>2. jobs \in [Jobs -> Ocr!Statuses \union {None}] /\ t \in Ocr!Sessions
  BY DEF OcrBefore, OcrInv, OcrTables, Ocr!Sessions
<1>3. "QUEUED" # None
  BY OcrNone DEF Ocr!Statuses
<1>4. added[j] = 0 /\ Ocr!RowsOf(j) = {}
  BY <1>1 DEF OcrBefore, Truthful
<1>5. \A k \in Jobs : Ocr!RowsOf(k)' = Ocr!RowsOf(k)
  BY <1>1 DEF Ocr!RowsOf
<1>6. Truthful'
  <2>1. ASSUME NEW k \in Jobs
        PROVE  /\ added'[k] <= 1
               /\ jobs'[k] = "APPLIED" => added'[k] = 1
               /\ jobs'[k] \in {"QUEUED", "REVIEW"} =>
                    added'[k] = 0 /\ \A i \in Ocr!RowsOf(k)' : items'[i].given = None
               /\ jobs'[k] = None => added'[k] = 0 /\ Ocr!RowsOf(k)' = {}
    <3>1. CASE k = j
      BY <1>1, <1>2, <1>3, <1>4, <1>5, <3>1
    <3>2. CASE k # j
      BY <1>1, <1>2, <1>5, <3>2 DEF OcrBefore, Truthful, Ocr!JobTellsTruth
    <3> QED
      BY <3>1, <3>2
  <2> QED
    BY <2>1 DEF Truthful, Ocr!JobTellsTruth
<1>7. PICK n : n = Ocr!Idle
  OBVIOUS
<1>8. PICK r : r = [n EXCEPT !.op = "delay", !.job = j]
  OBVIOUS
<1>9. /\ r.op = "delay" /\ r.job = j /\ r.gone = {} /\ r.new = {}
      /\ \A i \in ItemIds : r.given[i] = None
  <2>1. n \in OcrSession /\ n.gone = {} /\ n.new = {} /\ \A i \in ItemIds : n.given[i] = None
    BY <1>7, OcrIdleIs
  <2> QED
    BY <1>8, <2>1 DEF OcrSession
<1>10. Told(r)'
  BY <1>1, <1>2, <1>3, <1>9 DEF Told
<1>11. reading' = [reading EXCEPT ![t] = r]
  BY <1>7, <1>8 DEF Ocr!Upload, Ocr!Become
<1> QED
  BY <1>2, <1>6, <1>10, <1>11, OcrOthers DEF OcrAfter

LEMMA DelayTells ==
  ASSUME NEW t \in Threads, OcrBefore(t), Ocr!Delay(t)
  PROVE  OcrAfter
<1>1. PICK r : r = Ocr!Idle
  OBVIOUS
<1>2. t \in Ocr!Sessions /\ Ocr!Become(t, r) /\ UNCHANGED <<jobs, items, added>>
  BY <1>1 DEF Ocr!Delay, Ocr!Sessions, Ocr!committed
<1> QED
  BY <1>1, <1>2, IdleTells, OcrTells

LEMMA CallTells ==
  ASSUME NEW w \in Workers, OcrBefore(w), NEW j \in Jobs, Ocr!Call(w, j)
  PROVE  OcrAfter
<1>1. PICK r : r = [Ocr!Idle EXCEPT !.op = "start", !.job = j, !.write = "PROCESSING", !.dirty = {j}]
  OBVIOUS
<1>2. /\ w \in Ocr!Sessions /\ Ocr!Become(w, r) /\ UNCHANGED <<jobs, items, added>>
      /\ jobs[j] # None
  BY <1>1 DEF Ocr!Call, Ocr!Begin, Ocr!Sessions, Ocr!committed
<1>3. /\ r.op = "start" /\ r.job = j /\ r.gone = {} /\ r.new = {}
      /\ \A i \in ItemIds : r.given[i] = None
  BY <1>1 DEF Ocr!Idle
<1>4. Told(r)
  BY <1>2, <1>3 DEF Told
<1> QED
  BY <1>2, <1>4, OcrTells

LEMMA ConfirmTells ==
  ASSUME NEW t \in Threads, OcrBefore(t), NEW j \in Jobs, NEW body \in Bodies,
         Ocr!Confirm(t, j, body)
  PROVE  OcrAfter
<1>1. PICK r : r = [Ocr!Idle EXCEPT !.op = "confirm", !.job = j, !.write = "APPLIED", !.body = body,
                                   !.dirty = IF body = <<>> THEN {j} ELSE {}]
  OBVIOUS
<1>2. /\ t \in Ocr!Sessions /\ Ocr!Become(t, r) /\ UNCHANGED <<jobs, items, added>>
      /\ jobs[j] = "REVIEW"
  BY <1>1 DEF Ocr!Confirm, Ocr!Reviewable, Ocr!Sessions, Ocr!committed
<1>3. /\ r.op = "confirm" /\ r.job = j /\ r.write = "APPLIED" /\ r.gone = {} /\ r.new = {}
      /\ \A i \in ItemIds : r.given[i] = None
  BY <1>1 DEF Ocr!Idle
<1>4. "REVIEW" # None
  BY OcrNone DEF Ocr!Statuses
<1>5. Told(r)
  BY <1>2, <1>3, <1>4 DEF Told
<1> QED
  BY <1>2, <1>5, OcrTells

LEMMA DismissTells ==
  ASSUME NEW t \in Threads, OcrBefore(t), NEW j \in Jobs, Ocr!Dismiss(t, j)
  PROVE  OcrAfter
<1>1. PICK r : r = [Ocr!Idle EXCEPT !.op = "dismiss", !.job = j, !.write = Ocr!Dismissed, !.dirty = {j}]
  OBVIOUS
<1>2. "REVIEW" # None /\ "QUEUED" # None /\ "PROCESSING" # None
  BY OcrNone DEF Ocr!Statuses
<1>3. /\ t \in Ocr!Sessions /\ Ocr!Become(t, r) /\ UNCHANGED <<jobs, items, added>>
      /\ jobs[j] # None
  BY <1>1, <1>2 DEF Ocr!Dismiss, Ocr!Sessions, Ocr!committed
<1>4. /\ r.op = "dismiss" /\ r.job = j /\ r.write = "FAILED" /\ r.gone = {} /\ r.new = {}
      /\ \A i \in ItemIds : r.given[i] = None
  BY <1>1 DEF Ocr!Idle, Ocr!Dismissed
<1>5. Told(r)
  BY <1>3, <1>4 DEF Told
<1> QED
  BY <1>3, <1>5, OcrTells

LEMMA RaiseTells ==
  ASSUME NEW s \in Ocr!Sessions, OcrBefore(s), Ocr!Raise(s), UNCHANGED <<jobs, items, added>>
  PROVE  OcrAfter
<1>1. CASE reading[s].op \in {"ocr", "read"}
  <2>1. PICK j : j = reading[s].job
    OBVIOUS
  <2>2. jobs[j] # None
    BY <1>1, <2>1 DEF OcrBefore, Told
  <2>3. PICK r : r = [Ocr!Idle EXCEPT !.op = "failing", !.job = j, !.write = "FAILED", !.dirty = {j}]
    OBVIOUS
  <2>4. /\ r.op = "failing" /\ r.job = j /\ r.write = "FAILED" /\ r.gone = {} /\ r.new = {}
        /\ \A i \in ItemIds : r.given[i] = None
    BY <2>3 DEF Ocr!Idle
  <2>5. Told(r)
    BY <2>2, <2>4 DEF Told
  <2>6. Ocr!Become(s, r)
    BY <1>1, <2>1, <2>3 DEF Ocr!Raise
  <2> QED
    BY <2>5, <2>6, OcrTells
<1>2. CASE reading[s].op \notin {"ocr", "read"}
  <2>1. PICK r : r = Ocr!Idle
    OBVIOUS
  <2>2. Ocr!Become(s, r)
    BY <1>2, <2>1 DEF Ocr!Raise
  <2> QED
    BY <2>1, <2>2, IdleTells, OcrTells
<1> QED
  BY <1>1, <1>2

LEMMA CrashTells ==
  ASSUME NEW s \in Ocr!Sessions, OcrBefore(s), Ocr!Crash(s)
  PROVE  OcrAfter
<1>1. PICK r : r = Ocr!Idle
  OBVIOUS
<1>2. Ocr!Become(s, r) /\ UNCHANGED <<jobs, items, added>>
  BY <1>1 DEF Ocr!Crash, Ocr!committed
<1> QED
  BY <1>1, <1>2, IdleTells, OcrTells

LEMMA StartTells ==
  ASSUME NEW w \in Workers, OcrBefore(w), Ocr!Start(w)
  PROVE  OcrAfter
<1>1. w \in Ocr!Sessions /\ Ocr!CanFlush(w) /\ reading[w].op = "start"
  BY DEF Ocr!Start, Ocr!CanStart, Ocr!Sessions
<1>2. PICK f : f = Ocr!Flushed(reading[w])
  OBVIOUS
<1>3. PICK r : r = [f EXCEPT !.op = "ocr"]
  OBVIOUS
<1>4. f \in OcrSession /\ f.job = reading[w].job /\ f.given = reading[w].given
      /\ f.gone = reading[w].gone /\ f.new = reading[w].new
  BY <1>1, <1>2, OcrFlush DEF OcrBefore, Ocr!Repeats
<1>5. /\ r.op = "ocr" /\ r.job = f.job /\ r.given = f.given /\ r.gone = f.gone /\ r.new = f.new
  BY <1>3, <1>4 DEF OcrSession
<1>6. Told(reading[w])
  BY <1>1 DEF OcrBefore
<1>7. Told(r)
  BY <1>1, <1>4, <1>5, <1>6 DEF Told
<1>8. Ocr!Become(w, r) /\ UNCHANGED <<jobs, items, added>>
  BY <1>2, <1>3 DEF Ocr!Start, Ocr!CanStart, Ocr!committed
<1> QED
  BY <1>1, <1>7, <1>8, OcrTells

LEMMA RecogniseTells ==
  ASSUME NEW w \in Workers, OcrBefore(w), Ocr!Recognise(w)
  PROVE  OcrAfter
<1>1. w \in Ocr!Sessions /\ reading[w].op = "ocr" /\ UNCHANGED <<jobs, items, added>>
  BY DEF Ocr!Recognise, Ocr!Sessions, Ocr!committed
<1>2. CASE Ocr!Raise(w)
  BY <1>1, <1>2, RaiseTells
<1>3. ASSUME NEW found \in SUBSET (ItemIds \ drawn),
             Ocr!Become(w, [reading[w] EXCEPT !.op = "read", !.write = "REVIEW",
                              !.gone = Ocr!RowsOf(reading[w].job), !.new = found,
                              !.dirty = Ocr!RowsOf(reading[w].job)])
      PROVE  OcrAfter
  <2>1. PICK o : o = reading[w]
    OBVIOUS
  <2>2. PICK rows : rows = Ocr!RowsOf(o.job)
    OBVIOUS
  <2>3. PICK r : r = [o EXCEPT !.op = "read", !.write = "REVIEW", !.gone = rows, !.new = found,
                               !.dirty = rows]
    OBVIOUS
  <2>4. o \in OcrSession /\ Told(o) /\ o.op = "ocr"
    BY <1>1, <2>1 DEF OcrBefore, OcrInv
  <2>5. /\ r.op = "read" /\ r.write = "REVIEW" /\ r.gone = rows /\ r.job = o.job
        /\ r.given = o.given
    BY <2>3, <2>4 DEF OcrSession
  <2>6. Told(r)
    BY <2>2, <2>4, <2>5 DEF Told
  <2>7. Ocr!Become(w, r)
    BY <1>3, <2>1, <2>2, <2>3
  <2> QED
    BY <1>1, <2>6, <2>7, OcrTells
<1> QED
  BY <1>2, <1>3 DEF Ocr!Recognise

LEMMA ItemTells ==
  ASSUME NEW t \in Threads, OcrBefore(t), Ocr!ConfirmItem(t)
  PROVE  OcrAfter
<1>1. /\ t \in Ocr!Sessions /\ Ocr!CanFlush(t) /\ reading[t].op = "confirm" /\ reading[t].body # <<>>
      /\ UNCHANGED <<jobs, items, added>>
  BY DEF Ocr!ConfirmItem, Ocr!CanConfirmItem, Ocr!Sessions, Ocr!committed
<1>2. PICK e : e = Head(reading[t].body)
  OBVIOUS
<1>3. Ocr!Raise(t) \/ (/\ e.product \in Products /\ Ocr!Known(reading[t], e.item)
                       /\ Ocr!Become(t, Ocr!Booked(reading[t], e)))
  BY <1>2 DEF Ocr!ConfirmItem, Ocr!CanConfirmItem
<1>4. CASE Ocr!Raise(t)
  BY <1>1, <1>4, RaiseTells
<1>5. CASE /\ e.product \in Products /\ Ocr!Known(reading[t], e.item)
           /\ Ocr!Become(t, Ocr!Booked(reading[t], e))
  <2>1. PICK r : r = Ocr!Booked(reading[t], e)
    OBVIOUS
  <2>2. PICK o : o = reading[t]
    OBVIOUS
  <2>3. /\ r.op = "confirm" /\ r.job = o.job /\ r.write = o.write /\ r.gone = o.gone /\ r.new = o.new
        /\ e.item \in ItemIds
        /\ \A i \in ItemIds : r.given[i] = IF i = e.item THEN e ELSE o.given[i]
    BY <1>1, <1>2, <1>5, <2>1, <2>2, OcrBooked DEF OcrBefore
  <2>4. Told(o) /\ o.op = "confirm"
    BY <1>1, <2>2 DEF OcrBefore
  <2>5. e.item \in Ocr!RowsOf(o.job)
    BY <1>5, <2>2, <2>3, <2>4 DEF Ocr!Known, Told
  <2>6. \A i \in ItemIds : r.given[i] # None => i \in Ocr!RowsOf(o.job)
    BY <2>3, <2>4, <2>5 DEF Told
  <2>7. Told(r)
    BY <2>3, <2>4, <2>6 DEF Told
  <2> QED
    BY <1>1, <1>5, <2>1, <2>7, OcrTells
<1> QED
  BY <1>3, <1>4, <1>5

\* The rows after a commit.
LEMMA CommitTells ==
  ASSUME NEW s \in Ocr!Sessions, OcrBefore(s), Ocr!Commit(s)
  PROVE  OcrAfter
<1>1. PICK r : r = reading[s]
  OBVIOUS
<1>2. /\ r \in OcrSession /\ Working(r) /\ Told(r)
      /\ r.op \in {"confirm", "dismiss", "read", "failing"}
  BY <1>1 DEF OcrBefore, OcrInv, Ocr!Commit, Ocr!CanCommit
<1>3. PICK j \in Jobs : j = r.job
  BY <1>2 DEF Working
<1>4. /\ jobs' = [jobs EXCEPT ![j] = r.write]
      /\ added' = [added EXCEPT ![j] = CASE r.op = "confirm" -> @ + 1
                                         [] r.op = "read"    -> 0
                                         [] OTHER            -> @]
  BY <1>1, <1>3 DEF Ocr!Commit, Ocr!CanCommit
<1>5. \A i \in ItemIds : items'[i] =
               IF i \in r.gone THEN None
               ELSE IF i \in r.new THEN [job |-> j, given |-> None]
               ELSE IF r.given[i] # None /\ items[i] # None
                    THEN [items[i] EXCEPT !.given = r.given[i]]
               ELSE items[i]
  BY <1>1, <1>3 DEF Ocr!Commit, Ocr!CanCommit
<1>6. /\ jobs \in [Jobs -> Ocr!Statuses \union {None}] /\ added \in [Jobs -> Nat]
      /\ \A i \in ItemIds : items[i] \in Ocr!Item \union {None}
  BY DEF OcrBefore, OcrInv, OcrTables
<1>7. jobs[j] # None /\ r.write \in Ocr!Statuses /\ r.write # None
  BY <1>2, <1>3, OcrNone DEF Told, Working
<1>8. /\ \A k \in Jobs : jobs'[k] = IF k = j THEN r.write ELSE jobs[k]
      /\ \A k \in Jobs \ {j} : added'[k] = added[k]
      /\ added'[j] = IF r.op = "confirm" THEN added[j] + 1
                     ELSE IF r.op = "read" THEN 0 ELSE added[j]
  <2>1. added'[j] = CASE r.op = "confirm" -> added[j] + 1
                      [] r.op = "read"    -> 0
                      [] OTHER            -> added[j]
    BY <1>4, <1>6
  <2> QED
    BY <1>4, <1>6, <2>1
\* Rows of other jobs stay, and those of a job that was read anew are unconfirmed.
<1>9. ASSUME NEW k \in Jobs, k # j
      PROVE  \A i \in Ocr!RowsOf(k)' : i \in Ocr!RowsOf(k) /\ items'[i] = items[i]
  <2>1. SUFFICES ASSUME NEW i \in ItemIds, items'[i] # None, items'[i].job = k
                 PROVE  i \in Ocr!RowsOf(k) /\ items'[i] = items[i]
    BY DEF Ocr!RowsOf
  <2>2. i \notin r.gone /\ i \notin r.new
    <3>1. i \notin r.gone
      BY <1>5, <2>1
    <3>2. CASE i \in r.new
      <4>1. items'[i] = [job |-> j, given |-> None]
        BY <1>5, <3>1, <3>2
      <4> QED
        BY <1>9, <2>1, <4>1
    <3> QED
      BY <3>1, <3>2
  <2>3. CASE r.given[i] # None /\ items[i] # None
    <3>1. i \in Ocr!RowsOf(j)
      BY <1>2, <1>3, <2>3 DEF Told
    <3>2. items[i].job = j /\ items[i] \in Ocr!Item
      BY <1>6, <2>3, <3>1 DEF Ocr!RowsOf
    <3>3. items'[i] = [items[i] EXCEPT !.given = r.given[i]]
      BY <1>5, <2>2, <2>3
    <3>4. items'[i].job = j
      BY <3>2, <3>3 DEF Ocr!Item
    <3> QED
      BY <1>9, <2>1, <3>4
  <2>4. CASE ~(r.given[i] # None /\ items[i] # None)
    <3>1. items'[i] = items[i]
      BY <1>5, <2>2, <2>4
    <3> QED
      BY <2>1, <3>1 DEF Ocr!RowsOf
  <2> QED
    BY <2>3, <2>4
<1>10. ASSUME NEW k \in Jobs, k # j
       PROVE  /\ added'[k] <= 1
              /\ jobs'[k] = "APPLIED" => added'[k] = 1
              /\ jobs'[k] \in {"QUEUED", "REVIEW"} =>
                   added'[k] = 0 /\ \A i \in Ocr!RowsOf(k)' : items'[i].given = None
              /\ jobs'[k] = None => added'[k] = 0 /\ Ocr!RowsOf(k)' = {}
  <2>1. jobs'[k] = jobs[k] /\ added'[k] = added[k]
    BY <1>8, <1>10
  <2>2. \A i \in Ocr!RowsOf(k)' : i \in Ocr!RowsOf(k) /\ items'[i] = items[i]
    BY <1>9, <1>10
  <2> QED
    BY <2>1, <2>2 DEF OcrBefore, Truthful, Ocr!JobTellsTruth
<1>11. added[j] <= 1 /\ (jobs[j] = "REVIEW" => added[j] = 0)
  BY DEF OcrBefore, Truthful, Ocr!JobTellsTruth
<1>12. /\ added'[j] <= 1
       /\ jobs'[j] = "APPLIED" => added'[j] = 1
       /\ jobs'[j] \in {"QUEUED", "REVIEW"} =>
            added'[j] = 0 /\ \A i \in Ocr!RowsOf(j)' : items'[i].given = None
       /\ jobs'[j] # None
  <2>1. CASE r.op = "confirm"
    BY <1>2, <1>3, <1>7, <1>8, <1>11, <2>1 DEF Told
  <2>2. CASE r.op \in {"dismiss", "failing"}
    BY <1>2, <1>7, <1>8, <1>11, <2>2 DEF Told
  <2>3. CASE r.op = "read"
    <3>1. jobs'[j] = "REVIEW" /\ added'[j] = 0
      BY <1>2, <1>8, <2>3 DEF Told
    <3>2. ASSUME NEW i \in ItemIds, items'[i] # None, items'[i].job = j
          PROVE  items'[i].given = None
      <4>1. r.given[i] = None /\ r.gone = Ocr!RowsOf(j)
        BY <1>2, <1>3, <2>3 DEF Told
      <4>2. i \notin r.gone
        BY <1>5, <3>2
      <4>3. items'[i] = IF i \in r.new THEN [job |-> j, given |-> None] ELSE items[i]
        BY <1>5, <4>1, <4>2
      <4>4. i \in r.new
        BY <3>2, <4>1, <4>2, <4>3 DEF Ocr!RowsOf
      <4> QED
        BY <4>3, <4>4
    <3> QED
      BY <1>7, <1>8, <3>1, <3>2 DEF Ocr!RowsOf
  <2> QED
    BY <1>2, <2>1, <2>2, <2>3
<1>13. Truthful'
  <2>1. \A k \in Jobs :
              /\ added'[k] <= 1
              /\ jobs'[k] = "APPLIED" => added'[k] = 1
              /\ jobs'[k] \in {"QUEUED", "REVIEW"} =>
                   added'[k] = 0 /\ \A i \in Ocr!RowsOf(k)' : items'[i].given = None
              /\ jobs'[k] = None => added'[k] = 0 /\ Ocr!RowsOf(k)' = {}
    BY <1>10, <1>12
  <2> QED
    BY <2>1 DEF Truthful, Ocr!JobTellsTruth
<1>14. PICK n : n = Ocr!Idle
  OBVIOUS
<1>15. n.op = "none" /\ Told(n)
  BY <1>14, OcrIdleIs, IdleTells
<1>16. Told(n)'
  BY <1>15, IdleTold
<1>17. reading' = [reading EXCEPT ![s] = n]
  BY <1>14 DEF Ocr!Commit, Ocr!CanCommit, Ocr!Become
<1> QED
  BY <1>13, <1>16, <1>17, OcrOthers DEF OcrAfter

\* A step is one session's, or nobody's.
LEMMA OneReads ==
  ASSUME OcrInv, [Ocr!Next]_(Ocr!vars)
  PROVE  \/ /\ UNCHANGED <<jobs, items, added>>
            /\ \A u \in Ocr!Sessions : reading'[u] \in {reading[u], Ocr!Idle}
         \/ \E s \in Ocr!Sessions : /\ \A u \in Ocr!Sessions \ {s} : reading'[u] = reading[u]
                                    /\ reading[s].op # "none" \/ reading'[s].op # "none"
                                    /\ OcrBefore(s) => OcrAfter
<1>1. ASSUME NEW s \in Ocr!Sessions, NEW r, Ocr!Become(s, r)
      PROVE  \A u \in Ocr!Sessions \ {s} : reading'[u] = reading[u]
  BY <1>1 DEF Ocr!Become, OcrInv
<1>2. ASSUME NEW s \in Ocr!Sessions, Ocr!Raise(s)
      PROVE  \E r : Ocr!Become(s, r)
  BY <1>2 DEF Ocr!Raise
<1>3. ASSUME NEW t \in Threads, NEW j \in Jobs,
             Ocr!Upload(t, j) \/ Ocr!Dismiss(t, j) \/ \E body \in Bodies : Ocr!Confirm(t, j, body)
      PROVE  \E s \in Ocr!Sessions : /\ \A u \in Ocr!Sessions \ {s} : reading'[u] = reading[u]
                                     /\ reading[s].op # "none" \/ reading'[s].op # "none"
                                     /\ OcrBefore(s) => OcrAfter
  <2>1. t \in Ocr!Sessions /\ \E r : Ocr!Become(t, r)
    BY <1>3 DEF Ocr!Upload, Ocr!Dismiss, Ocr!Confirm, Ocr!Sessions
  <2>2. OcrBefore(t) => OcrAfter
    BY <1>3, UploadTells, DismissTells, ConfirmTells
  <2>3. \E r : Ocr!Become(t, r) /\ r.op # "none"
    <3>1. CASE Ocr!Upload(t, j)
      <4>1. PICK r : r = [Ocr!Idle EXCEPT !.op = "delay", !.job = j]
        OBVIOUS
      <4>2. r.op = "delay"
        BY <4>1 DEF Ocr!Idle
      <4> QED
        BY <3>1, <4>1, <4>2 DEF Ocr!Upload
    <3>2. CASE Ocr!Dismiss(t, j)
      <4>1. PICK r : r = [Ocr!Idle EXCEPT !.op = "dismiss", !.job = j, !.write = Ocr!Dismissed,
                                       !.dirty = {j}]
        OBVIOUS
      <4>2. r.op = "dismiss"
        BY <4>1 DEF Ocr!Idle
      <4> QED
        BY <3>2, <4>1, <4>2 DEF Ocr!Dismiss
    <3>3. CASE \E body \in Bodies : Ocr!Confirm(t, j, body)
      <4>0. PICK body \in Bodies : Ocr!Confirm(t, j, body)
        BY <3>3
      <4>1. PICK r : r = [Ocr!Idle EXCEPT !.op = "confirm", !.job = j, !.write = "APPLIED", !.body = body,
                                       !.dirty = IF body = <<>> THEN {j} ELSE {}]
        OBVIOUS
      <4>2. r.op = "confirm"
        BY <4>1 DEF Ocr!Idle
      <4> QED
        BY <4>0, <4>1, <4>2 DEF Ocr!Confirm
    <3> QED
      BY <1>3, <3>1, <3>2, <3>3
  <2>4. reading'[t].op # "none"
    BY <2>1, <2>3 DEF Ocr!Become, OcrInv
  <2> QED
    BY <1>1, <2>1, <2>2, <2>4
<1>4. ASSUME NEW t \in Threads, Ocr!Delay(t) \/ Ocr!ConfirmItem(t)
      PROVE  \E s \in Ocr!Sessions : /\ \A u \in Ocr!Sessions \ {s} : reading'[u] = reading[u]
                                     /\ reading[s].op # "none" \/ reading'[s].op # "none"
                                     /\ OcrBefore(s) => OcrAfter
  <2>1. t \in Ocr!Sessions
    BY DEF Ocr!Sessions
  <2>2. \E r : Ocr!Become(t, r)
    BY <1>2, <1>4, <2>1 DEF Ocr!Delay, Ocr!ConfirmItem, Ocr!CanConfirmItem
  <2>3. OcrBefore(t) => OcrAfter
    BY <1>4, DelayTells, ItemTells
  <2>4. reading[t].op # "none"
    BY <1>4 DEF Ocr!Delay, Ocr!ConfirmItem, Ocr!CanConfirmItem
  <2> QED
    BY <1>1, <2>1, <2>2, <2>3, <2>4
<1>5. ASSUME NEW w \in Workers, \E j \in Jobs : Ocr!Call(w, j)
      PROVE  \E s \in Ocr!Sessions : /\ \A u \in Ocr!Sessions \ {s} : reading'[u] = reading[u]
                                     /\ reading[s].op # "none" \/ reading'[s].op # "none"
                                     /\ OcrBefore(s) => OcrAfter
  <2>1. w \in Ocr!Sessions /\ \E r : Ocr!Become(w, r)
    BY <1>5 DEF Ocr!Call, Ocr!Begin, Ocr!Sessions
  <2>2. OcrBefore(w) => OcrAfter
    BY <1>5, CallTells
  <2>3. \E r : Ocr!Become(w, r) /\ r.op # "none"
    <3>0. PICK j \in Jobs : Ocr!Call(w, j)
      BY <1>5
    <3>1. PICK r : r = [Ocr!Idle EXCEPT !.op = "start", !.job = j, !.write = "PROCESSING", !.dirty = {j}]
      OBVIOUS
    <3>2. r.op = "start"
      BY <3>1 DEF Ocr!Idle
    <3> QED
      BY <3>0, <3>1, <3>2 DEF Ocr!Call, Ocr!Begin
  <2>4. reading'[w].op # "none"
    BY <2>1, <2>3 DEF Ocr!Become, OcrInv
  <2> QED
    BY <1>1, <2>1, <2>2, <2>4
<1>6. ASSUME NEW w \in Workers, \E m \in queue : Ocr!Take(w, m)
      PROVE  UNCHANGED <<jobs, items, added>> /\ reading' = reading
  BY <1>6, OcrTake DEF Ocr!committed
<1>7. ASSUME NEW w \in Workers, Ocr!Start(w) \/ Ocr!Recognise(w)
      PROVE  \E s \in Ocr!Sessions : /\ \A u \in Ocr!Sessions \ {s} : reading'[u] = reading[u]
                                     /\ reading[s].op # "none" \/ reading'[s].op # "none"
                                     /\ OcrBefore(s) => OcrAfter
  <2>1. w \in Ocr!Sessions
    BY DEF Ocr!Sessions
  <2>2. \E r : Ocr!Become(w, r)
    BY <1>2, <1>7, <2>1 DEF Ocr!Start, Ocr!CanStart, Ocr!Recognise
  <2>3. OcrBefore(w) => OcrAfter
    BY <1>7, StartTells, RecogniseTells
  <2>4. reading[w].op # "none"
    BY <1>7 DEF Ocr!Start, Ocr!CanStart, Ocr!Recognise
  <2> QED
    BY <1>1, <2>1, <2>2, <2>3, <2>4
<1>8. ASSUME NEW s \in Ocr!Sessions,
             \/ Ocr!Commit(s) \/ Ocr!Crash(s)
             \/ Ocr!Raise(s) /\ UNCHANGED <<Ocr!committed, queue, direct, drawn>>
      PROVE  \/ /\ UNCHANGED <<jobs, items, added>>
                /\ \A u \in Ocr!Sessions : reading'[u] \in {reading[u], Ocr!Idle}
             \/ /\ \A u \in Ocr!Sessions \ {s} : reading'[u] = reading[u]
                /\ reading[s].op # "none" \/ reading'[s].op # "none"
                /\ OcrBefore(s) => OcrAfter
  <2>1. \E r : Ocr!Become(s, r)
    BY <1>2, <1>8 DEF Ocr!Commit, Ocr!CanCommit, Ocr!Crash
  <2>2. OcrBefore(s) => OcrAfter
    BY <1>8, CommitTells, CrashTells, RaiseTells DEF Ocr!committed
  <2>3. CASE reading[s].op # "none"
    BY <1>1, <2>1, <2>2, <2>3
  <2>4. CASE reading[s].op = "none"
    <3>1. Ocr!Raise(s) /\ UNCHANGED <<jobs, items, added>>
      BY <1>8, <2>4 DEF Ocr!Commit, Ocr!CanCommit, Ocr!Crash, Ocr!committed
    <3>2. Ocr!Become(s, Ocr!Idle)
      BY <2>4, <3>1 DEF Ocr!Raise
    <3>3. \A u \in Ocr!Sessions : reading'[u] = IF u = s THEN Ocr!Idle ELSE reading[u]
      BY <3>2 DEF Ocr!Become, OcrInv
    <3> QED
      BY <3>1, <3>3
  <2> QED
    BY <2>3, <2>4
<1>9. UNCHANGED Ocr!vars => UNCHANGED <<jobs, items, added>> /\ reading' = reading
  BY DEF Ocr!vars
<1> QED
  BY <1>3, <1>4, <1>5, <1>6, <1>7, <1>8, <1>9, OcrSteps

LEMMA ReadingOne ==
  ASSUME OcrInv, OneReading, JobsNext
  PROVE  OneReading'
<1>1. CASE UNCHANGED <<Ocr!vars, jobsOverlapped>>
  BY <1>1 DEF OneReading, Ocr!vars
<1>2. CASE jobsOverlapped' = (jobsOverlapped \/ Cardinality(Reading') > 1)
  <2>1. SUFFICES ASSUME ~jobsOverlapped', NEW s \in Ocr!Sessions, NEW u \in Ocr!Sessions,
                        reading'[s].op # "none", reading'[u].op # "none"
                 PROVE  s = u
    BY DEF OneReading
  <2>2. Reading' \subseteq Ocr!Sessions /\ s \in Reading' /\ u \in Reading'
    BY <2>1 DEF Reading
  <2>3. IsFiniteSet(Ocr!Sessions)
    <3>1. IsFiniteSet(Threads \union Workers)
      BY StockroomAssumption, Zenon DEF Ocr!OcrAssumption, Ocr!IsFiniteSet, IsFiniteSet
    <3> QED
      BY ONLY <3>1, Zenon DEF Ocr!Sessions
  <2>4. PICK R : R = Reading'
    OBVIOUS
  <2>5. IsFiniteSet(R) /\ Cardinality(R) \in Nat
    BY <2>2, <2>3, <2>4, FS_Subset, FS_CardinalityType
  <2>6. ~(Cardinality(R) > 1)
    BY <1>2, <2>1, <2>4
  <2>7. Cardinality(R) <= 1
    BY <2>5, <2>6
  <2> QED
    BY <2>2, <2>4, <2>5, <2>7, OneIsAll
<1> QED
  BY <1>1, <1>2 DEF JobsNext

LEMMA JobsSteps ==
  ASSUME JobsInv, JobsNext
  PROVE  JobsInv'
<1>1. [Ocr!Next]_(Ocr!vars)
  BY DEF JobsNext
<1>0. jobsOverlapped => jobsOverlapped'
  <2>1. \/ UNCHANGED <<Ocr!vars, jobsOverlapped>>
        \/ jobsOverlapped' = (jobsOverlapped \/ Cardinality(Reading') > 1)
    BY DEF JobsNext
  <2> QED
    BY <2>1, Zenon
<1>2. OcrInv'
  BY <1>1, OcrStep DEF JobsInv
<1>3. OneReading'
  BY ReadingOne DEF JobsInv
<1>4. ASSUME ~jobsOverlapped'
      PROVE  OcrAfter
  <2>1. ~jobsOverlapped
    BY <1>0, <1>4
  <2>2. Truthful /\ \A u \in Ocr!Sessions : Told(reading[u])
    BY <2>1 DEF JobsInv, JobsSerial
  <2>3. CASE /\ UNCHANGED <<jobs, items, added>>
             /\ \A u \in Ocr!Sessions : reading'[u] \in {reading[u], Ocr!Idle}
    <3>1. Truthful'
      BY <2>2, <2>3 DEF Truthful, Ocr!JobTellsTruth, Ocr!RowsOf
    <3>2. ASSUME NEW u \in Ocr!Sessions
          PROVE  Told(reading[u])'
      <4>1. PICK o : o = reading'[u]
        OBVIOUS
      <4>2. Told(o)
        BY <2>2, <2>3, <4>1, IdleTells
      <4> QED
        BY <2>3, <4>1, <4>2 DEF Told, Ocr!RowsOf
    <3> QED
      BY <3>1, <3>2 DEF OcrAfter
  <2>4. ASSUME NEW s \in Ocr!Sessions, \A u \in Ocr!Sessions \ {s} : reading'[u] = reading[u],
               reading[s].op # "none" \/ reading'[s].op # "none", OcrBefore(s) => OcrAfter
        PROVE  OcrAfter
    <3>1. CASE reading[s].op # "none"
      <4>1. \A u \in Ocr!Sessions \ {s} : reading[u].op = "none"
        BY <2>1, <3>1 DEF JobsInv, OneReading
      <4> QED
        BY <2>2, <2>4, <4>1 DEF OcrBefore, JobsInv
    <3>2. CASE reading'[s].op # "none"
      <4>1. \A u \in Ocr!Sessions \ {s} : reading'[u].op = "none"
        BY <1>3, <1>4, <3>2 DEF OneReading
      <4>2. \A u \in Ocr!Sessions \ {s} : reading[u].op = "none"
        BY <2>4, <4>1
      <4> QED
        BY <2>2, <2>4, <4>2 DEF OcrBefore, JobsInv
    <3> QED
      BY <2>4, <3>1, <3>2
  <2> QED
    BY <1>1, <2>3, <2>4, OneReads DEF JobsInv
<1> QED
  BY <1>2, <1>3, <1>4 DEF JobsInv, JobsSerial, OcrAfter

(* As long as no two sessions overlap, a job that is queued or waits for    *)
(* review has added nothing to stock and confirmed no item, an applied one  *)
(* was added once (the docstring of confirm_job, vision/routes.py).         *)
THEOREM SerialInvoices ==
  Ocr!Init /\ ~jobsOverlapped /\ [][JobsNext]_<<Ocr!vars, jobsOverlapped>>
    => []SerialJobTellsTruth
<1>1. Ocr!Init /\ ~jobsOverlapped => JobsInv
  <2> SUFFICES ASSUME Ocr!Init PROVE JobsInv
    OBVIOUS
  <2>1. OcrInv
    BY OcrStart_Inv
  <2>2. \A s \in Ocr!Sessions : reading[s] = Ocr!Idle
    BY DEF Ocr!Init
  <2>3. OneReading
    BY <2>2, OcrIdleIs DEF OneReading
  <2>4. \A s \in Ocr!Sessions : Told(reading[s])
    BY <2>2, IdleTells
  <2>5. Truthful
    <3>1. \A j \in Jobs : jobs[j] = None /\ added[j] = 0 /\ Ocr!RowsOf(j) = {}
      BY DEF Ocr!Init, Ocr!RowsOf
    <3>2. None \notin {"APPLIED", "QUEUED", "REVIEW"}
      BY OcrNone DEF Ocr!Statuses
    <3> QED
      BY <3>1, <3>2 DEF Truthful, Ocr!JobTellsTruth
  <2> QED
    BY <2>1, <2>3, <2>4, <2>5 DEF JobsInv, JobsSerial
<1>2. JobsInv /\ [JobsNext]_<<Ocr!vars, jobsOverlapped>> => JobsInv'
  BY JobsSteps DEF JobsNext
<1>3. JobsInv => SerialJobTellsTruth
  BY DEF JobsInv, JobsSerial, Truthful, SerialJobTellsTruth
<1> QED
  BY <1>1, <1>2, <1>3, PTL

-----------------------------------------------------------------------------
(* Invoices: what an upload's task comes to.                                *)

\* As long as nobody calls the task directly, no invoice is read or booked.
Unread ==
  ~direct =>
    /\ \A j \in Jobs : jobs[j] \in {None, "QUEUED", "FAILED"}
    /\ \A i \in ItemIds : items[i] = None
    /\ \A p \in Products : booked[p] = 0 /\ adjusted[p] = 0

\* For a session then only sends a task, or dismisses a job.
Plain(r) ==
  /\ r.op \in {"none", "delay", "dismiss"}
  /\ r.op = "dismiss" => r.write = "FAILED"
  /\ r.new = {} /\ \A p \in Products : r.own[p] = None
  /\ \A i \in ItemIds : r.given[i] = None

UnreadInv == Unread /\ (~direct => \A s \in Ocr!Sessions : Plain(reading[s]))

LEMMA PlainIs ==
  ASSUME NEW o, o = Ocr!Idle
  PROVE  /\ Plain(o)
         /\ \A j : /\ Plain([o EXCEPT !.op = "delay", !.job = j])
                   /\ Plain([o EXCEPT !.op = "dismiss", !.job = j, !.write = Ocr!Dismissed, !.dirty = {j}])
<1>1. /\ o.op = "none" /\ o.new = {} /\ \A p \in Products : o.own[p] = None
      /\ \A i \in ItemIds : o.given[i] = None
  BY DEF Ocr!Idle
<1>2. o \in OcrSession
  BY OcrIdleIs
<1>3. Plain(o)
  BY <1>1 DEF Plain
<1>4. ASSUME NEW j
      PROVE  Plain([o EXCEPT !.op = "delay", !.job = j])
  <2>1. PICK r : r = [o EXCEPT !.op = "delay", !.job = j]
    OBVIOUS
  <2>2. r.op = "delay" /\ r.new = o.new /\ r.own = o.own /\ r.given = o.given
    BY <1>2, <2>1 DEF OcrSession
  <2> QED
    BY <1>1, <2>1, <2>2 DEF Plain
<1>5. ASSUME NEW j
      PROVE  Plain([o EXCEPT !.op = "dismiss", !.job = j, !.write = Ocr!Dismissed, !.dirty = {j}])
  <2>1. PICK r : r = [o EXCEPT !.op = "dismiss", !.job = j, !.write = Ocr!Dismissed, !.dirty = {j}]
    OBVIOUS
  <2>2. /\ r.op = "dismiss" /\ r.write = "FAILED"
        /\ r.new = o.new /\ r.own = o.own /\ r.given = o.given
    BY <1>2, <2>1 DEF OcrSession, Ocr!Dismissed
  <2> QED
    BY <1>1, <2>1, <2>2 DEF Plain
<1> QED
  BY <1>3, <1>4, <1>5

LEMMA UnreadStep ==
  ASSUME OcrInv, UnreadInv, [Ocr!Next]_(Ocr!vars)
  PROVE  UnreadInv'
<1>1. PICK o : o = Ocr!Idle
  OBVIOUS
<1>2. reading \in [Ocr!Sessions -> OcrSession] /\ jobs \in [Jobs -> Ocr!Statuses \union {None}]
  BY DEF OcrInv, OcrTables
<1>3. ASSUME NEW s \in Ocr!Sessions, NEW r, Ocr!Become(s, r), Plain(r), Unread', direct' = direct
      PROVE  UnreadInv'
  <2>1. \A u \in Ocr!Sessions : reading'[u] = IF u = s THEN r ELSE reading[u]
    BY <1>2, <1>3 DEF Ocr!Become
  <2> QED
    BY <1>3, <2>1 DEF UnreadInv, Plain
<1>4. ASSUME UNCHANGED <<jobs, items, booked, adjusted, direct>>
      PROVE  Unread'
  BY <1>4 DEF UnreadInv, Unread
<1>5. ASSUME NEW s \in Ocr!Sessions, Ocr!Become(s, o), UNCHANGED <<Ocr!committed, direct>>
      PROVE  UnreadInv'
  BY <1>1, <1>3, <1>4, <1>5, PlainIs DEF Ocr!committed
<1>6. ASSUME reading' = reading, UNCHANGED <<Ocr!committed, direct>>
      PROVE  UnreadInv'
  BY <1>4, <1>6 DEF UnreadInv, Plain, Ocr!committed
<1>7. Threads \subseteq Ocr!Sessions /\ Workers \subseteq Ocr!Sessions
  BY DEF Ocr!Sessions
\* Once somebody calls the task directly, nothing is claimed.
<1>8. direct' = direct
  BY OcrSteps DEF Ocr!Upload, Ocr!Dismiss, Ocr!Confirm, Ocr!Delay, Ocr!ConfirmItem, Ocr!Take, Ocr!Call,
                  Ocr!Start, Ocr!Recognise, Ocr!Commit, Ocr!Crash, Ocr!vars
<1>9. SUFFICES ASSUME ~direct PROVE UnreadInv'
  BY <1>8 DEF UnreadInv, Unread
<1>10. /\ \A s \in Ocr!Sessions : Plain(reading[s])
       /\ \A j \in Jobs : jobs[j] \in {None, "QUEUED", "FAILED"}
  BY <1>9 DEF UnreadInv, Unread
<1>11. ASSUME NEW t \in Threads, NEW j \in Jobs, Ocr!Upload(t, j)
       PROVE  UnreadInv'
  <2>1. Ocr!Become(t, [o EXCEPT !.op = "delay", !.job = j])
    BY <1>1, <1>11 DEF Ocr!Upload
  <2>2. jobs' = [jobs EXCEPT ![j] = "QUEUED"] /\ UNCHANGED <<items, booked, adjusted>>
    BY <1>11 DEF Ocr!Upload
  <2>3. \A k \in Jobs : jobs'[k] \in {None, "QUEUED", "FAILED"}
    BY <1>2, <1>10, <2>2
  <2>4. Unread'
    BY <1>9, <2>2, <2>3 DEF UnreadInv, Unread
  <2> QED
    BY <1>1, <1>3, <1>7, <1>8, <2>1, <2>4, PlainIs
<1>12. ASSUME NEW t \in Threads, NEW j \in Jobs, Ocr!Dismiss(t, j)
       PROVE  UnreadInv'
  <2>1. /\ Ocr!Become(t, [o EXCEPT !.op = "dismiss", !.job = j, !.write = Ocr!Dismissed, !.dirty = {j}])
        /\ UNCHANGED <<Ocr!committed, direct>>
    BY <1>1, <1>12 DEF Ocr!Dismiss
  <2> QED
    BY <1>1, <1>3, <1>4, <1>7, <2>1, PlainIs DEF Ocr!committed
<1>13. ASSUME NEW t \in Threads, NEW j \in Jobs, NEW body \in Bodies, Ocr!Confirm(t, j, body)
       PROVE  FALSE
  <2>1. jobs[j] = "REVIEW"
    BY <1>13 DEF Ocr!Confirm, Ocr!Reviewable
  <2>2. "REVIEW" # None
    BY OcrNone DEF Ocr!Statuses
  <2> QED
    BY <1>10, <2>1, <2>2
<1>14. ASSUME NEW t \in Threads, Ocr!Delay(t) \/ Ocr!ConfirmItem(t)
       PROVE  UnreadInv'
  <2>1. ~Ocr!ConfirmItem(t)
    BY <1>7, <1>10 DEF Plain, Ocr!ConfirmItem, Ocr!CanConfirmItem
  <2> QED
    BY <1>1, <1>5, <1>7, <1>14, <2>1 DEF Ocr!Delay
<1>15. ASSUME NEW w \in Workers
       PROVE  ~Ocr!Start(w) /\ ~Ocr!Recognise(w) /\ \A j \in Jobs : ~Ocr!Call(w, j)
  BY <1>7, <1>9, <1>10 DEF Plain, Ocr!Start, Ocr!CanStart, Ocr!Recognise, Ocr!Call
<1>16. ASSUME NEW w \in Workers, NEW m \in queue, Ocr!Take(w, m)
       PROVE  UnreadInv'
  BY <1>6, <1>8, <1>16, OcrTake
<1>17. ASSUME NEW s \in Ocr!Sessions, Ocr!Crash(s)
       PROVE  UnreadInv'
  BY <1>1, <1>5, <1>17 DEF Ocr!Crash
<1>18. ASSUME NEW s \in Ocr!Sessions, Ocr!Raise(s), UNCHANGED Ocr!committed
       PROVE  UnreadInv'
  <2>1. Ocr!Become(s, o)
    BY <1>1, <1>10, <1>18 DEF Plain, Ocr!Raise
  <2> QED
    BY <1>5, <1>8, <1>18, <2>1
<1>19. ASSUME NEW s \in Ocr!Sessions, Ocr!Commit(s)
       PROVE  UnreadInv'
  <2>1. PICK r : r = reading[s]
    OBVIOUS
  <2>2. r.op = "dismiss" /\ Plain(r)
    BY <1>10, <1>19, <2>1 DEF Plain, Ocr!Commit, Ocr!CanCommit
  <2>3. r.job \in Jobs
    BY <2>1, <2>2 DEF OcrInv, Working
  <2>4. \A j \in Jobs : jobs'[j] \in {None, "QUEUED", "FAILED"}
    <3>1. jobs' = [jobs EXCEPT ![r.job] = "FAILED"]
      BY <1>19, <2>1, <2>2 DEF Ocr!Commit, Plain
    <3> QED
      BY <1>2, <1>10, <2>3, <3>1
  <2>5. \A i \in ItemIds : items'[i] = None
    <3>1. \A i \in ItemIds : items[i] = None
      BY <1>9 DEF UnreadInv, Unread
    <3> QED
      BY <1>19, <2>1, <2>2, <3>1 DEF Ocr!Commit, Plain
  <2>6. \A p \in Products : booked'[p] = 0 /\ adjusted'[p] = 0
    <3>1. \A p \in Products : booked[p] = 0 /\ adjusted[p] = 0
      BY <1>9 DEF UnreadInv, Unread
    <3>2. \A p \in Products : r.own[p] = None
      BY <2>2 DEF Plain
    <3>3. \A p \in Products : booked'[p] = booked[p] /\ adjusted'[p] = adjusted[p]
      BY <1>19, <2>1, <3>2 DEF Ocr!Commit, Ocr!Stock
    <3> QED
      BY <3>1, <3>3
  <2>7. Ocr!Become(s, o)
    BY <1>1, <1>19 DEF Ocr!Commit
  <2> QED
    BY <1>1, <1>3, <1>8, <2>4, <2>5, <2>6, <2>7, PlainIs DEF Unread
<1>20. UNCHANGED Ocr!vars => UnreadInv'
  BY <1>6 DEF Ocr!vars, Ocr!committed
<1> QED
  BY <1>11, <1>12, <1>13, <1>14, <1>15, <1>16, <1>17, <1>18, <1>19, <1>20, OcrSteps

(* Unless process_ocr_job is called directly, no uploaded invoice is ever   *)
(* read, whatever the broker and the workers do: the name that              *)
(* _DelayWrapper sends is registered by none of them (upload_invoice,       *)
(* vision/routes.py; tasks/tasks.py).  The run ocr_never_read shows one     *)
(* that is accepted and not read, this that none is.                        *)
THEOREM InvoicesNeverRead == Ocr!Spec => []Unread
<1>1. Ocr!Init => UnreadInv
  <2> SUFFICES ASSUME Ocr!Init PROVE UnreadInv
    OBVIOUS
  <2>1. PICK o : o = Ocr!Idle
    OBVIOUS
  <2>2. \A s \in Ocr!Sessions : reading[s] = o
    BY <2>1 DEF Ocr!Init
  <2> QED
    BY <2>1, <2>2, PlainIs DEF UnreadInv, Unread, Ocr!Init
<1>2. OcrInv /\ UnreadInv /\ [Ocr!Next]_(Ocr!vars) => UnreadInv'
  BY UnreadStep
<1>3. OcrInv /\ [Ocr!Next]_(Ocr!vars) => OcrInv'
  BY OcrStep
<1>4. UnreadInv => Unread
  BY DEF UnreadInv
<1> QED
  BY <1>1, <1>2, <1>3, <1>4, OcrStart_Inv, PTL DEF Ocr!Spec

-----------------------------------------------------------------------------
(* Inventory: types, skus, and stock against its records. *)

ShopSession ==
  [op : {"none", "commit", "warn", "audit"}, new : [id : Products, row : Shop!Row] \union {None},
   seen : [Products -> Shop!Row \union {None}], now : [Products -> Shop!Row \union {None}],
   held : SUBSET Products, counts : Seq([product : Products \union Foreign, actual : Int]),
   shown : [Products -> Shop!Shown \union {None}],
   moved : [Products -> Int], audited : [Products -> Int],
   raised : SUBSET (Shop!Types \X Products), solved : SUBSET (Shop!Types \X Products \X Nat),
   locked : BOOLEAN, sugg : [Suggested -> Shop!Sugg \union {None}]]

\* What a session adds to the records of a product is by how much it changes the stock it
\* has read, it leaves the sku alone, and a product to insert is none yet.
Fit(r) ==
  /\ \A p \in Products :
       /\ r.seen[p] = None <=> r.now[p] = None
       /\ r.now[p] = None => r.moved[p] = 0 /\ r.audited[p] = 0
       /\ r.now[p] # None => /\ product[p] # None
                             /\ r.now[p].sku = r.seen[p].sku
                             /\ r.now[p].stock - r.seen[p].stock = r.moved[p] + r.audited[p]
  /\ r.new # None => /\ product[r.new.id] = None
                     /\ r.new.row.stock = 0
                     /\ r.new.row.sku \in 1 .. Shop!Cardinality(Shop!Existing) + 1
  /\ r.op = "warn" => \E p \in Products : r.now[p] # None
  /\ r.op = "audit" => r.counts # <<>>
  /\ \A x \in Suggested : r.sugg[x] # None => product[r.sugg[x].product] # None

\* No two sessions insert one product.
OwnNew ==
  \A s, u \in Threads :
    s # u /\ sess[s].new # None /\ sess[u].new # None => sess[s].new.id # sess[u].new.id

\* Of a product that is none yet, nothing is recorded, and no price is suggested.
Recorded ==
  /\ \A p \in Products : IF product[p] = None THEN lost[p] = 0 /\ moved[p] + audited[p] = 0
                         ELSE product[p].stock + lost[p] = moved[p] + audited[p]
  /\ \A x \in Suggested : sugg[x] # None => product[sugg[x].product] # None

ShopInv ==
  /\ Shop!TypeOK /\ Recorded /\ Shop!SkusCount
  /\ sess \in [Threads -> ShopSession]
  /\ \A s \in Threads : Fit(sess[s])
  /\ OwnNew
  /\ commits + Shop!Cardinality(Shop!Busy) <= MaxCommits

\* Suggestions: a session inserts those that are new, its own, and answers others; under the
\* lock one session inserts them, for products that have none.
Inserts(r, x) == r.sugg[x] # None /\ r.sugg[x].status = "PENDING"

Single ==
  \A s \in Threads, x \in Suggested :
    /\ sess[s].sugg[x] # None => (Inserts(sess[s], x) <=> sugg[x] = None)
    /\ Inserts(sess[s], x) => \A u \in Threads \ {s} : sess[u].sugg[x] = None

Exclusive ==
  \A s \in Threads :
    /\ \A x \in Suggested : Inserts(sess[s], x) => sess[s].locked
    /\ sess[s].locked => lock /\ \A u \in Threads \ {s} : ~sess[u].locked

Due(r) ==
  \A x \in Suggested :
    Inserts(r, x) => /\ Shop!RecentlyPending(r.sugg[x].product) = {}
                     /\ \A y \in Suggested :
                          Inserts(r, y) /\ r.sugg[y].product = r.sugg[x].product => x = y

OnePending == \A p \in Products : \A x, y \in Shop!RecentlyPending(p) : x = y

PriceInv == ShopInv /\ Single /\ (safe => Exclusive /\ OnePending /\ \A s \in Threads : Due(sess[s]))

ShopNext ==
  \/ Shop!Next /\ shopOverlapped' = (shopOverlapped \/ Shop!Cardinality(Shop!Busy') > 1)
  \/ UNCHANGED <<Shop!vars, shopOverlapped>>

OneBusy ==
  ~shopOverlapped => \A s, u \in Threads : sess[s].op # "none" /\ sess[u].op # "none" => s = u

\* What a session has read of a product, of an alert or of a suggestion is still so, and the
\* history it adds is the price it writes.
Reads(r) ==
  /\ \A p \in Products :
       /\ r.now[p] # None => r.seen[p] = product[p]
       /\ r.shown[p] # None =>
            \/ r.new # None /\ r.new.id = p /\ Shop!Shows(r.shown[p], r.new.row)
            \/ r.now[p] # None /\ Shop!Shows(r.shown[p], r.now[p])
       /\ r.shown[p] = None =>
            /\ r.new # None => r.new.id # p
            /\ r.now[p] # None => r.now[p].cost = product[p].cost /\ r.now[p].price = product[p].price
       /\ <<"MARGIN_WARNING", p>> \in r.raised => ~Shop!Open("MARGIN_WARNING", p)
       /\ <<"LOW_STOCK", p>> \in r.raised => Shop!NeverLow(p)
  /\ \A x \in Suggested :
       r.sugg[x] # None /\ ~Inserts(r, x) => sugg[x] # None /\ sugg[x].status = "PENDING"

OneOpen ==
  \A type \in Shop!Types, p \in Products :
    /\ \A i, j \in DOMAIN alerts[<<type, p>>] : alerts[<<type, p>>][i] /\ alerts[<<type, p>>][j] => i = j
    /\ type = "LOW_STOCK" => Len(alerts[<<type, p>>]) <= 1

Agreed == Shop!HistoryShowsPrice /\ Shop!SuggestionsOnce /\ OneOpen

ShopSerial == ~shopOverlapped => Agreed /\ \A s \in Threads : Reads(sess[s])

\* A session that is at rest knows nothing.
Resting == \A s \in Threads : sess[s].op = "none" => sess[s] = Shop!Idle

RecordsInv == PriceInv /\ Resting /\ OneBusy /\ ShopSerial

LEMMA ShopCardinality ==
  ASSUME NEW S
  PROVE  Shop!Cardinality(S) = Cardinality(S)
  BY DEF Shop!Cardinality, Cardinality

LEMMA ShopFinite == IsFiniteSet(Threads) /\ IsFiniteSet(Products) /\ MaxCommits \in Nat
  BY StockroomAssumption, Zenon DEF Shop!InventoryAssumption, Shop!IsFiniteSet, IsFiniteSet

LEMMA ShopNone ==
  /\ None \notin Shop!Row /\ None \notin Shop!Sugg /\ None \notin Shop!Shown
  /\ None \notin Nat /\ None \notin BOOLEAN /\ None \notin [id : Products, row : Shop!Row]
  BY StockroomAssumption DEF Shop!InventoryAssumption

\* A row of the price history, of a handler that writes the cost or leaves out a cost of zero.
LEMMA ShownIs ==
  ASSUME NEW cost \in Nat, NEW price \in Nat
  PROVE  /\ <<cost, price>> \in Shop!Shown /\ <<cost, price>> # None
         /\ <<Shop!Known(cost), price>> \in Shop!Shown /\ <<Shop!Known(cost), price>> # None
<1>1. Shop!Known(cost) \in Nat \union {None}
  BY DEF Shop!Known
<1>2. <<cost, price>> \in Shop!Shown /\ <<Shop!Known(cost), price>> \in Shop!Shown
  BY <1>1 DEF Shop!Shown
<1> QED
  BY <1>2, ShopNone

LEMMA ShowsIs ==
  ASSUME NEW row
  PROVE  /\ Shop!Shows(<<row.cost, row.price>>, row)
         /\ Shop!Shows(<<Shop!Known(row.cost), row.price>>, row)
  BY DEF Shop!Shows

LEMMA ShowsEither ==
  ASSUME NEW entry, NEW a, NEW b, a.cost = b.cost, a.price = b.price, Shop!Shows(entry, a)
  PROVE  Shop!Shows(entry, b)
<1>1. entry = <<a.cost, a.price>> \/ entry = <<Shop!Known(a.cost), a.price>>
  BY DEF Shop!Shows
<1>2. <<a.cost, a.price>> = <<b.cost, b.price>>
  OBVIOUS
<1>3. <<Shop!Known(a.cost), a.price>> = <<Shop!Known(b.cost), b.price>>
  OBVIOUS
<1> QED
  BY <1>1, <1>2, <1>3 DEF Shop!Shows

LEMMA ShopInputs ==
  /\ NewRows \subseteq [cost : Nat, price : Nat]
  /\ Changes \subseteq [cost : Nat \union {None}, price : Nat \union {None},
                       active : BOOLEAN \union {None}]
  /\ Receipts \subseteq [qty : Int, price : Nat, cost : BOOLEAN]
  /\ Counts \subseteq Seq([product : Products \union Foreign, actual : Int]) \ {<<>>}
  BY StockroomAssumption, Zenon DEF Shop!InventoryAssumption

LEMMA ShopIdleIs ==
  ASSUME NEW r, r = Shop!Idle
  PROVE  /\ r \in ShopSession /\ Fit(r)
         /\ r.op = "none" /\ r.held = {} /\ r.new = None /\ r.counts = <<>>
         /\ r.raised = {} /\ r.solved = {} /\ r.locked = FALSE
         /\ \A p \in Products : /\ r.seen[p] = None /\ r.now[p] = None /\ r.shown[p] = None
                                /\ r.moved[p] = 0 /\ r.audited[p] = 0
         /\ \A x \in Suggested : r.sugg[x] = None
<1>1. r \in ShopSession
  BY DEF Shop!Idle, ShopSession
<1>2. /\ r.op = "none" /\ r.held = {} /\ r.new = None /\ r.counts = <<>>
      /\ r.raised = {} /\ r.solved = {} /\ r.locked = FALSE
      /\ \A p \in Products : /\ r.seen[p] = None /\ r.now[p] = None /\ r.shown[p] = None
                             /\ r.moved[p] = 0 /\ r.audited[p] = 0
      /\ \A x \in Suggested : r.sugg[x] = None
  BY DEF Shop!Idle
<1> QED
  BY <1>1, <1>2 DEF Fit

\* A row in which some columns of another replace its own.
LEMMA RowMixed ==
  ASSUME NEW a \in Shop!Row, NEW b, NEW G, NEW r,
         r = [f \in DOMAIN a |-> IF f \in G THEN b[f] ELSE a[f]],
         "sku" \in G => b.sku \in Nat, "stock" \in G => b.stock \in Int,
         "cost" \in G => b.cost \in Nat, "price" \in G => b.price \in Nat,
         "active" \in G => b.active \in BOOLEAN
  PROVE  /\ r \in Shop!Row
         /\ r.sku = IF "sku" \in G THEN b.sku ELSE a.sku
         /\ r.stock = IF "stock" \in G THEN b.stock ELSE a.stock
         /\ r.cost = IF "cost" \in G THEN b.cost ELSE a.cost
         /\ r.price = IF "price" \in G THEN b.price ELSE a.price
<1>1. DOMAIN a = {"sku", "stock", "cost", "price", "active"}
  BY DEF Shop!Row
<1>2. DOMAIN r = {"sku", "stock", "cost", "price", "active"}
  BY <1>1
<1>3. /\ r.sku = IF "sku" \in G THEN b.sku ELSE a.sku
      /\ r.stock = IF "stock" \in G THEN b.stock ELSE a.stock
      /\ r.cost = IF "cost" \in G THEN b.cost ELSE a.cost
      /\ r.price = IF "price" \in G THEN b.price ELSE a.price
      /\ r.active = IF "active" \in G THEN b.active ELSE a.active
  BY <1>1
<1>4. r = [sku |-> r.sku, stock |-> r.stock, cost |-> r.cost, price |-> r.price,
           active |-> r.active]
  BY <1>2
<1>5. a.sku \in Nat /\ a.stock \in Int /\ a.cost \in Nat /\ a.price \in Nat /\ a.active \in BOOLEAN
  BY DEF Shop!Row
<1>6. r.sku \in Nat /\ r.stock \in Int /\ r.cost \in Nat /\ r.price \in Nat
  BY <1>3, <1>5
<1>7. r.active \in BOOLEAN
  BY <1>3, <1>5, Zenon
<1>8. r \in Shop!Row
  BY <1>4, <1>6, <1>7 DEF Shop!Row
<1> QED
  BY <1>3, <1>8

\* A step of one session that commits nothing.
LEMMA ShopOnly ==
  ASSUME ShopInv, NEW s \in Threads, NEW r \in ShopSession, Fit(r),
         Shop!Become(s, r), UNCHANGED Shop!committed, lock' \in BOOLEAN, safe' \in BOOLEAN,
         r.new # None =>
           \A u \in Threads \ {s} : sess[u].new # None => sess[u].new.id # r.new.id,
         Shop!Free(s) \/ sess[s].op # "none" \/ r.op = "none"
  PROVE  ShopInv'
<1>0. /\ product' = product /\ shown' = shown /\ moved' = moved /\ audited' = audited
      /\ alerts' = alerts /\ sugg' = sugg /\ applied' = applied /\ lost' = lost
      /\ commits' = commits
  BY DEF Shop!committed
<1>1. sess' \in [Threads -> ShopSession] /\ \A u \in Threads : sess'[u] = IF u = s THEN r ELSE sess[u]
  BY DEF ShopInv, Shop!Become
<1>2. Shop!TypeOK'
  <2>1. \A u \in Threads : sess'[u].held \subseteq Products
    BY <1>1 DEF ShopSession
  <2> QED
    BY <1>0, <2>1 DEF ShopInv, Shop!TypeOK
<1>3. Recorded' /\ Shop!SkusCount'
  BY <1>0 DEF ShopInv, Recorded, Shop!SkusCount, Shop!Existing
<1>4. ASSUME NEW u \in Threads PROVE Fit(sess[u])'
  <2>1. PICK o : o = sess'[u]
    OBVIOUS
  <2>2. Fit(o)
    BY <1>1, <2>1 DEF ShopInv
  <2>3. Fit(o)'
    BY <1>0, <2>2 DEF Fit, Shop!Existing
  <2> QED
    BY <2>1, <2>3 DEF Fit
<1>5. OwnNew'
  BY <1>1 DEF ShopInv, OwnNew
<1>6. commits' + Shop!Cardinality(Shop!Busy') <= MaxCommits
  <2>1. PICK X, Y : X = Shop!Busy /\ Y = Shop!Busy'
    OBVIOUS
  <2>2. /\ X \subseteq Threads /\ Y \subseteq Threads
        /\ \A u \in Threads : (u \in X <=> sess[u].op # "none") /\ (u \in Y <=> sess'[u].op # "none")
    BY <2>1 DEF Shop!Busy
  <2>3. /\ IsFiniteSet(X) /\ IsFiniteSet(Y)
        /\ Cardinality(X) \in Nat /\ Cardinality(Y) \in Nat /\ MaxCommits \in Nat /\ commits \in Nat
    BY <2>2, ShopFinite, FS_Subset, FS_CardinalityType DEF ShopInv, Shop!TypeOK
  <2>4. commits + Cardinality(X) <= MaxCommits
    BY <2>1, ShopCardinality DEF ShopInv
  <2>5. CASE Shop!Free(s)
    <3>1. commits + Cardinality(X) < MaxCommits
      BY <2>1, <2>5, ShopCardinality DEF Shop!Free
    <3>2. Y \subseteq X \union {s} /\ IsFiniteSet(X \union {s}) /\ Cardinality(X \union {s}) <= Cardinality(X) + 1
      <4>1. Y \subseteq X \union {s}
        BY <1>1, <2>2
      <4>2. /\ IsFiniteSet(X \union {s})
            /\ Cardinality(X \union {s}) = IF s \in X THEN Cardinality(X) ELSE Cardinality(X) + 1
        BY <2>3, FS_AddElement
      <4> QED
        BY <2>3, <4>1, <4>2
    <3>3. Cardinality(Y) <= Cardinality(X \union {s}) /\ Cardinality(X \union {s}) \in Nat
      BY <3>2, FS_Subset, FS_CardinalityType
    <3>4. commits + Cardinality(Y) <= MaxCommits
      BY <2>3, <3>1, <3>2, <3>3
    <3> QED
      BY <1>0, <2>1, <3>4, ShopCardinality
  <2>6. CASE ~Shop!Free(s)
    <3>1. Y \subseteq X
      BY <1>1, <2>2, <2>6
    <3>2. Cardinality(Y) <= Cardinality(X)
      BY <2>3, <3>1, FS_Subset
    <3>3. commits + Cardinality(Y) <= MaxCommits
      BY <2>3, <2>4, <3>2
    <3> QED
      BY <1>0, <2>1, <3>3, ShopCardinality
  <2> QED
    BY <2>5, <2>6
<1> QED
  BY <1>1, <1>2, <1>3, <1>4, <1>5, <1>6 DEF ShopInv

\* A session that has read one product, and is to change it.
HasRead(r, p, row) ==
  /\ r \in ShopSession /\ row \in Shop!Row
  /\ r.op = "none" /\ r.new = None /\ r.raised = {} /\ r.locked = FALSE
  /\ \A q \in Products : /\ r.seen[q] = IF q = p THEN product[p] ELSE None
                         /\ r.now[q] = IF q = p THEN row ELSE None
                         /\ r.shown[q] = None /\ r.moved[q] = 0 /\ r.audited[q] = 0
  /\ \A x \in Suggested : r.sugg[x] = None

LEMMA SetIs ==
  ASSUME ShopInv, NEW p \in Shop!Existing, NEW row \in Shop!Row, NEW r, r = Shop!Set(Shop!Idle, p, row)
  PROVE  HasRead(r, p, row)
<1>1. p \in Products /\ product[p] \in Shop!Row
  BY DEF ShopInv, Shop!TypeOK, Shop!Existing
<1>2. PICK o : o = Shop!Idle
  OBVIOUS
<1>3. /\ o \in ShopSession
      /\ o.op = "none" /\ o.held = {} /\ o.new = None /\ o.counts = <<>>
      /\ o.raised = {} /\ o.solved = {} /\ o.locked = FALSE
      /\ \A q \in Products : /\ o.seen[q] = None /\ o.now[q] = None /\ o.shown[q] = None
                             /\ o.moved[q] = 0 /\ o.audited[q] = 0
      /\ \A x \in Suggested : o.sugg[x] = None
  BY <1>2, ShopIdleIs
<1>4. PICK a : a = [o.seen EXCEPT ![p] = product[p]]
  OBVIOUS
<1>5. PICK b : b = [o.now EXCEPT ![p] = row]
  OBVIOUS
<1>6. /\ a \in [Products -> Shop!Row \union {None}] /\ b \in [Products -> Shop!Row \union {None}]
      /\ \A q \in Products : /\ a[q] = IF q = p THEN product[p] ELSE None
                             /\ b[q] = IF q = p THEN row ELSE None
  BY <1>1, <1>3, <1>4, <1>5 DEF ShopSession
<1>7. r = [o EXCEPT !.seen = a, !.now = b]
  BY <1>1, <1>2, <1>3, <1>4, <1>5 DEF Shop!Set, ShopSession
<1>8. r \in ShopSession
  <2>1. PICK g : g = [o EXCEPT !.seen = a]
    OBVIOUS
  <2>2. o \in ShopSession /\ g \in ShopSession
    BY <1>3, <1>6, <2>1 DEF ShopSession
  <2>3. r = [g EXCEPT !.now = b]
    BY <1>7, <2>1, <2>2 DEF ShopSession
  <2> QED
    BY <1>6, <2>2, <2>3 DEF ShopSession
<1>9. /\ r.op = o.op /\ r.held = o.held /\ r.new = o.new /\ r.counts = o.counts
      /\ r.raised = o.raised /\ r.solved = o.solved /\ r.locked = o.locked
      /\ r.seen = a /\ r.now = b /\ r.shown = o.shown /\ r.moved = o.moved
      /\ r.audited = o.audited /\ r.sugg = o.sugg
  BY <1>3, <1>7 DEF ShopSession
<1>10. \A q \in Products : /\ r.seen[q] = IF q = p THEN product[p] ELSE None
                           /\ r.now[q] = IF q = p THEN row ELSE None
                           /\ r.shown[q] = None /\ r.moved[q] = 0 /\ r.audited[q] = 0
  BY <1>3, <1>6, <1>9
<1>11. \A x \in Suggested : r.sugg[x] = None
  BY <1>3, <1>9
<1>12. /\ r.op = "none" /\ r.held = {} /\ r.new = None /\ r.counts = <<>>
       /\ r.raised = {} /\ r.solved = {} /\ r.locked = FALSE
  BY <1>3, <1>9
<1> QED
  BY <1>8, <1>10, <1>11, <1>12 DEF HasRead

\* What the requests make of a session: nothing of another's to insert, and what it has read
\* is so.
Anew(s, r) ==
  /\ r \in ShopSession /\ Fit(r) /\ Shop!Become(s, r) /\ r.op # "none"
  /\ r.new # None => \A u \in Threads \ {s} : sess[u].new # None => sess[u].new.id # r.new.id

Requested(s) ==
  \E r : Anew(s, r) /\ Reads(r) /\ ~r.locked /\ \A x \in Suggested : ~Inserts(r, x)

\* A session that has read one product and is to write it.
Touches(r, p, row) ==
  /\ r \in ShopSession /\ row \in Shop!Row
  /\ row.sku = product[p].sku /\ row.stock - product[p].stock = r.moved[p]
  /\ r.op \in {"commit", "warn"} /\ r.new = None /\ r.raised = {} /\ r.locked = FALSE
  /\ \A q \in Products : /\ r.seen[q] = IF q = p THEN product[p] ELSE None
                         /\ r.now[q] = IF q = p THEN row ELSE None
                         /\ r.audited[q] = 0
                         /\ q # p => r.moved[q] = 0 /\ r.shown[q] = None
  /\ IF r.shown[p] = None THEN row.cost = product[p].cost /\ row.price = product[p].price
                          ELSE Shop!Shows(r.shown[p], row)
  /\ \A x \in Suggested : r.sugg[x] # None => /\ r.sugg[x].status # "PENDING"
                                             /\ sugg[x] # None /\ sugg[x].status = "PENDING"
                                             /\ r.sugg[x].product = sugg[x].product

LEMMA TouchIs ==
  ASSUME ShopInv, NEW s \in Threads, NEW p \in Shop!Existing, NEW row, NEW r,
         Touches(r, p, row), Shop!Become(s, r)
  PROVE  Requested(s)
<1>1. p \in Products /\ product[p] \in Shop!Row /\ product[p] # None /\ row # None
  BY ShopNone DEF ShopInv, Shop!TypeOK, Shop!Existing, Touches
<1>2. r.moved[p] \in Int /\ r.moved[p] + 0 = r.moved[p]
  BY <1>1 DEF ShopSession, Touches
<1>3. Fit(r)
  <2>1. \A x \in Suggested : r.sugg[x] # None => product[r.sugg[x].product] # None
    BY DEF Touches, ShopInv, Recorded
  <2> QED
    BY <1>1, <1>2, <2>1 DEF Fit, Touches
<1>4. \A x \in Suggested : ~Inserts(r, x)
  BY DEF Touches, Inserts
<1>5. Reads(r)
  <2>1. ASSUME NEW q \in Products
        PROVE  /\ r.now[q] # None => r.seen[q] = product[q]
               /\ r.shown[q] # None =>
                    r.now[q] # None /\ Shop!Shows(r.shown[q], r.now[q])
               /\ r.shown[q] = None => (r.now[q] # None => /\ r.now[q].cost = product[q].cost
                                                           /\ r.now[q].price = product[q].price)
    BY <1>1 DEF Touches
  <2>2. r.new = None /\ r.raised = {}
    BY DEF Touches
  <2>3. \A x \in Suggested :
          r.sugg[x] # None /\ ~Inserts(r, x) => sugg[x] # None /\ sugg[x].status = "PENDING"
    BY DEF Touches
  <2> QED
    BY <2>1, <2>2, <2>3 DEF Reads
<1> QED
  BY <1>3, <1>4, <1>5 DEF Requested, Anew, Touches

LEMMA UpdateIs ==
  ASSUME ShopInv, NEW s \in Threads, NEW p \in Products, NEW change \in Changes,
         Shop!Update(s, p, change)
  PROVE  Requested(s)
<1>1. p \in Shop!Existing /\ product[p] \in Shop!Row
  BY DEF ShopInv, Shop!TypeOK, Shop!Existing, Shop!Update
<1>2. PICK given : given = {f \in DOMAIN change : change[f] # None}
  OBVIOUS
<1>3. PICK row : row = [f \in DOMAIN product[p] |-> IF f \in given THEN change[f] ELSE product[p][f]]
  OBVIOUS
<1>4. change \in [cost : Nat \union {None}, price : Nat \union {None}, active : BOOLEAN \union {None}]
  BY ShopInputs
<1>5. /\ given \subseteq {"cost", "price", "active"}
      /\ "cost" \in given => change.cost \in Nat
      /\ "price" \in given => change.price \in Nat
      /\ "active" \in given => change.active \in BOOLEAN
  BY <1>2, <1>4
<1>6. row \in Shop!Row /\ row.sku = product[p].sku /\ row.stock = product[p].stock
  BY <1>1, <1>3, <1>5, RowMixed
<1>7. PICK t : t = Shop!Set(Shop!Idle, p, row)
  OBVIOUS
<1>8. HasRead(t, p, row)
  BY <1>1, <1>6, <1>7, SetIs
<1>9. row.stock - product[p].stock = 0 /\ row.cost \in Nat /\ row.price \in Nat
  BY <1>1, <1>6 DEF Shop!Row
<1>10. CASE Shop!PriceChanged(product[p], row)
  <2>1. PICK op \in {"commit", "warn"} :
          Shop!Become(s, [t EXCEPT !.shown[p] = <<row.cost, row.price>>, !.op = op])
    BY <1>2, <1>3, <1>7, <1>10 DEF Shop!Update
  <2>2. PICK h : h = [t.shown EXCEPT ![p] = <<row.cost, row.price>>]
    OBVIOUS
  <2>3. /\ h \in [Products -> Shop!Shown \union {None}]
        /\ \A q \in Products : h[q] = IF q = p THEN <<row.cost, row.price>> ELSE None
    BY <1>8, <1>9, <2>2, ShownIs DEF ShopSession, HasRead
  <2>4. PICK r : r = [t EXCEPT !.shown = h, !.op = op]
    OBVIOUS
  <2>5. Shop!Become(s, r)
    BY <2>1, <2>2, <2>4
  <2>6. r \in ShopSession
    BY <1>8, <2>3, <2>4 DEF ShopSession, HasRead
  <2>7. /\ r.op = op /\ r.shown = h /\ r.new = t.new /\ r.raised = t.raised /\ r.locked = t.locked
        /\ r.seen = t.seen /\ r.now = t.now /\ r.moved = t.moved /\ r.audited = t.audited
        /\ r.sugg = t.sugg
    BY <1>8, <2>4 DEF ShopSession, HasRead
  <2>8. <<row.cost, row.price>> # None /\ Shop!Shows(<<row.cost, row.price>>, row)
    BY <1>9, ShownIs, ShowsIs
  <2>9. Touches(r, p, row)
    BY <1>1, <1>6, <1>8, <1>9, <2>3, <2>6, <2>7, <2>8 DEF Touches, HasRead, Shop!Existing
  <2> QED
    BY <1>1, <2>5, <2>9, TouchIs
<1>11. CASE ~Shop!PriceChanged(product[p], row)
  <2>1. PICK r : r = [t EXCEPT !.op = "commit"]
    OBVIOUS
  <2>2. Shop!Become(s, r)
    BY <1>2, <1>3, <1>7, <1>11, <2>1 DEF Shop!Update
  <2>3. r \in ShopSession
    BY <1>8, <2>1 DEF ShopSession, HasRead
  <2>4. /\ r.op = "commit" /\ r.shown = t.shown /\ r.new = t.new /\ r.raised = t.raised
        /\ r.locked = t.locked /\ r.seen = t.seen /\ r.now = t.now /\ r.moved = t.moved
        /\ r.audited = t.audited /\ r.sugg = t.sugg
    BY <1>8, <2>1 DEF ShopSession, HasRead
  <2>5. row.cost = product[p].cost /\ row.price = product[p].price
    BY <1>11 DEF Shop!PriceChanged
  <2>6. Touches(r, p, row)
    BY <1>1, <1>6, <1>8, <1>9, <2>3, <2>4, <2>5 DEF Touches, HasRead, Shop!Existing
  <2> QED
    BY <1>1, <2>2, <2>6, TouchIs
<1> QED
  BY <1>10, <1>11

LEMMA DeactivateIs ==
  ASSUME ShopInv, NEW s \in Threads, NEW p \in Products, Shop!Deactivate(s, p)
  PROVE  Requested(s)
<1>1. p \in Shop!Existing /\ product[p] \in Shop!Row
  BY DEF ShopInv, Shop!TypeOK, Shop!Existing, Shop!Deactivate
<1>2. PICK row : row = [product[p] EXCEPT !.active = FALSE]
  OBVIOUS
<1>3. /\ row \in Shop!Row /\ row.sku = product[p].sku /\ row.stock = product[p].stock
      /\ row.cost = product[p].cost /\ row.price = product[p].price
      /\ row.stock - product[p].stock = 0
  <2>1. PICK a \in Shop!Row : a = product[p]
    BY <1>1
  <2>2. row = [a EXCEPT !.active = FALSE]
    BY <1>2, <2>1
  <2>3. row.sku = a.sku /\ row.cost = a.cost /\ row.price = a.price /\ row.stock = a.stock
    BY <2>2 DEF Shop!Row
  <2>4. row \in Shop!Row
    BY <2>2 DEF Shop!Row
  <2>5. a.stock - a.stock = 0
    BY DEF Shop!Row
  <2> QED
    BY <2>1, <2>3, <2>4, <2>5
<1>4. PICK t : t = Shop!Set(Shop!Idle, p, row)
  OBVIOUS
<1>5. HasRead(t, p, row)
  BY <1>1, <1>3, <1>4, SetIs
<1>6. PICK r : r = [t EXCEPT !.op = "commit"]
  OBVIOUS
<1>7. Shop!Become(s, r)
  BY <1>2, <1>4, <1>6 DEF Shop!Deactivate
<1>8. r \in ShopSession
  BY <1>5, <1>6 DEF ShopSession, HasRead
<1>9. /\ r.op = "commit" /\ r.shown = t.shown /\ r.new = t.new /\ r.raised = t.raised
      /\ r.locked = t.locked /\ r.seen = t.seen /\ r.now = t.now /\ r.moved = t.moved
      /\ r.audited = t.audited /\ r.sugg = t.sugg
  BY <1>5, <1>6 DEF ShopSession, HasRead
<1>10. Touches(r, p, row)
  BY <1>1, <1>3, <1>5, <1>8, <1>9 DEF Touches, HasRead, Shop!Existing
<1> QED
  BY <1>1, <1>7, <1>10, TouchIs

LEMMA SellIs ==
  ASSUME ShopInv, NEW s \in Threads, NEW p \in Products, Shop!Sell(s, p)
  PROVE  Requested(s)
<1>1. p \in Shop!Existing /\ product[p] \in Shop!Row
  BY DEF ShopInv, Shop!TypeOK, Shop!Existing, Shop!Sell
<1>2. PICK row : row = [product[p] EXCEPT !.stock = @ - 1]
  OBVIOUS
<1>3. /\ row \in Shop!Row /\ row.sku = product[p].sku /\ row.stock = product[p].stock - 1
      /\ row.cost = product[p].cost /\ row.price = product[p].price
      /\ row.stock - product[p].stock = -1
  <2>1. PICK a \in Shop!Row : a = product[p]
    BY <1>1
  <2>2. PICK n \in Int : n = a.stock - 1
    BY DEF Shop!Row
  <2>3. row = [a EXCEPT !.stock = n]
    BY <1>2, <2>1, <2>2
  <2>4. row.sku = a.sku /\ row.cost = a.cost /\ row.price = a.price /\ row.stock = n
    BY <2>3 DEF Shop!Row
  <2>5. row \in Shop!Row
    BY <2>2, <2>3 DEF Shop!Row
  <2>6. a.stock \in Int
    BY DEF Shop!Row
  <2>7. n - a.stock = -1
    BY <2>2, <2>6
  <2> QED
    BY <2>1, <2>2, <2>4, <2>5, <2>7
<1>4. PICK t : t = Shop!Set(Shop!Idle, p, row)
  OBVIOUS
<1>5. HasRead(t, p, row)
  BY <1>1, <1>3, <1>4, SetIs
<1>6. PICK m : m = [t.moved EXCEPT ![p] = -1]
  OBVIOUS
<1>7. /\ m \in [Products -> Int]
      /\ \A q \in Products : m[q] = IF q = p THEN -1 ELSE 0
  BY <1>5, <1>6 DEF ShopSession, HasRead
<1>8. PICK r : r = [t EXCEPT !.op = "commit", !.moved = m]
  OBVIOUS
<1>9. Shop!Become(s, r)
  BY <1>2, <1>4, <1>6, <1>8 DEF Shop!Sell
<1>10. r \in ShopSession
  BY <1>5, <1>7, <1>8 DEF ShopSession, HasRead
<1>11. /\ r.op = "commit" /\ r.shown = t.shown /\ r.new = t.new /\ r.raised = t.raised
       /\ r.locked = t.locked /\ r.seen = t.seen /\ r.now = t.now /\ r.moved = m
       /\ r.audited = t.audited /\ r.sugg = t.sugg
  BY <1>5, <1>8 DEF ShopSession, HasRead
<1>12. Touches(r, p, row)
  BY <1>1, <1>3, <1>5, <1>7, <1>10, <1>11 DEF Touches, HasRead, Shop!Existing
<1> QED
  BY <1>1, <1>9, <1>12, TouchIs

LEMMA StockUpdateIs ==
  ASSUME ShopInv, NEW s \in Threads, NEW p \in Products, NEW x \in Receipts,
         Shop!StockUpdate(s, p, x)
  PROVE  Requested(s)
<1>1. p \in Shop!Existing /\ product[p] \in Shop!Row
  BY DEF ShopInv, Shop!TypeOK, Shop!Existing, Shop!StockUpdate
<1>2. PICK cost : cost = IF x.cost THEN x.price ELSE product[p].cost
  OBVIOUS
<1>3. x.qty \in Int /\ cost \in Nat /\ product[p].price \in Nat /\ product[p].cost \in Nat
  <2>1. x.qty \in Int /\ x.price \in Nat
    BY ShopInputs
  <2> QED
    BY <1>1, <1>2, <2>1 DEF Shop!Row
<1>4. PICK row : row = [product[p] EXCEPT !.stock = @ + x.qty, !.cost = cost]
  OBVIOUS
<1>5. /\ row \in Shop!Row /\ row.sku = product[p].sku /\ row.cost = cost
      /\ row.price = product[p].price
      /\ row.stock - product[p].stock = x.qty
  <2>1. PICK a \in Shop!Row : a = product[p]
    BY <1>1
  <2>2. PICK n \in Int : n = a.stock + x.qty
    BY <1>3 DEF Shop!Row
  <2>3. row = [a EXCEPT !.stock = n, !.cost = cost]
    BY <1>4, <2>1, <2>2
  <2>4. row.sku = a.sku /\ row.cost = cost /\ row.price = a.price /\ row.stock = n
    BY <2>3 DEF Shop!Row
  <2>5. row \in Shop!Row
    BY <1>3, <2>2, <2>3 DEF Shop!Row
  <2>6. a.stock \in Int
    BY DEF Shop!Row
  <2>7. n - a.stock = x.qty
    BY <1>3, <2>2, <2>6
  <2> QED
    BY <2>1, <2>4, <2>5, <2>7
<1>6. PICK t : t = Shop!Set(Shop!Idle, p, row)
  OBVIOUS
<1>7. HasRead(t, p, row)
  BY <1>1, <1>5, <1>6, SetIs
<1>8. PICK m : m = [t.moved EXCEPT ![p] = x.qty]
  OBVIOUS
<1>9. /\ m \in [Products -> Int]
      /\ \A q \in Products : m[q] = IF q = p THEN x.qty ELSE 0
  BY <1>3, <1>7, <1>8 DEF ShopSession, HasRead
<1>10. PICK new : new = IF cost # product[p].cost THEN <<cost, product[p].price>> ELSE None
  OBVIOUS
<1>11. new \in Shop!Shown \union {None}
  BY <1>3, <1>10, ShownIs
<1>12. PICK h : h = [t.shown EXCEPT ![p] = new]
  OBVIOUS
<1>13. /\ h \in [Products -> Shop!Shown \union {None}]
       /\ \A q \in Products : h[q] = IF q = p THEN new ELSE None
  BY <1>7, <1>11, <1>12 DEF ShopSession, HasRead
<1>14. PICK r : r = [t EXCEPT !.op = "commit", !.moved = m, !.shown = h]
  OBVIOUS
<1>15. Shop!Become(s, r)
  BY <1>2, <1>4, <1>6, <1>8, <1>10, <1>12, <1>14 DEF Shop!StockUpdate
<1>16. r \in ShopSession
  BY <1>7, <1>9, <1>13, <1>14 DEF ShopSession, HasRead
<1>17. /\ r.op = "commit" /\ r.shown = h /\ r.new = t.new /\ r.raised = t.raised
       /\ r.locked = t.locked /\ r.seen = t.seen /\ r.now = t.now /\ r.moved = m
       /\ r.audited = t.audited /\ r.sugg = t.sugg
  BY <1>7, <1>14 DEF ShopSession, HasRead
<1>18. IF r.shown[p] = None THEN row.cost = product[p].cost /\ row.price = product[p].price
                            ELSE Shop!Shows(r.shown[p], row)
  <2>1. <<cost, product[p].price>> # None /\ Shop!Shows(<<row.cost, row.price>>, row)
    BY <1>3, ShownIs, ShowsIs
  <2>2. r.shown[p] = new
    BY <1>1, <1>13, <1>17 DEF Shop!Existing
  <2> QED
    BY <1>5, <1>10, <2>1, <2>2
<1>19. Touches(r, p, row)
  BY <1>1, <1>5, <1>7, <1>9, <1>13, <1>16, <1>17, <1>18 DEF Touches, HasRead, Shop!Existing
<1> QED
  BY <1>1, <1>15, <1>19, TouchIs

LEMMA ApplyIs ==
  ASSUME ShopInv, NEW s \in Threads, NEW x \in Suggested, Shop!Apply(s, x)
  PROVE  Requested(s)
<1>1. sugg[x] \in Shop!Sugg /\ sugg[x] # None /\ sugg[x].status = "PENDING"
  BY DEF ShopInv, Shop!TypeOK, Shop!Apply, Shop!Actionable
<1>2. PICK p : p = sugg[x].product
  OBVIOUS
<1>3. p \in Products /\ sugg[x].price \in Nat
  BY <1>1, <1>2 DEF Shop!Sugg
<1>4. p \in Shop!Existing /\ product[p] \in Shop!Row
  BY <1>1, <1>2, <1>3 DEF ShopInv, Shop!TypeOK, Shop!Existing, Recorded
<1>5. PICK row : row = [product[p] EXCEPT !.price = sugg[x].price]
  OBVIOUS
<1>6. /\ row \in Shop!Row /\ row.sku = product[p].sku /\ row.stock = product[p].stock
      /\ row.cost = product[p].cost /\ row.price = sugg[x].price
      /\ row.stock - product[p].stock = 0 /\ row.cost \in Nat
  BY <1>3, <1>4, <1>5 DEF Shop!Row
<1>7. PICK t : t = Shop!Set(Shop!Idle, p, row)
  OBVIOUS
<1>8. HasRead(t, p, row)
  BY <1>4, <1>6, <1>7, SetIs
<1>9. PICK new : new = <<Shop!Known(product[p].cost), sugg[x].price>>
  OBVIOUS
<1>10. new \in Shop!Shown /\ new # None /\ Shop!Shows(new, row)
  <2>1. row.cost \in Nat /\ row.price \in Nat
    BY <1>6 DEF Shop!Row
  <2>2. new = <<Shop!Known(row.cost), row.price>>
    BY <1>6, <1>9
  <2> QED
    BY <2>1, <2>2, ShownIs, ShowsIs
<1>11. PICK h : h = [t.shown EXCEPT ![p] = new]
  OBVIOUS
<1>12. /\ h \in [Products -> Shop!Shown \union {None}]
       /\ \A q \in Products : h[q] = IF q = p THEN new ELSE None
  BY <1>8, <1>10, <1>11 DEF ShopSession, HasRead
<1>13. PICK y : y = [sugg[x] EXCEPT !.status = "APPLIED"]
  OBVIOUS
<1>14. y \in Shop!Sugg /\ y.status = "APPLIED" /\ y.product = p
  BY <1>1, <1>2, <1>13 DEF Shop!Sugg
<1>15. PICK g : g = [t.sugg EXCEPT ![x] = y]
  OBVIOUS
<1>16. /\ g \in [Suggested -> Shop!Sugg \union {None}]
       /\ \A z \in Suggested : g[z] = IF z = x THEN y ELSE None
  BY <1>8, <1>14, <1>15 DEF ShopSession, HasRead
<1>17. PICK r : r = [t EXCEPT !.op = "commit", !.shown = h, !.sugg = g]
  OBVIOUS
<1>18. Shop!Become(s, r)
  BY <1>2, <1>5, <1>7, <1>9, <1>11, <1>13, <1>15, <1>17 DEF Shop!Apply
<1>19. r \in ShopSession
  BY <1>8, <1>12, <1>16, <1>17 DEF ShopSession, HasRead
<1>20. /\ r.op = "commit" /\ r.shown = h /\ r.new = t.new /\ r.raised = t.raised
       /\ r.locked = t.locked /\ r.seen = t.seen /\ r.now = t.now /\ r.moved = t.moved
       /\ r.audited = t.audited /\ r.sugg = g
  BY <1>8, <1>17 DEF ShopSession, HasRead
<1>21. Touches(r, p, row)
  <2>1. \A z \in Suggested : r.sugg[z] # None => /\ r.sugg[z].status # "PENDING"
                                                 /\ sugg[z] # None /\ sugg[z].status = "PENDING"
                                                 /\ r.sugg[z].product = sugg[z].product
    BY <1>1, <1>2, <1>14, <1>16, <1>20
  <2> QED
    BY <1>3, <1>4, <1>6, <1>8, <1>10, <1>12, <1>19, <1>20, <2>1 DEF Touches, HasRead
<1> QED
  BY <1>4, <1>18, <1>21, TouchIs

\* A session that changes no product.
Blank(r) ==
  /\ r \in ShopSession /\ r.op \in {"commit", "audit"} /\ r.new = None
  /\ r.op = "audit" => r.counts # <<>>
  /\ \A q \in Products : /\ r.seen[q] = None /\ r.now[q] = None /\ r.shown[q] = None
                         /\ r.moved[q] = 0 /\ r.audited[q] = 0

LEMMA BlankFits ==
  ASSUME NEW r, Blank(r), \A x \in Suggested : r.sugg[x] # None => product[r.sugg[x].product] # None
  PROVE  Fit(r)
  BY DEF Blank, Fit

LEMMA BlankReads ==
  ASSUME NEW r, Blank(r),
         \A p \in Products : /\ <<"MARGIN_WARNING", p>> \notin r.raised
                             /\ <<"LOW_STOCK", p>> \in r.raised => Shop!NeverLow(p),
         \A x \in Suggested :
           r.sugg[x] # None /\ ~Inserts(r, x) => sugg[x] # None /\ sugg[x].status = "PENDING"
  PROVE  Reads(r)
  BY DEF Blank, Reads

LEMMA AuditIs ==
  ASSUME ShopInv, NEW s \in Threads, NEW counts \in Counts, Shop!Audit(s, counts)
  PROVE  Requested(s)
<1>1. PICK o : o = Shop!Idle
  OBVIOUS
<1>2. /\ o \in ShopSession /\ o.new = None /\ o.locked = FALSE /\ o.raised = {}
      /\ \A p \in Products : /\ o.seen[p] = None /\ o.now[p] = None /\ o.shown[p] = None
                             /\ o.moved[p] = 0 /\ o.audited[p] = 0
      /\ \A x \in Suggested : o.sugg[x] = None
  BY <1>1, ShopIdleIs
<1>3. counts # <<>> /\ counts \in Seq([product : Products \union Foreign, actual : Int])
  BY ShopInputs
<1>4. PICK r : r = [o EXCEPT !.op = "audit", !.counts = counts]
  OBVIOUS
<1>5. r \in ShopSession
  BY <1>2, <1>3, <1>4 DEF ShopSession
<1>6. /\ r.op = "audit" /\ r.counts = counts /\ r.new = o.new /\ r.locked = o.locked
      /\ r.raised = o.raised /\ r.seen = o.seen /\ r.now = o.now /\ r.shown = o.shown
      /\ r.moved = o.moved /\ r.audited = o.audited /\ r.sugg = o.sugg
  BY <1>2, <1>4 DEF ShopSession
<1>7. Blank(r)
  BY <1>2, <1>3, <1>5, <1>6 DEF Blank
<1>8. Fit(r) /\ Reads(r)
  BY <1>2, <1>6, <1>7, BlankFits, BlankReads
<1>9. Shop!Become(s, r)
  BY <1>1, <1>4 DEF Shop!Audit
<1> QED
  BY <1>2, <1>5, <1>6, <1>8, <1>9 DEF Requested, Anew, Inserts

LEMMA EvaluateIs ==
  ASSUME ShopInv, NEW s \in Threads, Shop!EvaluateAlerts(s)
  PROVE  Requested(s)
<1>1. PICK o : o = Shop!Idle
  OBVIOUS
<1>2. /\ o \in ShopSession /\ o.new = None /\ o.locked = FALSE
      /\ \A p \in Products : /\ o.seen[p] = None /\ o.now[p] = None /\ o.shown[p] = None
                             /\ o.moved[p] = 0 /\ o.audited[p] = 0
      /\ \A x \in Suggested : o.sugg[x] = None
  BY <1>1, ShopIdleIs
<1>3. PICK low : low = {p \in Shop!Existing : product[p].stock <= Reorder /\ Shop!NeverLow(p)}
  OBVIOUS
<1>4. PICK raised : raised = {<<"LOW_STOCK", p>> : p \in low}
  OBVIOUS
<1>5. raised \subseteq Shop!Types \X Products /\ \A p \in low : Shop!NeverLow(p)
  BY <1>3, <1>4 DEF Shop!Types, Shop!Existing
<1>6. PICK r : r = [o EXCEPT !.op = "commit", !.raised = raised]
  OBVIOUS
<1>7. r \in ShopSession
  BY <1>2, <1>5, <1>6 DEF ShopSession
<1>8. /\ r.op = "commit" /\ r.raised = raised /\ r.new = o.new /\ r.locked = o.locked
      /\ r.seen = o.seen /\ r.now = o.now /\ r.shown = o.shown
      /\ r.moved = o.moved /\ r.audited = o.audited /\ r.sugg = o.sugg
  BY <1>2, <1>6 DEF ShopSession
<1>9. Blank(r)
  BY <1>2, <1>7, <1>8 DEF Blank
<1>10. \A p \in Products : /\ <<"MARGIN_WARNING", p>> \notin r.raised
                           /\ <<"LOW_STOCK", p>> \in r.raised => Shop!NeverLow(p)
  BY <1>4, <1>5, <1>8
<1>11. Fit(r) /\ Reads(r)
  BY <1>2, <1>8, <1>9, <1>10, BlankFits, BlankReads
<1>12. Shop!Become(s, r)
  BY <1>1, <1>3, <1>4, <1>6 DEF Shop!EvaluateAlerts
<1> QED
  BY <1>2, <1>7, <1>8, <1>11, <1>12 DEF Requested, Anew, Inserts

LEMMA DismissAlertIs ==
  ASSUME ShopInv, NEW s \in Threads, NEW type \in Shop!Types, NEW p \in Products,
         Shop!DismissAlert(s, type, p)
  PROVE  Requested(s)
<1>1. PICK o : o = Shop!Idle
  OBVIOUS
<1>2. /\ o \in ShopSession /\ o.new = None /\ o.locked = FALSE /\ o.raised = {}
      /\ \A q \in Products : /\ o.seen[q] = None /\ o.now[q] = None /\ o.shown[q] = None
                             /\ o.moved[q] = 0 /\ o.audited[q] = 0
      /\ \A x \in Suggested : o.sugg[x] = None
  BY <1>1, ShopIdleIs
<1>3. PICK i \in DOMAIN alerts[<<type, p>>] :
        Shop!Become(s, [o EXCEPT !.op = "commit", !.solved = {<<type, p, i>>}])
  BY <1>1 DEF Shop!DismissAlert
<1>4. i \in Nat
  <2>1. alerts[<<type, p>>] \in Seq(BOOLEAN)
    BY DEF ShopInv, Shop!TypeOK
  <2> QED
    BY <2>1
<1>5. PICK solved : solved = {<<type, p, i>>}
  OBVIOUS
<1>6. solved \subseteq Shop!Types \X Products \X Nat
  BY <1>4, <1>5
<1>7. PICK r : r = [o EXCEPT !.op = "commit", !.solved = solved]
  OBVIOUS
<1>8. r \in ShopSession
  BY <1>2, <1>6, <1>7 DEF ShopSession
<1>9. /\ r.op = "commit" /\ r.raised = o.raised /\ r.new = o.new /\ r.locked = o.locked
      /\ r.seen = o.seen /\ r.now = o.now /\ r.shown = o.shown
      /\ r.moved = o.moved /\ r.audited = o.audited /\ r.sugg = o.sugg
  BY <1>2, <1>7 DEF ShopSession
<1>10. Blank(r)
  BY <1>2, <1>8, <1>9 DEF Blank
<1>11. Fit(r) /\ Reads(r)
  BY <1>2, <1>9, <1>10, BlankFits, BlankReads
<1>12. Shop!Become(s, r)
  BY <1>3, <1>5, <1>7
<1> QED
  BY <1>2, <1>8, <1>9, <1>11, <1>12 DEF Requested, Anew, Inserts

LEMMA DismissIs ==
  ASSUME ShopInv, NEW s \in Threads, NEW x \in Suggested, Shop!Dismiss(s, x)
  PROVE  Requested(s)
<1>1. PICK o : o = Shop!Idle
  OBVIOUS
<1>2. /\ o \in ShopSession /\ o.new = None /\ o.locked = FALSE /\ o.raised = {}
      /\ \A q \in Products : /\ o.seen[q] = None /\ o.now[q] = None /\ o.shown[q] = None
                             /\ o.moved[q] = 0 /\ o.audited[q] = 0
      /\ \A z \in Suggested : o.sugg[z] = None
  BY <1>1, ShopIdleIs
<1>3. /\ sugg[x] \in Shop!Sugg /\ sugg[x] # None /\ sugg[x].status = "PENDING"
      /\ product[sugg[x].product] # None
  BY DEF ShopInv, Shop!TypeOK, Recorded, Shop!Dismiss, Shop!Actionable
<1>4. PICK y : y = [sugg[x] EXCEPT !.status = "DISMISSED"]
  OBVIOUS
<1>5. y \in Shop!Sugg /\ y.status = "DISMISSED" /\ y.product = sugg[x].product
  BY <1>3, <1>4 DEF Shop!Sugg
<1>6. PICK g : g = [o.sugg EXCEPT ![x] = y]
  OBVIOUS
<1>7. /\ g \in [Suggested -> Shop!Sugg \union {None}]
      /\ \A z \in Suggested : g[z] = IF z = x THEN y ELSE None
  BY <1>2, <1>5, <1>6 DEF ShopSession
<1>8. PICK r : r = [o EXCEPT !.op = "commit", !.sugg = g]
  OBVIOUS
<1>9. r \in ShopSession
  BY <1>2, <1>7, <1>8 DEF ShopSession
<1>10. /\ r.op = "commit" /\ r.raised = o.raised /\ r.new = o.new /\ r.locked = o.locked
       /\ r.seen = o.seen /\ r.now = o.now /\ r.shown = o.shown
       /\ r.moved = o.moved /\ r.audited = o.audited /\ r.sugg = g
  BY <1>2, <1>8 DEF ShopSession
<1>11. Blank(r)
  BY <1>2, <1>9, <1>10 DEF Blank
<1>12. Fit(r) /\ Reads(r)
  BY <1>2, <1>3, <1>5, <1>7, <1>10, <1>11, BlankFits, BlankReads
<1>13. \A z \in Suggested : ~Inserts(r, z)
  BY <1>5, <1>7, <1>10 DEF Inserts
<1>14. Shop!Become(s, r)
  BY <1>1, <1>4, <1>6, <1>8 DEF Shop!Dismiss
<1> QED
  BY <1>2, <1>9, <1>10, <1>12, <1>13, <1>14 DEF Requested, Anew

LEMMA CreateIs ==
  ASSUME ShopInv, NEW s \in Threads, NEW p \in Products, NEW n \in NewRows, Shop!Create(s, p, n)
  PROVE  Requested(s)
<1>1. PICK o : o = Shop!Idle
  OBVIOUS
<1>2. /\ o \in ShopSession /\ o.locked = FALSE /\ o.raised = {}
      /\ \A q \in Products : /\ o.seen[q] = None /\ o.now[q] = None /\ o.shown[q] = None
                             /\ o.moved[q] = 0 /\ o.audited[q] = 0
      /\ \A z \in Suggested : o.sugg[z] = None
  BY <1>1, ShopIdleIs
<1>3. /\ n.cost \in Nat /\ n.price \in Nat
      /\ <<n.cost, n.price>> \in Shop!Shown /\ <<n.cost, n.price>> # None
  BY ShopInputs, ShownIs
<1>4. PICK k : k = Shop!NextSku
  OBVIOUS
<1>5. k \in Nat /\ k \in 1 .. Shop!Cardinality(Shop!Existing) + 1
  <2>1. PICK X : X = Shop!Existing
    OBVIOUS
  <2>2. X \subseteq Products
    BY <2>1 DEF Shop!Existing
  <2>3. Cardinality(X) \in Nat
    BY <2>2, ShopFinite, FS_Subset, FS_CardinalityType
  <2>4. k = Cardinality(X) + 1 /\ Shop!Cardinality(Shop!Existing) = Cardinality(X)
    BY <1>4, <2>1, ShopCardinality DEF Shop!NextSku
  <2> QED
    BY <2>3, <2>4
<1>6. PICK row : row = [sku |-> k, stock |-> 0, cost |-> n.cost, price |-> n.price, active |-> TRUE]
  OBVIOUS
<1>7. PICK new : new = [id |-> p, row |-> row]
  OBVIOUS
<1>8. /\ row \in Shop!Row /\ new \in [id : Products, row : Shop!Row] /\ new # None
      /\ new.id = p /\ new.row = row /\ row.sku = k /\ row.stock = 0
      /\ row.cost = n.cost /\ row.price = n.price
  <2>1. /\ row.sku = k /\ row.stock = 0 /\ row.cost = n.cost /\ row.price = n.price
        /\ row \in Shop!Row
    BY <1>3, <1>5, <1>6 DEF Shop!Row
  <2>2. new \in [id : Products, row : Shop!Row] /\ new.id = p /\ new.row = row
    BY <1>7, <2>1
  <2> QED
    BY <2>1, <2>2, ShopNone
<1>9. PICK h : h = [o.shown EXCEPT ![p] = <<n.cost, n.price>>]
  OBVIOUS
<1>10. /\ h \in [Products -> Shop!Shown \union {None}]
       /\ \A q \in Products : h[q] = IF q = p THEN <<n.cost, n.price>> ELSE None
  BY <1>2, <1>3, <1>9 DEF ShopSession
<1>11. PICK r : r = [o EXCEPT !.op = "commit", !.shown = h, !.new = new]
  OBVIOUS
<1>12. r \in ShopSession
  BY <1>2, <1>8, <1>10, <1>11 DEF ShopSession
<1>13. /\ r.op = "commit" /\ r.raised = o.raised /\ r.new = new /\ r.locked = o.locked
       /\ r.seen = o.seen /\ r.now = o.now /\ r.shown = h
       /\ r.moved = o.moved /\ r.audited = o.audited /\ r.sugg = o.sugg
  BY <1>2, <1>11 DEF ShopSession
<1>14. Shop!Become(s, r)
  BY <1>1, <1>4, <1>6, <1>7, <1>9, <1>11 DEF Shop!Create
<1>15. /\ product[p] = None
       /\ \A u \in Threads : sess[u].new # None => sess[u].new.id # p
  BY DEF Shop!Create, Shop!Existing
<1>16. Fit(r)
  BY <1>2, <1>5, <1>8, <1>13, <1>15 DEF Fit
<1>17. Reads(r)
  <2>1. r.new.id = p /\ Shop!Shows(r.shown[p], r.new.row)
    <3>1. Shop!Shows(<<row.cost, row.price>>, row)
      BY ShowsIs
    <3>2. <<row.cost, row.price>> = <<n.cost, n.price>>
      BY <1>8
    <3>3. r.new.id = p /\ r.new.row = row
      BY <1>8, <1>13
    <3>4. r.shown[p] = <<n.cost, n.price>>
      BY <1>3, <1>10, <1>13
    <3> QED
      BY <3>1, <3>2, <3>3, <3>4
  <2> QED
    BY <1>2, <1>3, <1>8, <1>10, <1>13, <2>1 DEF Reads
<1>18. \A x \in Suggested : ~Inserts(r, x)
  BY <1>2, <1>13 DEF Inserts
<1> QED
  BY <1>2, <1>8, <1>12, <1>13, <1>14, <1>15, <1>16, <1>17, <1>18 DEF Requested, Anew

LEMMA RequestIs ==
  ASSUME ShopInv, NEW s \in Threads, Shop!Request(s)
  PROVE  Requested(s) /\ Shop!Free(s)
<1>1. Requested(s)
  BY CreateIs, UpdateIs, StockUpdateIs, DeactivateIs, SellIs, DismissAlertIs, AuditIs, ApplyIs,
     DismissIs, EvaluateIs DEF Shop!Request
<1>2. Shop!Free(s)
  BY DEF Shop!Request, Shop!Create, Shop!Update, Shop!StockUpdate, Shop!Deactivate, Shop!Sell,
         Shop!DismissAlert, Shop!Audit, Shop!Apply, Shop!Dismiss, Shop!EvaluateAlerts
<1> QED
  BY <1>1, <1>2

\* What a session at work becomes: what it had to insert, and what it has read, it keeps.
Continued(s) ==
  \E r : /\ Anew(s, r) /\ (Reads(sess[s]) => Reads(r))
         /\ r.locked = sess[s].locked /\ r.sugg = sess[s].sugg

LEMMA ShopSessionIs ==
  ASSUME ShopInv, NEW s \in Threads
  PROVE  sess[s] \in ShopSession /\ Fit(sess[s])
  BY DEF ShopInv

LEMMA FlushedIs ==
  ASSUME NEW o \in ShopSession, NEW r, r = Shop!Flushed(o)
  PROVE  /\ r \in ShopSession
         /\ r.op = o.op /\ r.new = o.new /\ r.seen = o.seen /\ r.now = o.now
         /\ r.counts = o.counts /\ r.shown = o.shown /\ r.moved = o.moved
         /\ r.audited = o.audited /\ r.raised = o.raised /\ r.solved = o.solved
         /\ r.locked = o.locked /\ r.sugg = o.sugg
<1>1. PICK held : held = o.held \union Shop!Dirty(o)
  OBVIOUS
<1>2. held \subseteq Products
  BY <1>1 DEF ShopSession, Shop!Dirty
<1>3. r = [o EXCEPT !.held = held]
  BY <1>1 DEF Shop!Flushed
<1>4. r \in ShopSession
  BY <1>2, <1>3 DEF ShopSession
<1> QED
  BY <1>3, <1>4 DEF ShopSession

LEMMA WarnIs ==
  ASSUME ShopInv, NEW s \in Threads, Shop!Warn(s)
  PROVE  Continued(s)
<1>1. PICK o : o = sess[s]
  OBVIOUS
<1>2. o \in ShopSession /\ Fit(o) /\ o.op = "warn"
  BY <1>1, ShopSessionIs DEF Shop!Warn, Shop!Ready
<1>3. PICK t : t = Shop!Flushed(o)
  OBVIOUS
<1>4. /\ t \in ShopSession
      /\ t.new = o.new /\ t.seen = o.seen /\ t.now = o.now
      /\ t.counts = o.counts /\ t.shown = o.shown /\ t.moved = o.moved
      /\ t.audited = o.audited /\ t.solved = o.solved
      /\ t.locked = o.locked /\ t.sugg = o.sugg
  BY <1>2, <1>3, FlushedIs
<1>5. PICK p : p = CHOOSE q \in Products : o.now[q] # None
  OBVIOUS
<1>6. p \in Products
  BY <1>2, <1>5 DEF Fit
<1>7. PICK raised : raised = IF Shop!Open("MARGIN_WARNING", p) THEN {} ELSE {<<"MARGIN_WARNING", p>>}
  OBVIOUS
<1>8. /\ raised \subseteq Shop!Types \X Products
      /\ \A q \in Products : /\ <<"LOW_STOCK", q>> \notin raised
                             /\ <<"MARGIN_WARNING", q>> \in raised => ~Shop!Open("MARGIN_WARNING", q)
  BY <1>6, <1>7 DEF Shop!Types
<1>9. PICK r : r = [t EXCEPT !.op = "commit", !.raised = raised]
  OBVIOUS
<1>10. r \in ShopSession
  BY <1>4, <1>8, <1>9 DEF ShopSession
<1>11. /\ r.op = "commit" /\ r.raised = raised
       /\ r.new = o.new /\ r.seen = o.seen /\ r.now = o.now /\ r.shown = o.shown
       /\ r.moved = o.moved /\ r.audited = o.audited /\ r.locked = o.locked /\ r.sugg = o.sugg
  BY <1>4, <1>9 DEF ShopSession
<1>12. Shop!Become(s, r)
  BY <1>1, <1>3, <1>5, <1>7, <1>9 DEF Shop!Warn, Shop!Ready
<1>13. Fit(r)
  BY <1>2, <1>11 DEF Fit
<1>14. Reads(o) => Reads(r)
  BY <1>8, <1>11 DEF Reads, Inserts
<1>15. r.new # None => \A u \in Threads \ {s} : sess[u].new # None => sess[u].new.id # r.new.id
  BY <1>1, <1>11 DEF ShopInv, OwnNew
<1> QED
  BY <1>1, <1>10, <1>11, <1>12, <1>13, <1>14, <1>15 DEF Continued, Anew

LEMMA HeadAndTail ==
  ASSUME NEW T, NEW list \in Seq(T), list # <<>>
  PROVE  /\ Head(list) \in T /\ Tail(list) \in Seq(T)
         /\ Len(list) \in Nat /\ Len(Tail(list)) = Len(list) - 1
  OBVIOUS

LEMMA ItemIs ==
  ASSUME ShopInv, NEW s \in Threads, Shop!AuditItem(s)
  PROVE  Continued(s) \/ Shop!Become(s, Shop!Idle)
<1>1. PICK o : o = sess[s]
  OBVIOUS
<1>2. o \in ShopSession /\ Fit(o) /\ o.op = "audit" /\ o.counts # <<>>
  BY <1>1, ShopSessionIs DEF Shop!AuditItem, Shop!Ready, Fit
<1>3. PICK f : f = Shop!Flushed(o)
  OBVIOUS
<1>4. /\ f \in ShopSession
      /\ f.new = o.new /\ f.seen = o.seen /\ f.now = o.now
      /\ f.counts = o.counts /\ f.shown = o.shown /\ f.moved = o.moved
      /\ f.audited = o.audited /\ f.raised = o.raised
      /\ f.locked = o.locked /\ f.sugg = o.sugg
  BY <1>2, <1>3, FlushedIs
<1>5. PICK c, rest : c = Head(o.counts) /\ rest = Tail(o.counts)
  OBVIOUS
<1>6. /\ c \in [product : Products \union Foreign, actual : Int]
      /\ rest \in Seq([product : Products \union Foreign, actual : Int])
      /\ Len(o.counts) # 1 => rest # <<>>
  <2>1. PICK cs \in Seq([product : Products \union Foreign, actual : Int]) : cs = o.counts
    BY <1>2 DEF ShopSession
  <2>2. cs # <<>> /\ c = Head(cs) /\ rest = Tail(cs)
    BY <1>2, <1>5, <2>1
  <2>3. c \in [product : Products \union Foreign, actual : Int]
    BY <2>2, HeadAndTail
  <2>4. /\ rest \in Seq([product : Products \union Foreign, actual : Int])
        /\ Len(cs) \in Nat /\ Len(rest) = Len(cs) - 1
    BY <2>2, HeadAndTail
  <2>5. Len(cs) # 1 => Len(rest) # 0
    BY <2>1, <2>4
  <2> QED
    BY <2>1, <2>3, <2>4, <2>5
<1>7. PICK op : op = IF Len(o.counts) = 1 THEN "commit" ELSE "audit"
  OBVIOUS
<1>8. PICK t : t = [f EXCEPT !.counts = rest, !.op = op]
  OBVIOUS
<1>9. t \in ShopSession
  BY <1>4, <1>6, <1>7, <1>8 DEF ShopSession
<1>10. /\ t.op = op /\ t.counts = rest /\ t.new = o.new /\ t.seen = o.seen /\ t.now = o.now
       /\ t.shown = o.shown /\ t.moved = o.moved /\ t.audited = o.audited /\ t.raised = o.raised
       /\ t.locked = o.locked /\ t.sugg = o.sugg
  BY <1>4, <1>8 DEF ShopSession
<1>11. PICK p : p = c.product
  OBVIOUS
<1>12. CASE p \notin Shop!Existing
  BY <1>1, <1>5, <1>11, <1>12 DEF Shop!AuditItem, Shop!Ready
<1>13. CASE p \in Shop!Existing
  <2>1. PICK a : a = Shop!Get(t, p)
    OBVIOUS
  <2>2. PICK row : row = [a EXCEPT !.stock = c.actual]
    OBVIOUS
  <2>3. PICK d : d = Shop!Discrepancy(t, p, c.actual)
    OBVIOUS
  <2>4. Shop!Become(s, [Shop!Set(t, p, row) EXCEPT !.audited[p] = @ + d])
    <3>1. t = [Shop!Flushed(sess[s]) EXCEPT !.counts = Tail(@),
                  !.op = IF Len(sess[s].counts) = 1 THEN "commit" ELSE "audit"]
      BY <1>1, <1>3, <1>4, <1>5, <1>7, <1>8
    <3>2. p = Head(sess[s].counts).product /\ c = Head(sess[s].counts)
      BY <1>1, <1>5, <1>11
    <3>3. Head(sess[s].counts).product \in Shop!Existing
      BY <1>13, <3>2
    <3> QED
      BY <2>1, <2>2, <2>3, <3>1, <3>2, <3>3 DEF Shop!AuditItem, Shop!Ready
  <2>5. p \in Products /\ product[p] \in Shop!Row /\ product[p] # None
    BY <1>13 DEF ShopInv, Shop!TypeOK, Shop!Existing
  <2>6. a = IF o.now[p] # None THEN o.now[p] ELSE product[p]
    BY <1>10, <2>1 DEF Shop!Get
  <2>7. a \in Shop!Row
    BY <1>2, <2>5, <2>6 DEF ShopSession
  <2>8. /\ row \in Shop!Row /\ row.sku = a.sku /\ row.stock = c.actual
        /\ row.cost = a.cost /\ row.price = a.price /\ row # None
    <3>1. row \in Shop!Row
      BY <1>6, <2>2, <2>7 DEF Shop!Row
    <3>2. row.sku = a.sku /\ row.stock = c.actual /\ row.cost = a.cost /\ row.price = a.price
      BY <2>2, <2>7 DEF Shop!Row
    <3> QED
      BY <3>1, <3>2, ShopNone
  <2>9. d = c.actual - a.stock /\ d \in Int /\ a.stock \in Int /\ c.actual \in Int
    <3>1. a.stock \in Int /\ c.actual \in Int
      BY <1>6, <2>7 DEF Shop!Row
    <3> QED
      BY <2>1, <2>3, <3>1 DEF Shop!Discrepancy
  <2>10. PICK seen : seen = [t.seen EXCEPT ![p] = IF t.seen[p] = None THEN product[p] ELSE t.seen[p]]
    OBVIOUS
  <2>11. PICK now : now = [t.now EXCEPT ![p] = row]
    OBVIOUS
  <2>12. PICK sums : sums = [t.audited EXCEPT ![p] = t.audited[p] + d]
    OBVIOUS
  <2>13. /\ seen \in [Products -> Shop!Row \union {None}] /\ now \in [Products -> Shop!Row \union {None}]
         /\ \A q \in Products :
              /\ seen[q] = IF q = p /\ o.seen[p] = None THEN product[p] ELSE o.seen[q]
              /\ now[q] = IF q = p THEN row ELSE o.now[q]
    BY <1>9, <1>10, <2>5, <2>8, <2>10, <2>11 DEF ShopSession
  <2>14. /\ sums \in [Products -> Int] /\ o.audited \in [Products -> Int] /\ o.moved \in [Products -> Int]
         /\ \A q \in Products : sums[q] = IF q = p THEN o.audited[p] + d ELSE o.audited[q]
    BY <1>2, <1>10, <2>5, <2>9, <2>12 DEF ShopSession
  <2>15. PICK e : e = Shop!Set(t, p, row)
    OBVIOUS
  <2>16. e = [t EXCEPT !.seen = seen, !.now = now]
    BY <1>9, <2>5, <2>10, <2>11, <2>15 DEF Shop!Set, ShopSession
  <2>17. e \in ShopSession /\ e.audited = t.audited
    BY <1>9, <2>13, <2>16 DEF ShopSession
  <2>18. PICK r : r = [e EXCEPT !.audited = sums]
    OBVIOUS
  <2>19. Shop!Become(s, r)
    BY <2>4, <2>12, <2>15, <2>17, <2>18
  <2>20. r \in ShopSession
    BY <2>14, <2>17, <2>18 DEF ShopSession
  <2>21. /\ r.op = op /\ r.counts = rest /\ r.new = o.new /\ r.seen = seen /\ r.now = now
         /\ r.shown = o.shown /\ r.moved = o.moved /\ r.audited = sums /\ r.raised = o.raised
         /\ r.locked = o.locked /\ r.sugg = o.sugg
    <3>1. /\ e.op = op /\ e.counts = rest /\ e.new = o.new /\ e.seen = seen /\ e.now = now
          /\ e.shown = o.shown /\ e.moved = o.moved /\ e.raised = o.raised
          /\ e.locked = o.locked /\ e.sugg = o.sugg
      BY <1>9, <1>10, <2>16 DEF ShopSession
    <3> QED
      BY <2>17, <2>18, <3>1 DEF ShopSession
  <2>22. ASSUME NEW q \in Products
         PROVE  /\ r.seen[q] = None <=> r.now[q] = None
                /\ r.now[q] = None => r.moved[q] = 0 /\ r.audited[q] = 0
                /\ r.now[q] # None => /\ product[q] # None
                                      /\ r.now[q].sku = r.seen[q].sku
                                      /\ r.now[q].stock - r.seen[q].stock = r.moved[q] + r.audited[q]
    <3>1. CASE q # p
      <4>1. r.seen[q] = o.seen[q] /\ r.now[q] = o.now[q]
        BY <2>13, <2>21, <3>1
      <4>2. r.moved[q] = o.moved[q] /\ r.audited[q] = o.audited[q]
        BY <2>14, <2>21, <3>1
      <4>3. Fit(o)
        BY <1>2
      <4> QED
        BY <4>1, <4>2, <4>3 DEF Fit
    <3>2. CASE q = p /\ o.now[p] = None
      <4>1. /\ r.seen[p] = product[p] /\ r.now[p] = row /\ r.moved[p] = 0 /\ r.audited[p] = 0 + d
            /\ a = product[p]
        BY <1>2, <2>5, <2>6, <2>13, <2>14, <2>21, <3>2 DEF Fit
      <4>2. row.stock - product[p].stock = r.moved[p] + r.audited[p]
        BY <2>8, <2>9, <4>1
      <4> QED
        BY <2>5, <2>8, <3>2, <4>1, <4>2
    <3>3. CASE q = p /\ o.now[p] # None
      <4>1. /\ r.seen[p] = o.seen[p] /\ r.now[p] = row /\ r.moved[p] = o.moved[p]
            /\ r.audited[p] = o.audited[p] + d /\ a = o.now[p] /\ o.seen[p] # None
            /\ o.seen[p] \in Shop!Row /\ a.sku = o.seen[p].sku
            /\ a.stock - o.seen[p].stock = o.moved[p] + o.audited[p]
        BY <1>2, <2>5, <2>6, <2>13, <2>14, <2>21, <3>3 DEF Fit, ShopSession
      <4>2. o.seen[p].stock \in Int /\ o.moved[p] \in Int /\ o.audited[p] \in Int
        BY <2>5, <2>14, <4>1 DEF Shop!Row
      <4>3. row.stock - o.seen[p].stock = r.moved[p] + r.audited[p]
        <5>1. PICK k, n, m, b \in Int : /\ k = a.stock /\ n = o.seen[p].stock
                                        /\ m = o.moved[p] /\ b = o.audited[p]
          BY <2>9, <4>2
        <5>2. k - n = m + b
          BY <4>1, <5>1
        <5>3. d = c.actual - k
          BY <2>9, <5>1
        <5>4. c.actual - n = m + (b + d)
          BY <2>9, <5>2, <5>3
        <5> QED
          BY <2>8, <4>1, <5>1, <5>4
      <4> QED
        BY <2>5, <2>8, <3>3, <4>1, <4>3
    <3> QED
      BY <3>1, <3>2, <3>3
  <2>23. Fit(r)
    <3>1. r.op # "warn" /\ (r.op = "audit" => r.counts # <<>>)
      BY <1>6, <1>7, <2>21
    <3>2. r.new # None => /\ product[r.new.id] = None
                          /\ r.new.row.stock = 0
                          /\ r.new.row.sku \in 1 .. Shop!Cardinality(Shop!Existing) + 1
      BY <1>2, <2>21 DEF Fit
    <3>3. \A x \in Suggested : r.sugg[x] # None => product[r.sugg[x].product] # None
      BY <1>2, <2>21 DEF Fit
    <3> QED
      BY <2>22, <3>1, <3>2, <3>3 DEF Fit
  <2>24. ASSUME Reads(o), NEW q \in Products
         PROVE  /\ r.now[q] # None => r.seen[q] = product[q]
                /\ r.shown[q] # None =>
                     \/ r.new # None /\ r.new.id = q /\ Shop!Shows(r.shown[q], r.new.row)
                     \/ r.now[q] # None /\ Shop!Shows(r.shown[q], r.now[q])
                /\ r.shown[q] = None =>
                     /\ r.new # None => r.new.id # q
                     /\ r.now[q] # None => r.now[q].cost = product[q].cost /\ r.now[q].price = product[q].price
                /\ <<"MARGIN_WARNING", q>> \in r.raised => ~Shop!Open("MARGIN_WARNING", q)
                /\ <<"LOW_STOCK", q>> \in r.raised => Shop!NeverLow(q)
    <3>1. CASE q # p
      BY <2>13, <2>21, <2>24, <3>1 DEF Reads
    <3>2. CASE q = p
      <4>1. /\ r.now[p] = row /\ (o.now[p] # None => o.seen[p] = product[p])
            /\ r.seen[p] = IF o.seen[p] = None THEN product[p] ELSE o.seen[p]
        BY <2>5, <2>13, <2>21, <2>24 DEF Reads
      <4>2. r.seen[p] = product[p]
        BY <1>2, <2>5, <4>1 DEF Fit
      <4>3. r.shown[p] # None =>
              \/ r.new # None /\ r.new.id = p /\ Shop!Shows(r.shown[p], r.new.row)
              \/ Shop!Shows(r.shown[p], row)
        <5>1. r.shown = o.shown /\ r.new = o.new
          BY <2>21
        <5>2. o.shown[p] # None =>
                \/ o.new # None /\ o.new.id = p /\ Shop!Shows(o.shown[p], o.new.row)
                \/ o.now[p] # None /\ Shop!Shows(o.shown[p], o.now[p])
          BY <2>5, <2>24 DEF Reads
        <5>3. o.now[p] # None => a = o.now[p]
          BY <2>6
        <5>4. row.cost = a.cost /\ row.price = a.price
          BY <2>8
        <5> QED
          BY <5>1, <5>2, <5>3, <5>4, ShowsEither
      <4>4. r.shown[p] = None =>
              /\ r.new # None => r.new.id # p
              /\ row.cost = product[p].cost /\ row.price = product[p].price
        <5>1. r.shown = o.shown /\ r.new = o.new
          BY <2>21
        <5>2. o.shown[p] = None =>
                /\ o.new # None => o.new.id # p
                /\ o.now[p] # None => o.now[p].cost = product[p].cost /\ o.now[p].price = product[p].price
          BY <2>5, <2>24 DEF Reads
        <5>3. o.shown[p] = None => a.cost = product[p].cost /\ a.price = product[p].price
          BY <2>6, <5>2
        <5> QED
          BY <2>8, <5>1, <5>2, <5>3
      <4>5. /\ <<"MARGIN_WARNING", p>> \in r.raised => ~Shop!Open("MARGIN_WARNING", p)
            /\ <<"LOW_STOCK", p>> \in r.raised => Shop!NeverLow(p)
        BY <2>5, <2>21, <2>24 DEF Reads
      <4> QED
        BY <2>8, <3>2, <4>1, <4>2, <4>3, <4>4, <4>5
    <3> QED
      BY <3>1, <3>2
  <2>25. Reads(o) => Reads(r)
    <3> SUFFICES ASSUME Reads(o) PROVE Reads(r)
      OBVIOUS
    <3>1. \A x \in Suggested :
            r.sugg[x] # None /\ ~Inserts(r, x) => sugg[x] # None /\ sugg[x].status = "PENDING"
      BY <2>21 DEF Reads, Inserts
    <3> QED
      BY <2>24, <3>1 DEF Reads
  <2>26. r.new # None => \A u \in Threads \ {s} : sess[u].new # None => sess[u].new.id # r.new.id
    BY <1>1, <2>21 DEF ShopInv, OwnNew
  <2>27. r.op # "none"
    BY <1>7, <2>21
  <2> QED
    BY <1>1, <2>19, <2>20, <2>21, <2>23, <2>25, <2>26, <2>27 DEF Continued, Anew
<1> QED
  BY <1>12, <1>13

\* What a pricing run makes of a session: suggestions that nobody has, for products that are due.
Proposed(s, locked) ==
  \E r : /\ Anew(s, r) /\ Reads(r) /\ r.locked = locked /\ Due(r)
         /\ \A x \in Suggested :
              r.sugg[x] # None => /\ Inserts(r, x) /\ sugg[x] = None
                                  /\ \A u \in Threads : sess[u].sugg[x] = None

LEMMA RecommendedIs ==
  ASSUME NEW cost \in Nat, NEW price \in Nat
  PROVE  Shop!Recommended(cost, price) \in Nat
<1>1. (13 * cost) \div 10 \in Nat /\ (9 * price) \div 10 \in Nat
  OBVIOUS
<1> QED
  BY <1>1 DEF Shop!Recommended

LEMMA SuggestIs ==
  ASSUME ShopInv, NEW s \in Threads, NEW locked \in BOOLEAN, Shop!Suggest(s, locked)
  PROVE  Proposed(s, locked)
<1>1. PICK o : o = Shop!Idle
  OBVIOUS
<1>2. /\ o \in ShopSession /\ o.new = None /\ o.raised = {}
      /\ \A p \in Products : /\ o.seen[p] = None /\ o.now[p] = None /\ o.shown[p] = None
                             /\ o.moved[p] = 0 /\ o.audited[p] = 0
  BY <1>1, ShopIdleIs
<1>3. PICK due : due = {p \in Shop!Existing : Shop!RecentlyPending(p) = {}}
  OBVIOUS
<1>4. PICK f \in Shop!Drawn(due) :
        Shop!Become(s, [o EXCEPT !.op = "commit", !.locked = locked,
          !.sugg = [x \in Suggested |->
             IF \A p \in DOMAIN f : f[p] # x THEN None
             ELSE LET p == CHOOSE p \in DOMAIN f : f[p] = x
                  IN  [product |-> p, recent |-> TRUE, status |-> "PENDING",
                       price |-> Shop!Recommended(product[p].cost, product[p].price)]]])
  BY <1>1, <1>3 DEF Shop!Suggest
<1>5. /\ DOMAIN f = due
      /\ \A p \in due : f[p] \in Suggested /\ sugg[f[p]] = None
                        /\ \A u \in Threads : sess[u].sugg[f[p]] = None
      /\ \A p, q \in due : f[p] = f[q] => p = q
  BY <1>4 DEF Shop!Drawn
<1>6. PICK g : g = [x \in Suggested |->
             IF \A p \in DOMAIN f : f[p] # x THEN None
             ELSE LET p == CHOOSE p \in DOMAIN f : f[p] = x
                  IN  [product |-> p, recent |-> TRUE, status |-> "PENDING",
                       price |-> Shop!Recommended(product[p].cost, product[p].price)]]
  OBVIOUS
<1>7. ASSUME NEW x \in Suggested, g[x] # None
      PROVE  \E p \in due : /\ f[p] = x
                            /\ g[x] = [product |-> p, recent |-> TRUE, status |-> "PENDING",
                                 price |-> Shop!Recommended(product[p].cost, product[p].price)]
  <2>1. \E p \in DOMAIN f : f[p] = x
    BY <1>6, <1>7
  <2>2. PICK p : p = CHOOSE q \in DOMAIN f : f[q] = x
    OBVIOUS
  <2>3. p \in DOMAIN f /\ f[p] = x
    BY <2>1, <2>2
  <2>4. g[x] = [product |-> p, recent |-> TRUE, status |-> "PENDING",
                price |-> Shop!Recommended(product[p].cost, product[p].price)]
    BY <1>6, <2>1, <2>2
  <2> QED
    BY <1>5, <2>3, <2>4
<1>8. ASSUME NEW x \in Suggested, g[x] # None
      PROVE  \E p \in due : /\ f[p] = x /\ g[x] \in Shop!Sugg
                            /\ g[x].product = p /\ g[x].status = "PENDING"
  <2>1. PICK p \in due : /\ f[p] = x
                         /\ g[x] = [product |-> p, recent |-> TRUE, status |-> "PENDING",
                               price |-> Shop!Recommended(product[p].cost, product[p].price)]
    BY <1>7, <1>8
  <2>2. p \in Products /\ product[p] \in Shop!Row
    BY <1>3 DEF ShopInv, Shop!TypeOK, Shop!Existing
  <2>3. product[p].cost \in Nat /\ product[p].price \in Nat
    BY <2>2 DEF Shop!Row
  <2>4. PICK n \in Nat : n = Shop!Recommended(product[p].cost, product[p].price)
    BY <2>3, RecommendedIs
  <2> QED
    BY <2>1, <2>2, <2>4 DEF Shop!Sugg
<1>9. g \in [Suggested -> Shop!Sugg \union {None}]
  <2>1. \A x \in Suggested : g[x] \in Shop!Sugg \union {None}
    BY <1>8
  <2>2. g = [x \in Suggested |-> g[x]]
    BY <1>6
  <2> QED
    BY <2>1, <2>2
<1>10. PICK r : r = [o EXCEPT !.op = "commit", !.locked = locked, !.sugg = g]
  OBVIOUS
<1>11. r \in ShopSession
  BY <1>2, <1>9, <1>10 DEF ShopSession
<1>12. /\ r.op = "commit" /\ r.locked = locked /\ r.sugg = g /\ r.raised = o.raised
       /\ r.new = o.new /\ r.seen = o.seen /\ r.now = o.now /\ r.shown = o.shown
       /\ r.moved = o.moved /\ r.audited = o.audited
  BY <1>2, <1>10 DEF ShopSession
<1>13. Shop!Become(s, r)
  BY <1>4, <1>6, <1>10
<1>14. Blank(r)
  BY <1>2, <1>11, <1>12 DEF Blank
<1>15. ASSUME NEW x \in Suggested, r.sugg[x] # None
       PROVE  /\ Inserts(r, x) /\ sugg[x] = None
              /\ \A u \in Threads : sess[u].sugg[x] = None
              /\ r.sugg[x].product \in due /\ f[r.sugg[x].product] = x
  <2>1. PICK p \in due : f[p] = x /\ g[x].product = p /\ g[x].status = "PENDING"
    BY <1>8, <1>12, <1>15
  <2> QED
    BY <1>5, <1>12, <1>15, <2>1 DEF Inserts
<1>16. Fit(r)
  <2>1. \A x \in Suggested : r.sugg[x] # None => product[r.sugg[x].product] # None
    BY <1>3, <1>15 DEF Shop!Existing
  <2> QED
    BY <1>14, <2>1, BlankFits
<1>17. Reads(r)
  <2>1. \A x \in Suggested : ~(r.sugg[x] # None /\ ~Inserts(r, x))
    BY <1>15
  <2>2. r.raised = {}
    BY <1>2, <1>12
  <2> QED
    BY <1>14, <2>1, <2>2, BlankReads
<1>18. Due(r)
  <2>1. ASSUME NEW x \in Suggested, Inserts(r, x)
        PROVE  /\ Shop!RecentlyPending(r.sugg[x].product) = {}
               /\ \A y \in Suggested :
                    Inserts(r, y) /\ r.sugg[y].product = r.sugg[x].product => x = y
    BY <1>3, <1>15, <2>1 DEF Inserts
  <2> QED
    BY <2>1 DEF Due
<1>19. Anew(s, r)
  BY <1>2, <1>11, <1>12, <1>13, <1>16 DEF Anew
<1> QED
  BY <1>12, <1>15, <1>17, <1>18, <1>19 DEF Proposed

LEMMA AnewInv ==
  ASSUME ShopInv, NEW s \in Threads, NEW r, Anew(s, r), UNCHANGED Shop!committed,
         lock' \in BOOLEAN, safe' \in BOOLEAN, Shop!Free(s) \/ sess[s].op # "none"
  PROVE  ShopInv'
  BY ShopOnly DEF Anew

LEMMA IdleInv ==
  ASSUME ShopInv, NEW s \in Threads, Shop!Become(s, Shop!Idle), UNCHANGED Shop!committed,
         lock' \in BOOLEAN, safe' \in BOOLEAN
  PROVE  ShopInv'
<1>1. PICK o : o = Shop!Idle
  OBVIOUS
<1>2. o \in ShopSession /\ Fit(o) /\ o.new = None /\ o.op = "none"
  BY <1>1, ShopIdleIs
<1>3. Shop!Become(s, o)
  BY <1>1
<1> QED
  BY <1>2, <1>3, ShopOnly

\* What an UPDATE makes of a product: the columns that the session has changed.
LEMMA RowWrittenIs ==
  ASSUME ShopInv, NEW o \in ShopSession, Fit(o), NEW p \in Products, NEW w, w = Shop!Written(o, p)
  PROVE  /\ product[p] = None => w = None
         /\ product[p] # None =>
              /\ w \in Shop!Row /\ w # None /\ w.sku = product[p].sku
              /\ o.now[p] = None => w.stock = product[p].stock /\ w.cost = product[p].cost
                                                              /\ w.price = product[p].price
              /\ o.now[p] # None =>
                   /\ w.stock = IF o.now[p].stock # o.seen[p].stock THEN o.now[p].stock
                                                                    ELSE product[p].stock
                   /\ w.cost = IF o.now[p].cost # o.seen[p].cost THEN o.now[p].cost
                                                                 ELSE product[p].cost
                   /\ w.price = IF o.now[p].price # o.seen[p].price THEN o.now[p].price
                                                                    ELSE product[p].price
         /\ "stock" \in Shop!Net(o, p) <=> o.now[p] # None /\ o.now[p].stock # o.seen[p].stock
<1>1. PICK G : G = Shop!Net(o, p)
  OBVIOUS
<1>2. PICK a, b, c : a = product[p] /\ b = o.now[p] /\ c = o.seen[p]
  OBVIOUS
<1>3. a \in Shop!Row \union {None} /\ b \in Shop!Row \union {None} /\ c \in Shop!Row \union {None}
  BY <1>2 DEF ShopInv, Shop!TypeOK, ShopSession
<1>4. b = None => G = {}
  BY <1>1, <1>2 DEF Shop!Net
<1>5. b # None => G = {f \in DOMAIN b : b[f] # c[f]}
  BY <1>1, <1>2 DEF Shop!Net
<1>6. b # None => /\ b \in Shop!Row /\ c \in Shop!Row /\ b.sku = c.sku
                  /\ ("stock" \in G <=> b.stock # c.stock)
                  /\ ("cost" \in G <=> b.cost # c.cost)
                  /\ ("price" \in G <=> b.price # c.price)
                  /\ "sku" \notin G
  <2> SUFFICES ASSUME b # None
               PROVE  /\ b \in Shop!Row /\ c \in Shop!Row /\ b.sku = c.sku
                      /\ ("stock" \in G <=> b.stock # c.stock)
                      /\ ("cost" \in G <=> b.cost # c.cost)
                      /\ ("price" \in G <=> b.price # c.price)
                      /\ "sku" \notin G
    OBVIOUS
  <2>1. b \in Shop!Row /\ c \in Shop!Row /\ b.sku = c.sku
    BY <1>2, <1>3 DEF Fit
  <2>2. DOMAIN b = {"sku", "stock", "cost", "price", "active"}
    BY <2>1 DEF Shop!Row
  <2> QED
    BY <1>5, <2>1, <2>2
<1>7. "stock" \in G <=> b # None /\ b.stock # c.stock
  BY <1>4, <1>6
<1>8. a = None => w = None
  BY <1>2 DEF Shop!Written
<1>9. CASE a # None
  <2>1. a \in Shop!Row /\ w = [f \in DOMAIN a |-> IF f \in G THEN b[f] ELSE a[f]]
    BY <1>1, <1>2, <1>3, <1>9 DEF Shop!Written
  <2>3. /\ "sku" \in G => b.sku \in Nat
        /\ "stock" \in G => b.stock \in Int
        /\ "cost" \in G => b.cost \in Nat
        /\ "price" \in G => b.price \in Nat
        /\ "active" \in G => b.active \in BOOLEAN
    <3>1. CASE b = None
      BY <1>4, <3>1
    <3>2. CASE b # None
      BY <1>6, <3>2 DEF Shop!Row
    <3> QED
      BY <3>1, <3>2
  <2>4. /\ w \in Shop!Row
        /\ w.sku = IF "sku" \in G THEN b.sku ELSE a.sku
        /\ w.stock = IF "stock" \in G THEN b.stock ELSE a.stock
        /\ w.cost = IF "cost" \in G THEN b.cost ELSE a.cost
        /\ w.price = IF "price" \in G THEN b.price ELSE a.price
    BY <2>1, <2>3, RowMixed
  <2>5. w # None
    BY <2>4, ShopNone
  <2> QED
    BY <1>1, <1>2, <1>4, <1>6, <1>7, <1>9, <2>4, <2>5
<1> QED
  BY <1>1, <1>2, <1>7, <1>8, <1>9

LEMMA CommitRows ==
  ASSUME ShopInv, NEW s \in Threads, NEW o, o = sess[s], Shop!Commit(s)
  PROVE  /\ o \in ShopSession /\ Fit(o) /\ o.op = "commit"
         /\ product' \in [Products -> Shop!Row \union {None}]
         /\ \A p \in Products :
              /\ product[p] # None => product'[p] = Shop!Written(o, p)
              /\ product[p] = None =>
                   product'[p] = IF o.new # None /\ o.new.id = p THEN o.new.row ELSE None
<1>1. o \in ShopSession /\ Fit(o) /\ o.op = "commit"
  BY ShopSessionIs DEF Shop!Commit, Shop!Ready
<1>2. product' = [p \in Products |->
                    IF o.new # None /\ o.new.id = p THEN o.new.row ELSE Shop!Written(o, p)]
  BY DEF Shop!Commit, Shop!Ready
<1>3. o.new # None => o.new.id \in Products /\ o.new.row \in Shop!Row /\ product[o.new.id] = None
  BY <1>1 DEF ShopSession, Fit
<1>4. ASSUME NEW p \in Products
      PROVE  /\ product'[p] \in Shop!Row \union {None}
             /\ product[p] # None => product'[p] = Shop!Written(o, p)
             /\ product[p] = None =>
                  product'[p] = IF o.new # None /\ o.new.id = p THEN o.new.row ELSE None
  <2>1. PICK w : w = Shop!Written(o, p)
    OBVIOUS
  <2>2. product'[p] = IF o.new # None /\ o.new.id = p THEN o.new.row ELSE w
    BY <1>2, <2>1
  <2>3. (product[p] = None => w = None) /\ (product[p] # None => w \in Shop!Row)
    BY <1>1, <2>1, RowWrittenIs
  <2> QED
    BY <1>3, <2>1, <2>2, <2>3
<1>5. product' \in [Products -> Shop!Row \union {None}]
  BY <1>2, <1>4
<1> QED
  BY <1>1, <1>4, <1>5

\* What a commit makes of the stock of a product, and of its records.
LEMMA CommitRecorded ==
  ASSUME ShopInv, NEW s \in Threads, Shop!Commit(s), NEW p \in Products
  PROVE  /\ moved'[p] \in Int /\ audited'[p] \in Int /\ lost'[p] \in Int
         /\ IF product'[p] = None THEN lost'[p] = 0 /\ moved'[p] + audited'[p] = 0
                                  ELSE product'[p].stock + lost'[p] = moved'[p] + audited'[p]
<1>1. PICK o : o = sess[s]
  OBVIOUS
<1>2. /\ o \in ShopSession /\ Fit(o)
      /\ product[p] # None => product'[p] = Shop!Written(o, p)
      /\ product[p] = None =>
           product'[p] = IF o.new # None /\ o.new.id = p THEN o.new.row ELSE None
  BY <1>1, CommitRows
<1>3. PICK w : w = Shop!Written(o, p)
  OBVIOUS
<1>4. PICK a, b, k, l, m, n : /\ a = moved[p] /\ b = audited[p] /\ k = o.moved[p]
                              /\ l = o.audited[p] /\ m = lost[p] /\ n = lost'[p]
  OBVIOUS
<1>5. a \in Int /\ b \in Int /\ k \in Int /\ l \in Int /\ m \in Int
  BY <1>2, <1>4 DEF ShopInv, Shop!TypeOK, ShopSession
<1>6. /\ moved'[p] = a + k /\ audited'[p] = b + l
      /\ n = IF "stock" \in Shop!Net(o, p) THEN m + product[p].stock - o.seen[p].stock ELSE m
  BY <1>1, <1>4 DEF Shop!Commit, Shop!Ready
<1>7. CASE product[p] = None
  <2>1. o.now[p] = None /\ k = 0 /\ l = 0 /\ m = 0 /\ a + b = 0
    BY <1>2, <1>4, <1>7 DEF Fit, ShopInv, Recorded
  <2>2. "stock" \notin Shop!Net(o, p)
    BY <2>1 DEF Shop!Net
  <2>3. n = 0 /\ a + k = a /\ b + l = b
    BY <1>5, <1>6, <2>1, <2>2
  <2>4. product'[p] # None => product'[p].stock = 0
    BY <1>2, <1>7 DEF Fit
  <2>5. moved'[p] = a /\ audited'[p] = b /\ lost'[p] = 0
    BY <1>4, <1>6, <2>3
  <2>6. 0 + 0 = a + b /\ a + b = 0
    BY <2>1
  <2> QED
    BY <1>5, <2>4, <2>5, <2>6
<1>8. CASE product[p] # None
  <2>1. product'[p] = w /\ product[p] \in Shop!Row
    BY <1>2, <1>3, <1>8 DEF ShopInv, Shop!TypeOK
  <2>2. /\ w \in Shop!Row /\ w # None
        /\ o.now[p] = None => w.stock = product[p].stock
        /\ o.now[p] # None => w.stock = IF o.now[p].stock # o.seen[p].stock THEN o.now[p].stock
                                                                           ELSE product[p].stock
        /\ "stock" \in Shop!Net(o, p) <=> o.now[p] # None /\ o.now[p].stock # o.seen[p].stock
    BY <1>2, <1>3, <1>8, RowWrittenIs
  <2>3. PICK x \in Int : x = product[p].stock
    BY <2>1 DEF Shop!Row
  <2>4. x + m = a + b
    BY <1>4, <1>8, <2>3 DEF ShopInv, Recorded
  <2>5. CASE o.now[p] = None
    <3>1. k = 0 /\ l = 0 /\ n = m /\ w.stock = x
      BY <1>2, <1>4, <1>6, <2>2, <2>3, <2>5 DEF Fit
    <3>2. x + m = (a + k) + (b + l)
      BY <1>5, <2>3, <2>4, <3>1
    <3> QED
      BY <1>4, <1>5, <1>6, <2>1, <2>2, <3>1, <3>2
  <2>6. CASE o.now[p] # None
    <3>1. PICK y \in Int, z \in Int : y = o.now[p].stock /\ z = o.seen[p].stock
      BY <1>2, <2>6 DEF Fit, ShopSession, Shop!Row
    <3>2. y - z = k + l
      BY <1>2, <1>4, <2>6, <3>1 DEF Fit
    <3>3. /\ w.stock = IF y # z THEN y ELSE x
          /\ n = IF y # z THEN m + x - z ELSE m
      BY <1>6, <2>2, <2>3, <2>6, <3>1
    <3>4. w.stock + n = (a + k) + (b + l) /\ n \in Int
      BY <1>5, <2>3, <2>4, <3>2, <3>3
    <3> QED
      BY <1>4, <1>5, <1>6, <2>1, <2>2, <3>4
  <2> QED
    BY <2>5, <2>6
<1> QED
  BY <1>7, <1>8

LEMMA CommitSkus ==
  ASSUME ShopInv, NEW s \in Threads, Shop!Commit(s)
  PROVE  /\ Shop!SkusCount'
         /\ Shop!Cardinality(Shop!Existing) \in Nat /\ Shop!Cardinality(Shop!Existing') \in Nat
         /\ Shop!Cardinality(Shop!Existing) <= Shop!Cardinality(Shop!Existing')
<1>1. PICK o : o = sess[s]
  OBVIOUS
<1>2. /\ o \in ShopSession /\ Fit(o)
      /\ \A p \in Products :
           /\ product[p] # None => product'[p] = Shop!Written(o, p)
           /\ product[p] = None =>
                product'[p] = IF o.new # None /\ o.new.id = p THEN o.new.row ELSE None
  BY <1>1, CommitRows
<1>3. PICK X, Y : X = Shop!Existing /\ Y = Shop!Existing'
  OBVIOUS
<1>4. X \subseteq Products /\ Y \subseteq Products
  BY <1>3 DEF Shop!Existing
<1>5. /\ IsFiniteSet(X) /\ IsFiniteSet(Y) /\ Cardinality(X) \in Nat /\ Cardinality(Y) \in Nat
      /\ Shop!Cardinality(Shop!Existing) = Cardinality(X)
      /\ Shop!Cardinality(Shop!Existing') = Cardinality(Y)
  BY <1>3, <1>4, ShopFinite, FS_Subset, FS_CardinalityType, ShopCardinality
<1>6. {product[p].sku : p \in X} = 1 .. Cardinality(X)
  BY <1>3, <1>5 DEF ShopInv, Shop!SkusCount
<1>7. ASSUME NEW p \in X PROVE p \in Y /\ product'[p].sku = product[p].sku
  <2>1. p \in Products /\ product[p] # None
    BY <1>3 DEF Shop!Existing
  <2>2. PICK w : w = Shop!Written(o, p)
    OBVIOUS
  <2>3. w # None /\ w.sku = product[p].sku
    BY <1>2, <2>1, <2>2, RowWrittenIs
  <2> QED
    BY <1>2, <1>3, <2>1, <2>2, <2>3 DEF Shop!Existing
<1>8. {product'[p].sku : p \in Y} = 1 .. Cardinality(Y) /\ Cardinality(X) <= Cardinality(Y)
  <2>1. CASE o.new = None
    <3>1. X = Y
      BY <1>2, <1>3, <1>7, <2>1 DEF Shop!Existing
    <3> QED
      BY <1>5, <1>6, <1>7, <3>1
  <2>2. CASE o.new # None
    <3>1. PICK q, k : q = o.new.id /\ k = o.new.row.sku
      OBVIOUS
    <3>2. /\ q \in Products /\ product[q] = None /\ o.new.row \in Shop!Row /\ o.new.row # None
          /\ k \in 1 .. Cardinality(X) + 1
      BY <1>2, <1>5, <2>2, <3>1, ShopNone DEF ShopSession, Fit
    <3>3. product'[q] = o.new.row
      BY <1>2, <2>2, <3>1, <3>2
    <3>4. q \notin X /\ Y = X \union {q}
      BY <1>2, <1>3, <1>4, <1>7, <3>1, <3>2, <3>3 DEF Shop!Existing
    <3>5. Cardinality(Y) = Cardinality(X) + 1
      BY <1>5, <3>4, FS_AddElement
    <3>6. \A p \in X : product[p].sku # k
      BY <1>1, <1>3, <2>2, <3>1 DEF Shop!Commit, Shop!Ready, Shop!SkuTaken
    <3>7. k = Cardinality(X) + 1
      <4>1. k \notin {product[p].sku : p \in X}
        BY <3>6
      <4>2. k \notin 1 .. Cardinality(X)
        BY <1>6, <4>1
      <4> QED
        BY <1>5, <3>2, <4>2
    <3>8. {product'[p].sku : p \in Y} = {product[p].sku : p \in X} \union {k}
      BY <1>7, <3>1, <3>3, <3>4
    <3>9. 1 .. Cardinality(Y) = (1 .. Cardinality(X)) \union {k}
      BY <1>5, <3>5, <3>7
    <3> QED
      BY <1>5, <1>6, <3>5, <3>8, <3>9
  <2> QED
    BY <2>1, <2>2
<1>9. Shop!SkusCount'
  <2>1. {product'[p].sku : p \in Y} = 1 .. Shop!Cardinality(Y)
    BY <1>8, ShopCardinality
  <2> QED
    BY <1>3, <2>1 DEF Shop!SkusCount
<1> QED
  BY <1>5, <1>8, <1>9

LEMMA ListIs ==
  ASSUME NEW T, NEW n \in Nat, NEW list \in [1 .. n -> T]
  PROVE  list \in Seq(T) /\ Len(list) = n
  OBVIOUS

LEMMA ListsJoin ==
  ASSUME NEW T, NEW a \in Seq(T), NEW b \in Seq(T)
  PROVE  /\ a \o b \in Seq(T) /\ Len(a) \in Nat /\ Len(b) \in Nat
         /\ Len(a \o b) = Len(a) + Len(b)
         /\ DOMAIN a = 1 .. Len(a) /\ DOMAIN (a \o b) = 1 .. Len(a) + Len(b)
         /\ \A i \in 1 .. Len(a) : (a \o b)[i] = a[i]
  OBVIOUS

\* A commit leaves an alert open only if it was open, and appends at most one.
LEMMA AlertsAfter ==
  ASSUME ShopInv, NEW s \in Threads, Shop!Commit(s), NEW a \in Shop!Types \X Products,
         NEW old, old = alerts[a], NEW list, list = alerts'[a]
  PROVE  /\ old \in Seq(BOOLEAN) /\ list \in Seq(BOOLEAN)
         /\ Len(old) \in Nat /\ DOMAIN old = 1 .. Len(old) /\ DOMAIN list = 1 .. Len(list)
         /\ Len(list) = IF a \in sess[s].raised THEN Len(old) + 1 ELSE Len(old)
         /\ \A i \in 1 .. Len(old) : list[i] => old[i]
<1>1. old \in Seq(BOOLEAN)
  BY DEF ShopInv, Shop!TypeOK
<1>2. Len(old) \in Nat /\ DOMAIN old = 1 .. Len(old)
  <2>1. <<>> \in Seq(BOOLEAN)
    OBVIOUS
  <2> QED
    BY <1>1, <2>1, ListsJoin
<1>3. PICK kept : kept = [i \in DOMAIN old |-> old[i] /\ <<a[1], a[2], i>> \notin sess[s].solved]
  OBVIOUS
<1>4. /\ kept \in [DOMAIN old -> BOOLEAN]
      /\ \A i \in DOMAIN old : kept[i] => old[i]
  BY <1>3, Zenon
<1>5. kept \in Seq(BOOLEAN) /\ Len(kept) = Len(old)
  BY <1>2, <1>4, ListIs
<1>6. PICK more : more = IF a \in sess[s].raised THEN <<TRUE>> ELSE <<>>
  OBVIOUS
<1>7. /\ more \in Seq(BOOLEAN)
      /\ a \in sess[s].raised => Len(more) = 1
      /\ a \notin sess[s].raised => Len(more) = 0
  <2>1. <<TRUE>> \in Seq(BOOLEAN) /\ Len(<<TRUE>>) = 1
    BY ListIs
  <2>2. <<>> \in Seq(BOOLEAN) /\ Len(<<>>) = 0
    OBVIOUS
  <2>3. /\ a \in sess[s].raised => more = <<TRUE>>
        /\ a \notin sess[s].raised => more = <<>>
    BY <1>6, Zenon
  <2> QED
    BY <2>1, <2>2, <2>3, Zenon
<1>8. list = kept \o more
  <2>1. alerts' = [x \in Shop!Types \X Products |->
          [i \in DOMAIN alerts[x] |-> alerts[x][i] /\ <<x[1], x[2], i>> \notin sess[s].solved]
            \o (IF x \in sess[s].raised THEN <<TRUE>> ELSE <<>>)]
    BY Zenon DEF Shop!Commit, Shop!Ready
  <2>2. list = [i \in DOMAIN alerts[a] |-> alerts[a][i] /\ <<a[1], a[2], i>> \notin sess[s].solved]
                 \o (IF a \in sess[s].raised THEN <<TRUE>> ELSE <<>>)
    BY <2>1, Zenon
  <2> QED
    BY <1>3, <1>6, <2>2, Zenon
<1>9. /\ list \in Seq(BOOLEAN) /\ Len(list) = Len(old) + Len(more)
      /\ DOMAIN list = 1 .. Len(list)
      /\ \A i \in 1 .. Len(old) : list[i] = kept[i]
  <2>1. /\ list \in Seq(BOOLEAN) /\ Len(list) = Len(kept) + Len(more)
        /\ DOMAIN list = 1 .. Len(kept) + Len(more)
        /\ \A i \in 1 .. Len(kept) : list[i] = kept[i]
    <3>0. kept \in Seq(BOOLEAN) /\ more \in Seq(BOOLEAN)
      BY <1>5, <1>7
    <3>1. PICK all : all = kept \o more
      OBVIOUS
    <3>2. /\ all \in Seq(BOOLEAN) /\ Len(all) = Len(kept) + Len(more)
          /\ DOMAIN all = 1 .. Len(kept) + Len(more)
          /\ \A i \in 1 .. Len(kept) : all[i] = kept[i]
      BY ONLY <3>0, <3>1, ListsJoin
    <3> QED
      BY <1>8, <3>1, <3>2, Zenon
  <2> QED
    BY <1>5, <2>1, Zenon
<1>10. \A i \in 1 .. Len(old) : list[i] => old[i]
  BY <1>2, <1>4, <1>9, Zenon
<1>11. Len(list) = IF a \in sess[s].raised THEN Len(old) + 1 ELSE Len(old)
  <2>1. CASE a \in sess[s].raised
    BY <1>7, <1>9, <2>1
  <2>2. CASE a \notin sess[s].raised
    <3>1. Len(old) + 0 = Len(old)
      BY <1>2
    <3> QED
      BY <1>7, <1>9, <2>2, <3>1
  <2> QED
    BY <2>1, <2>2
<1> QED
  BY <1>1, <1>2, <1>9, <1>10, <1>11

LEMMA CommitTypes ==
  ASSUME ShopInv, NEW s \in Threads, Shop!Commit(s)
  PROVE  /\ Shop!TypeOK' /\ Recorded'
         /\ commits' + Shop!Cardinality(Shop!Busy') <= MaxCommits
         /\ sess' \in [Threads -> ShopSession]
         /\ \A u \in Threads : sess'[u] = IF u = s THEN Shop!Idle ELSE sess[u]
<1>1. PICK o : o = sess[s]
  OBVIOUS
<1>2. o \in ShopSession /\ Fit(o) /\ o.op = "commit" /\ product' \in [Products -> Shop!Row \union {None}]
  BY <1>1, CommitRows
<1>3. PICK n : n = Shop!Idle
  OBVIOUS
<1>4. n \in ShopSession /\ n.op = "none" /\ n.held = {}
  BY <1>3, ShopIdleIs
<1>5. /\ sess' \in [Threads -> ShopSession]
      /\ \A u \in Threads : sess'[u] = IF u = s THEN n ELSE sess[u]
  <2>1. sess' = [sess EXCEPT ![s] = n] /\ sess \in [Threads -> ShopSession]
    BY <1>3 DEF Shop!Commit, Shop!Ready, Shop!Become, ShopInv
  <2> QED
    BY <1>4, <2>1
<1>6. commits' = commits + 1 /\ commits \in Nat /\ commits' + Shop!Cardinality(Shop!Busy') <= MaxCommits
  <2>1. PICK X, Y : X = Shop!Busy /\ Y = Shop!Busy'
    OBVIOUS
  <2>2. X \subseteq Threads /\ s \in X /\ Y = X \ {s}
    BY <1>1, <1>2, <1>4, <1>5, <2>1 DEF Shop!Busy
  <2>3. /\ IsFiniteSet(X) /\ IsFiniteSet(Y) /\ Cardinality(X) \in Nat /\ Cardinality(Y) \in Nat
        /\ Cardinality(Y) = Cardinality(X) - 1
    BY <2>2, ShopFinite, FS_Subset, FS_CardinalityType, FS_RemoveElement
  <2>4. commits' = commits + 1 /\ commits \in Nat
    BY DEF Shop!Commit, Shop!Ready, ShopInv, Shop!TypeOK
  <2>5. commits + Cardinality(X) <= MaxCommits
    BY <2>1, ShopCardinality DEF ShopInv
  <2>6. commits' + Cardinality(Y) <= MaxCommits
    BY <2>3, <2>4, <2>5, ShopFinite
  <2>7. Cardinality(Y) = Shop!Cardinality(Shop!Busy')
    BY <2>1, ShopCardinality
  <2> QED
    BY <2>4, <2>6, <2>7
<1>7. commits' \in 0 .. MaxCommits
  <2>1. PICK Y : Y = Shop!Busy'
    OBVIOUS
  <2>2. Cardinality(Y) \in Nat /\ Shop!Cardinality(Shop!Busy') = Cardinality(Y)
    <3>1. Y \subseteq Threads
      BY <2>1 DEF Shop!Busy
    <3> QED
      BY <2>1, <3>1, ShopFinite, FS_Subset, FS_CardinalityType, ShopCardinality
  <2>3. MaxCommits \in Nat
    BY ShopFinite
  <2> QED
    BY <1>6, <2>2, <2>3
<1>8. shown' \in [Products -> Shop!Shown \union {None}]
  BY <1>1, <1>2 DEF Shop!Commit, Shop!Ready, ShopInv, Shop!TypeOK, ShopSession
<1>9. moved' \in [Products -> Int] /\ audited' \in [Products -> Int] /\ lost' \in [Products -> Int]
  <2>1. \A p \in Products : moved'[p] \in Int /\ audited'[p] \in Int /\ lost'[p] \in Int
    BY CommitRecorded
  <2>2. /\ moved' = [p \in Products |-> moved'[p]] /\ audited' = [p \in Products |-> audited'[p]]
        /\ lost' = [p \in Products |-> lost'[p]]
    BY DEF Shop!Commit, Shop!Ready
  <2> QED
    BY <2>1, <2>2
<1>10. alerts' \in [Shop!Types \X Products -> Seq(BOOLEAN)]
  <2>1. \A a \in Shop!Types \X Products : alerts'[a] \in Seq(BOOLEAN)
    BY AlertsAfter
  <2>2. alerts' = [a \in Shop!Types \X Products |-> alerts'[a]]
    BY Zenon DEF Shop!Commit, Shop!Ready
  <2> QED
    BY <2>1, <2>2, Zenon
<1>11. sugg' \in [Suggested -> Shop!Sugg \union {None}]
  <2>1. sugg' = [x \in Suggested |->
           IF o.sugg[x] = None THEN sugg[x]
           ELSE IF sugg[x] = None THEN o.sugg[x]
           ELSE [sugg[x] EXCEPT !.status = o.sugg[x].status]]
    BY <1>1 DEF Shop!Commit, Shop!Ready
  <2>2. ASSUME NEW x \in Suggested
        PROVE  sugg'[x] \in Shop!Sugg \union {None}
    <3>1. o.sugg[x] \in Shop!Sugg \union {None} /\ sugg[x] \in Shop!Sugg \union {None}
      BY <1>2 DEF ShopSession, ShopInv, Shop!TypeOK
    <3>2. CASE o.sugg[x] = None \/ sugg[x] = None
      BY <2>1, <3>1, <3>2
    <3>3. CASE o.sugg[x] # None /\ sugg[x] # None
      <4>1. PICK y \in Shop!Sugg : y = sugg[x]
        BY <3>1, <3>3
      <4>2. PICK st \in {"PENDING", "APPLIED", "DISMISSED"} : st = o.sugg[x].status
        BY <3>1, <3>3 DEF Shop!Sugg
      <4>3. sugg'[x] = [y EXCEPT !.status = st]
        BY <2>1, <3>3, <4>1, <4>2
      <4> QED
        BY <4>3 DEF Shop!Sugg
    <3> QED
      BY <3>2, <3>3
  <2> QED
    BY <2>1, <2>2
<1>12. applied' \in [Suggested -> Nat]
  BY DEF Shop!Commit, Shop!Ready, ShopInv, Shop!TypeOK
<1>13. lock' \in BOOLEAN /\ safe' \in BOOLEAN
  BY DEF Shop!Commit, Shop!Ready, Shop!Release, ShopInv, Shop!TypeOK
<1>14. Shop!TypeOK'
  <2>1. \A u \in Threads : sess'[u].held \subseteq Products
    BY <1>5 DEF ShopSession
  <2> QED
    BY <1>2, <1>7, <1>8, <1>9, <1>10, <1>11, <1>12, <1>13, <2>1 DEF Shop!TypeOK
<1>15. Recorded'
  <2>1. ASSUME NEW x \in Suggested, sugg'[x] # None
        PROVE  product'[sugg'[x].product] # None
    <3>1. PICK q : q = IF sugg[x] = None THEN o.sugg[x].product ELSE sugg[x].product
      OBVIOUS
    <3>2. q \in Products /\ product[q] # None /\ sugg'[x].product = q
      <4>1. sugg'[x] = IF o.sugg[x] = None THEN sugg[x]
                       ELSE IF sugg[x] = None THEN o.sugg[x]
                       ELSE [sugg[x] EXCEPT !.status = o.sugg[x].status]
        BY <1>1 DEF Shop!Commit, Shop!Ready
      <4>2. o.sugg[x] \in Shop!Sugg \union {None} /\ sugg[x] \in Shop!Sugg \union {None}
        BY <1>2 DEF ShopSession, ShopInv, Shop!TypeOK
      <4>3. /\ o.sugg[x] # None => product[o.sugg[x].product] # None
            /\ sugg[x] # None => product[sugg[x].product] # None
        BY <1>2 DEF Fit, ShopInv, Recorded
      <4> QED
        BY <2>1, <3>1, <4>1, <4>2, <4>3 DEF Shop!Sugg
    <3>3. PICK w : w = Shop!Written(o, q)
      OBVIOUS
    <3>4. product'[q] = w /\ w # None
      BY <1>1, <1>2, <3>2, <3>3, CommitRows, RowWrittenIs
    <3> QED
      BY <3>2, <3>4
  <2> QED
    BY <2>1, CommitRecorded DEF Recorded
<1> QED
  BY <1>3, <1>5, <1>6, <1>14, <1>15

LEMMA CommitInv ==
  ASSUME ShopInv, NEW s \in Threads, Shop!Commit(s)
  PROVE  ShopInv'
<1>1. PICK o : o = sess[s]
  OBVIOUS
<1>2. /\ o \in ShopSession /\ Fit(o)
      /\ \A p \in Products :
           /\ product[p] # None => product'[p] = Shop!Written(o, p)
           /\ product[p] = None =>
                product'[p] = IF o.new # None /\ o.new.id = p THEN o.new.row ELSE None
  BY <1>1, CommitRows
<1>3. PICK n : n = Shop!Idle
  OBVIOUS
<1>4. n \in ShopSession /\ Fit(n) /\ n.new = None
  BY <1>3, ShopIdleIs
<1>5. \A u \in Threads : sess'[u] = IF u = s THEN n ELSE sess[u]
  BY <1>3, CommitTypes
<1>6. \A p \in Products : product[p] # None => product'[p] # None
  BY <1>2, RowWrittenIs
<1>7. ASSUME NEW u \in Threads, u # s
      PROVE  Fit(sess[u])'
  <2>1. PICK r : r = sess[u]
    OBVIOUS
  <2>2. r \in ShopSession /\ Fit(r) /\ sess'[u] = r
    BY <1>5, <1>7, <2>1, ShopSessionIs
  <2>3. r.new # None => product'[r.new.id] = None
    <3> SUFFICES ASSUME r.new # None PROVE product'[r.new.id] = None
      OBVIOUS
    <3>1. r.new.id \in Products /\ product[r.new.id] = None
      BY <2>2 DEF ShopSession, Fit
    <3>2. o.new # None => o.new.id # r.new.id
      BY <1>1, <1>7, <2>1 DEF ShopInv, OwnNew
    <3> QED
      BY <1>2, <3>1, <3>2
  <2>4. r.new # None => r.new.row.sku \in 1 .. Shop!Cardinality(Shop!Existing') + 1
    <3> SUFFICES ASSUME r.new # None
                 PROVE  r.new.row.sku \in 1 .. Shop!Cardinality(Shop!Existing') + 1
      OBVIOUS
    <3>1. PICK k, m, j : /\ k = r.new.row.sku /\ m = Shop!Cardinality(Shop!Existing)
                         /\ j = Shop!Cardinality(Shop!Existing')
      OBVIOUS
    <3>2. k \in 1 .. m + 1 /\ m \in Nat /\ j \in Nat /\ m <= j
      BY <2>2, <3>1, CommitSkus DEF Fit
    <3>3. k \in 1 .. j + 1
      BY <3>2
    <3> QED
      BY <3>1, <3>3
  <2>5. Fit(r)'
    <3>1. \A p \in Products : r.now[p] # None => product'[p] # None
      BY <1>6, <2>2 DEF Fit
    <3>2. \A x \in Suggested : r.sugg[x] # None => product'[r.sugg[x].product] # None
      <4>1. ASSUME NEW x \in Suggested, r.sugg[x] # None
            PROVE  product'[r.sugg[x].product] # None
        <5>1. r.sugg[x].product \in Products /\ product[r.sugg[x].product] # None
          BY <2>2, <4>1 DEF Fit, ShopSession, Shop!Sugg
        <5> QED
          BY <1>6, <5>1
      <4> QED
        BY <4>1
    <3> QED
      BY <2>2, <2>3, <2>4, <3>1, <3>2 DEF Fit
  <2> QED
    BY <2>2, <2>5 DEF Fit
<1>8. Fit(sess[s])'
  <2>1. /\ \A p \in Products : n.seen[p] = None /\ n.now[p] = None /\ n.moved[p] = 0 /\ n.audited[p] = 0
        /\ n.new = None /\ n.op = "none" /\ \A x \in Suggested : n.sugg[x] = None
    BY <1>3, ShopIdleIs
  <2>2. Fit(n)'
    BY <2>1 DEF Fit
  <2>3. sess'[s] = n
    BY <1>5
  <2> QED
    BY <2>2, <2>3 DEF Fit
<1>9. \A u \in Threads : Fit(sess[u])'
  BY <1>7, <1>8
<1>10. OwnNew'
  BY <1>4, <1>5 DEF ShopInv, OwnNew
<1> QED
  BY <1>9, <1>10, CommitTypes, CommitSkus DEF ShopInv

\* What the steps of the inventory are, by what they make of a session.
LEMMA ShopSteps ==
  ASSUME ShopInv, [Shop!Next]_(Shop!vars)
  PROVE  \/ \E s \in Threads :
              \/ /\ UNCHANGED <<Shop!committed, lock, safe>>
                 /\ \/ Requested(s) /\ Shop!Free(s)
                    \/ Continued(s) /\ sess[s].op # "none"
                    \/ Shop!Become(s, Shop!Idle) /\ sess[s].op # "none"
              \/ /\ UNCHANGED Shop!committed /\ Shop!Free(s)
                 /\ \E locked \in BOOLEAN :
                      /\ Proposed(s, locked)
                      /\ \/ ~lock /\ lock' = TRUE /\ safe' = safe /\ locked
                         \/ lock' = lock /\ safe' = FALSE
              \/ Shop!Commit(s)
              \/ /\ UNCHANGED Shop!committed /\ Shop!Become(s, Shop!Idle)
                 /\ safe' = safe /\ (lock' = lock \/ Shop!Release(s))
         \/ /\ UNCHANGED <<Shop!committed, sess>> /\ lock' = FALSE
            /\ safe' = (safe /\ \A s \in Threads : ~sess[s].locked)
         \/ \E x \in Suggested : Shop!SuggestionAges(x)
         \/ UNCHANGED Shop!vars
<1>1. ASSUME NEW s \in Threads,
             (Shop!Request(s) \/ Shop!Warn(s) \/ Shop!AuditItem(s)) /\ UNCHANGED <<Shop!committed, lock, safe>>
      PROVE  /\ UNCHANGED <<Shop!committed, lock, safe>>
             /\ \/ Requested(s) /\ Shop!Free(s)
                \/ Continued(s) /\ sess[s].op # "none"
                \/ Shop!Become(s, Shop!Idle) /\ sess[s].op # "none"
  <2>1. UNCHANGED <<Shop!committed, lock, safe>>
    BY <1>1, Zenon
  <2>2. CASE Shop!Request(s)
    BY <2>1, <2>2, RequestIs
  <2>3. CASE Shop!Warn(s)
    <3>1. sess[s].op # "none"
      BY <2>3 DEF Shop!Warn, Shop!Ready
    <3> QED
      BY <2>1, <2>3, <3>1, WarnIs
  <2>4. CASE Shop!AuditItem(s)
    <3>1. sess[s].op # "none"
      BY <2>4 DEF Shop!AuditItem, Shop!Ready
    <3> QED
      BY <2>1, <2>4, <3>1, ItemIs
  <2> QED
    BY <1>1, <2>2, <2>3, <2>4, Zenon
<1>2. ASSUME NEW s \in Threads,
             (Shop!WeeklyPricing(s) \/ Shop!WeeklyPricingUnlocked(s)) /\ UNCHANGED Shop!committed
      PROVE  /\ UNCHANGED Shop!committed /\ Shop!Free(s)
             /\ \E locked \in BOOLEAN :
                  /\ Proposed(s, locked)
                  /\ \/ ~lock /\ lock' = TRUE /\ safe' = safe /\ locked
                     \/ lock' = lock /\ safe' = FALSE
  <2>1. UNCHANGED Shop!committed
    BY <1>2, Zenon
  <2>2. CASE Shop!WeeklyPricing(s)
    <3>1. Shop!Free(s) /\ ~lock /\ lock' = TRUE /\ safe' = safe /\ Shop!Suggest(s, TRUE)
      BY <2>2 DEF Shop!WeeklyPricing, Shop!Acquirable
    <3>2. Proposed(s, TRUE)
      BY <3>1, SuggestIs
    <3> QED
      BY <2>1, <3>1, <3>2
  <2>3. CASE Shop!WeeklyPricingUnlocked(s)
    <3>1. PICK locked \in BOOLEAN : Shop!Suggest(s, locked)
      BY <2>3 DEF Shop!WeeklyPricingUnlocked
    <3>2. Proposed(s, locked)
      BY <3>1, SuggestIs
    <3>3. Shop!Free(s) /\ lock' = lock /\ safe' = FALSE
      BY <2>3 DEF Shop!WeeklyPricingUnlocked
    <3> QED
      BY <2>1, <3>2, <3>3
  <2> QED
    BY <1>2, <2>2, <2>3, Zenon
<1>3. ASSUME NEW s \in Threads, Shop!CommitRefused(s) \/ Shop!DeadlockVictim(s) \/ Shop!Crash(s)
      PROVE  /\ UNCHANGED Shop!committed /\ Shop!Become(s, Shop!Idle)
             /\ safe' = safe /\ (lock' = lock \/ Shop!Release(s))
  <2>1. Shop!Rollback(s) /\ (lock' = lock \/ Shop!Release(s))
    <3>1. CASE Shop!CommitRefused(s)
      BY <3>1, Zenon DEF Shop!CommitRefused
    <3>2. CASE Shop!DeadlockVictim(s)
      BY <3>2, Zenon DEF Shop!DeadlockVictim
    <3>3. CASE Shop!Crash(s)
      BY <3>3, Zenon DEF Shop!Crash
    <3> QED
      BY <1>3, <3>1, <3>2, <3>3, Zenon
  <2> QED
    BY <2>1 DEF Shop!Rollback
<1>4. Shop!LockExpires => /\ UNCHANGED <<Shop!committed, sess>> /\ lock' = FALSE
                          /\ safe' = (safe /\ \A s \in Threads : ~sess[s].locked)
  BY Zenon DEF Shop!LockExpires
<1>5. \/ \E s \in Threads :
           \/ /\ Shop!Request(s) \/ Shop!Warn(s) \/ Shop!AuditItem(s)
              /\ UNCHANGED <<Shop!committed, lock, safe>>
           \/ (Shop!WeeklyPricing(s) \/ Shop!WeeklyPricingUnlocked(s)) /\ UNCHANGED Shop!committed
           \/ Shop!Commit(s)
           \/ Shop!CommitRefused(s) \/ Shop!DeadlockVictim(s) \/ Shop!Crash(s)
      \/ Shop!LockExpires
      \/ \E x \in Suggested : Shop!SuggestionAges(x)
      \/ UNCHANGED Shop!vars
  BY Zenon DEF Shop!Next
<1> QED
  BY <1>1, <1>2, <1>3, <1>4, <1>5, Zenon

LEMMA AgesInv ==
  ASSUME ShopInv, NEW x \in Suggested, Shop!SuggestionAges(x)
  PROVE  ShopInv'
<1>1. /\ UNCHANGED <<product, shown, moved, audited, alerts, sess, lock, safe, applied, lost, commits>>
      /\ sugg[x] # None /\ sugg' = [sugg EXCEPT ![x].recent = FALSE]
  BY DEF Shop!SuggestionAges
<1>2. PICK y \in Shop!Sugg : y = sugg[x]
  BY <1>1 DEF ShopInv, Shop!TypeOK
<1>3. PICK z : z = [y EXCEPT !.recent = FALSE]
  OBVIOUS
<1>4. z \in Shop!Sugg /\ z.product = y.product
  BY <1>3 DEF Shop!Sugg
<1>5. sugg' = [sugg EXCEPT ![x] = z]
  BY <1>1, <1>2, <1>3
<1>6. /\ sugg' \in [Suggested -> Shop!Sugg \union {None}]
      /\ \A v \in Suggested : sugg'[v] = IF v = x THEN z ELSE sugg[v]
  BY <1>4, <1>5 DEF ShopInv, Shop!TypeOK
<1>7. Shop!TypeOK'
  BY <1>1, <1>6 DEF ShopInv, Shop!TypeOK
<1>8. Recorded'
  BY <1>1, <1>2, <1>4, <1>6 DEF ShopInv, Recorded
<1>9. \A u \in Threads : Fit(sess[u])'
  BY <1>1 DEF ShopInv, Fit, Shop!Existing
<1>10. Shop!SkusCount' /\ OwnNew'
  BY <1>1 DEF ShopInv, OwnNew, Shop!SkusCount, Shop!Existing
<1>11. commits' + Shop!Cardinality(Shop!Busy') <= MaxCommits
  BY <1>1 DEF ShopInv, Shop!Busy
<1> QED
  BY <1>1, <1>7, <1>8, <1>9, <1>10, <1>11 DEF ShopInv

LEMMA ShopStays == ShopInv /\ UNCHANGED Shop!vars => ShopInv'
<1> SUFFICES ASSUME ShopInv, UNCHANGED Shop!vars PROVE ShopInv'
  OBVIOUS
<1>1. UNCHANGED <<product, shown, moved, audited, alerts, sugg, sess, lock, safe, applied, lost, commits>>
  BY DEF Shop!vars
<1>2. Shop!TypeOK' /\ Recorded'
  BY <1>1 DEF ShopInv, Shop!TypeOK, Recorded
<1>3. \A u \in Threads : Fit(sess[u])'
  BY <1>1 DEF ShopInv, Fit, Shop!Existing
<1>4. Shop!SkusCount' /\ OwnNew'
  BY <1>1 DEF ShopInv, OwnNew, Shop!SkusCount, Shop!Existing
<1>5. commits' + Shop!Cardinality(Shop!Busy') <= MaxCommits
  BY <1>1 DEF ShopInv, Shop!Busy
<1> QED
  BY <1>1, <1>2, <1>3, <1>4, <1>5 DEF ShopInv

LEMMA ShopStep ==
  ASSUME ShopInv, [Shop!Next]_(Shop!vars)
  PROVE  ShopInv'
<1>0. lock \in BOOLEAN /\ safe \in BOOLEAN
  BY DEF ShopInv, Shop!TypeOK
<1>1. ASSUME NEW s \in Threads, UNCHANGED <<Shop!committed, lock, safe>>,
             \/ Requested(s) /\ Shop!Free(s)
             \/ Continued(s) /\ sess[s].op # "none"
             \/ Shop!Become(s, Shop!Idle) /\ sess[s].op # "none"
      PROVE  ShopInv'
  <2>1. UNCHANGED Shop!committed /\ lock' \in BOOLEAN /\ safe' \in BOOLEAN
    BY <1>0, <1>1
  <2> QED
    BY <1>1, <2>1, AnewInv, IdleInv DEF Requested, Continued
<1>2. ASSUME NEW s \in Threads, UNCHANGED Shop!committed, Shop!Free(s),
             NEW locked \in BOOLEAN, Proposed(s, locked),
             \/ ~lock /\ lock' = TRUE /\ safe' = safe /\ locked
             \/ lock' = lock /\ safe' = FALSE
      PROVE  ShopInv'
  <2>1. lock' \in BOOLEAN /\ safe' \in BOOLEAN
    BY <1>0, <1>2
  <2> QED
    BY <1>2, <2>1, AnewInv DEF Proposed
<1>3. ASSUME NEW s \in Threads, UNCHANGED Shop!committed, Shop!Become(s, Shop!Idle),
             safe' = safe, lock' = lock \/ Shop!Release(s)
      PROVE  ShopInv'
  <2>1. lock' \in BOOLEAN /\ safe' \in BOOLEAN
    BY <1>0, <1>3 DEF Shop!Release
  <2> QED
    BY <1>3, <2>1, IdleInv
<1>4. ASSUME UNCHANGED <<Shop!committed, sess>>, lock' = FALSE,
             safe' = (safe /\ \A s \in Threads : ~sess[s].locked)
      PROVE  ShopInv'
  <2>1. UNCHANGED <<product, shown, moved, audited, alerts, sugg, sess, applied, lost, commits>>
    BY <1>4 DEF Shop!committed
  <2>2. lock' \in BOOLEAN /\ safe' \in BOOLEAN
    BY <1>4, Zenon
  <2>3. Shop!TypeOK' /\ Recorded'
    BY <2>1, <2>2 DEF ShopInv, Shop!TypeOK, Recorded
  <2>4. \A u \in Threads : Fit(sess[u])'
    BY <2>1 DEF ShopInv, Fit, Shop!Existing
  <2>5. Shop!SkusCount' /\ OwnNew'
    BY <2>1 DEF ShopInv, OwnNew, Shop!SkusCount, Shop!Existing
  <2>6. commits' + Shop!Cardinality(Shop!Busy') <= MaxCommits
    BY <2>1 DEF ShopInv, Shop!Busy
  <2> QED
    BY <2>1, <2>3, <2>4, <2>5, <2>6 DEF ShopInv
<1> QED
  BY <1>1, <1>2, <1>3, <1>4, ShopSteps, CommitInv, AgesInv, ShopStays

LEMMA ShopStart == Shop!Init => ShopInv
<1> SUFFICES ASSUME Shop!Init PROVE ShopInv
  OBVIOUS
<1>1. PICK n : n = Shop!Idle
  OBVIOUS
<1>2. n \in ShopSession /\ Fit(n) /\ n.op = "none" /\ n.new = None /\ n.held = {}
  BY <1>1, ShopIdleIs
<1>3. sess = [s \in Threads |-> n]
  BY <1>1 DEF Shop!Init
<1>4. \A p \in Products : product[p] = None /\ moved[p] = 0 /\ audited[p] = 0 /\ lost[p] = 0
  BY DEF Shop!Init
<1>5. PICK X, Y : X = Shop!Existing /\ Y = Shop!Busy
  OBVIOUS
<1>6. X = {} /\ Y = {}
  BY <1>2, <1>3, <1>4, <1>5 DEF Shop!Existing, Shop!Busy
<1>7. Shop!Cardinality(X) = 0 /\ Shop!Cardinality(Y) = 0 /\ commits = 0 /\ MaxCommits \in Nat
  BY <1>6, ShopCardinality, ShopFinite, FS_EmptySet DEF Shop!Init
<1>8. Shop!TypeOK
  <2>1. alerts \in [Shop!Types \X Products -> Seq(BOOLEAN)]
    BY DEF Shop!Init
  <2>2. commits \in 0 .. MaxCommits
    BY <1>7
  <2>3. \A s \in Threads : sess[s].held \subseteq Products
    BY <1>2, <1>3
  <2> QED
    <3>1. /\ lock \in BOOLEAN /\ safe \in BOOLEAN
      BY Zenon DEF Shop!Init
    <3>2. /\ product \in [Products -> Shop!Row \union {None}]
          /\ shown \in [Products -> Shop!Shown \union {None}]
          /\ moved \in [Products -> Int] /\ audited \in [Products -> Int]
          /\ lost \in [Products -> Int]
          /\ sugg \in [Suggested -> Shop!Sugg \union {None}]
          /\ applied \in [Suggested -> Nat]
      BY DEF Shop!Init
    <3> QED
      BY <2>1, <2>2, <2>3, <3>1, <3>2 DEF Shop!TypeOK
<1>9. Recorded
  BY <1>4 DEF Recorded, Shop!Init
<1>10. Shop!SkusCount
  BY <1>5, <1>6, <1>7 DEF Shop!SkusCount
<1>11. commits + Shop!Cardinality(Shop!Busy) <= MaxCommits
  BY <1>5, <1>7
<1> QED
  BY <1>2, <1>3, <1>8, <1>9, <1>10, <1>11 DEF ShopInv, OwnNew

LEMMA ShopMeans == ShopInv => Shop!StockInv
  BY DEF ShopInv, Recorded, Shop!StockInv, Shop!StockExplained, Shop!Existing

(* The stock of a product is what its sales, adjustments and audits say,    *)
(* less exactly the changes that a commit overwrote because it had read the *)
(* row before them, and generated skus have no gap and no repetition,       *)
(* whatever handlers and tasks read and commit side by side.                *)
THEOREM StockHolds == Shop!Spec => []Shop!StockInv
<1> QED
  BY ShopStart, ShopStep, ShopMeans, PTL DEF Shop!Spec

\* A session that goes on to insert what is due, as long as nothing more has been suggested.
LEMMA StillDue ==
  ASSUME NEW r \in ShopSession, Due(r),
         \A p \in Products : Shop!RecentlyPending(p)' \subseteq Shop!RecentlyPending(p)
  PROVE  Due(r)'
<1>1. ASSUME NEW x \in Suggested, Inserts(r, x)
      PROVE  Shop!RecentlyPending(r.sugg[x].product)' = {}
  <2>1. PICK p \in Products : p = r.sugg[x].product
    BY <1>1 DEF Inserts, ShopSession, Shop!Sugg
  <2>2. Shop!RecentlyPending(p) = {}
    BY <1>1, <2>1 DEF Due
  <2>3. Shop!RecentlyPending(p)' = {}
    BY <2>2
  <2> QED
    BY <2>1, <2>3 DEF Shop!RecentlyPending
<1> QED
  BY <1>1 DEF Due, Inserts

LEMMA IdleDue ==
  ASSUME NEW r, \A x \in Suggested : ~Inserts(r, x)
  PROVE  Due(r) /\ Due(r)'
  BY DEF Due, Inserts

\* A step of one session that changes no suggestion, no lock, and none that it will insert.
LEMMA PriceOnly ==
  ASSUME PriceInv, ShopInv', NEW s \in Threads, NEW r \in ShopSession, Shop!Become(s, r),
         UNCHANGED Shop!committed, safe' = safe, safe => lock' = lock \/ ~\E u \in Threads \ {s} : sess[u].locked,
         ~r.locked \/ (r.locked = sess[s].locked /\ lock' = lock),
         \/ r.sugg = sess[s].sugg /\ r.locked = sess[s].locked
         \/ \A x \in Suggested : ~Inserts(r, x) /\ (r.sugg[x] # None => sugg[x] # None)
  PROVE  PriceInv'
<1>1. \A u \in Threads : sess'[u] = IF u = s THEN r ELSE sess[u]
  BY DEF Shop!Become, PriceInv, ShopInv
<1>2. sugg' = sugg
  BY DEF Shop!committed
<1>3. \A p \in Products : Shop!RecentlyPending(p)' = Shop!RecentlyPending(p)
  BY <1>2 DEF Shop!RecentlyPending
<1>4. Single'
  <2>1. ASSUME NEW u \in Threads, NEW x \in Suggested
        PROVE  /\ sess'[u].sugg[x] # None => (Inserts(sess'[u], x) <=> sugg[x] = None)
               /\ Inserts(sess'[u], x) => \A v \in Threads \ {u} : sess'[v].sugg[x] = None
    <3>1. CASE r.sugg = sess[s].sugg
      <4>1. \A v \in Threads : sess'[v].sugg = sess[v].sugg
        BY <1>1, <3>1
      <4> QED
        BY <4>1 DEF PriceInv, Single, Inserts
    <3>2. CASE \A y \in Suggested : ~Inserts(r, y) /\ (r.sugg[y] # None => sugg[y] # None)
      BY <1>1, <3>2 DEF PriceInv, Single, Inserts
    <3> QED
      BY <3>1, <3>2
  <2> QED
    BY <1>2, <2>1 DEF Single, Inserts
<1>5. ASSUME safe'
      PROVE  Exclusive' /\ OnePending' /\ \A u \in Threads : Due(sess[u])'
  <2>1. safe /\ Exclusive /\ OnePending /\ \A u \in Threads : Due(sess[u])
    BY <1>5 DEF PriceInv
  <2>2. OnePending'
    BY <1>3, <2>1 DEF OnePending
  <2>3. ASSUME NEW u \in Threads PROVE Due(sess[u])'
    <3>1. PICK q : q = sess'[u]
      OBVIOUS
    <3>2. CASE u = s /\ ~(r.sugg = sess[s].sugg)
      <4>1. \A x \in Suggested : ~Inserts(q, x)
        BY <1>1, <3>1, <3>2
      <4>2. Due(q)'
        BY <4>1, IdleDue
      <4> QED
        BY <3>1, <4>2 DEF Due, Inserts
    <3>3. CASE u # s \/ r.sugg = sess[s].sugg
      <4>1. q \in ShopSession /\ q.sugg = sess[u].sugg
        BY <1>1, <3>1, <3>3 DEF PriceInv, ShopInv
      <4>2. Due(q)
        BY <2>1, <4>1 DEF Due, Inserts
      <4>3. Due(q)'
        BY <1>3, <4>1, <4>2, StillDue
      <4> QED
        BY <3>1, <4>3 DEF Due, Inserts
    <3> QED
      BY <3>2, <3>3
  <2>4. Exclusive'
    <3>1. ASSUME NEW u \in Threads
          PROVE  /\ \A x \in Suggested : Inserts(sess'[u], x) => sess'[u].locked
                 /\ sess'[u].locked => lock' /\ \A v \in Threads \ {u} : ~sess'[v].locked
      <4>1. \A x \in Suggested : Inserts(sess'[u], x) => sess'[u].locked
        BY <1>1, <2>1 DEF Exclusive, Inserts
      <4>2. \A v \in Threads : sess'[v].locked => sess[v].locked
        BY <1>1
      <4>3. sess'[u].locked => lock'
        BY <1>1, <2>1, <4>2 DEF Exclusive
      <4> QED
        BY <2>1, <4>1, <4>2, <4>3 DEF Exclusive
    <3> QED
      BY <3>1 DEF Exclusive, Inserts
  <2> QED
    BY <2>2, <2>3, <2>4
<1> QED
  BY <1>4, <1>5 DEF PriceInv

LEMMA ReleaseIs ==
  ASSUME PriceInv, NEW s \in Threads, Shop!Release(s), safe
  PROVE  lock' = lock \/ ~\E u \in Threads \ {s} : sess[u].locked
<1>1. sess[s].locked => ~\E u \in Threads \ {s} : sess[u].locked
  BY DEF PriceInv, Exclusive
<1>2. ~sess[s].locked => lock' = lock
  BY DEF Shop!Release
<1> QED
  BY <1>1, <1>2

LEMMA PriceProposed ==
  ASSUME PriceInv, ShopInv', NEW s \in Threads, NEW locked \in BOOLEAN, Proposed(s, locked),
         UNCHANGED Shop!committed, Shop!Free(s),
         \/ ~lock /\ lock' = TRUE /\ safe' = safe /\ locked
         \/ lock' = lock /\ safe' = FALSE
  PROVE  PriceInv'
<1>1. PICK r : /\ r \in ShopSession /\ Shop!Become(s, r) /\ r.locked = locked /\ Due(r)
               /\ \A x \in Suggested :
                    r.sugg[x] # None => /\ Inserts(r, x) /\ sugg[x] = None
                                        /\ \A u \in Threads : sess[u].sugg[x] = None
  BY DEF Proposed, Anew
<1>2. \A u \in Threads : sess'[u] = IF u = s THEN r ELSE sess[u]
  BY <1>1 DEF Shop!Become, PriceInv, ShopInv
<1>3. sugg' = sugg
  BY DEF Shop!committed
<1>4. \A p \in Products : Shop!RecentlyPending(p)' = Shop!RecentlyPending(p)
  BY <1>3 DEF Shop!RecentlyPending
<1>5. Single'
  <2>1. ASSUME NEW u \in Threads, NEW x \in Suggested
        PROVE  /\ sess'[u].sugg[x] # None => (Inserts(sess'[u], x) <=> sugg[x] = None)
               /\ Inserts(sess'[u], x) => \A v \in Threads \ {u} : sess'[v].sugg[x] = None
    <3>1. CASE u = s
      BY <1>1, <1>2, <3>1 DEF Inserts
    <3>2. CASE u # s
      BY <1>1, <1>2, <3>2 DEF PriceInv, Single, Inserts
    <3> QED
      BY <3>1, <3>2
  <2> QED
    BY <1>3, <2>1 DEF Single, Inserts
<1>6. ASSUME safe'
      PROVE  Exclusive' /\ OnePending' /\ \A u \in Threads : Due(sess[u])'
  <2>1. ~lock /\ lock' /\ safe /\ locked
    BY <1>6, Zenon
  <2>2. safe /\ Exclusive /\ OnePending /\ \A u \in Threads : Due(sess[u])
    BY <2>1 DEF PriceInv
  <2>3. OnePending'
    BY <1>4, <2>2 DEF OnePending
  <2>4. ASSUME NEW u \in Threads PROVE Due(sess[u])'
    <3>1. PICK q : q = sess'[u]
      OBVIOUS
    <3>2. q \in ShopSession /\ Due(q)
      BY <1>1, <1>2, <2>2, <3>1 DEF PriceInv, ShopInv
    <3>3. Due(q)'
      BY <1>4, <3>2, StillDue
    <3> QED
      BY <3>1, <3>3 DEF Due, Inserts
  <2>5. \A u \in Threads : ~sess[u].locked
    BY <2>1, <2>2 DEF Exclusive
  <2>6. Exclusive'
    <3>1. ASSUME NEW u \in Threads
          PROVE  /\ \A x \in Suggested : Inserts(sess'[u], x) => sess'[u].locked
                 /\ sess'[u].locked => lock' /\ \A v \in Threads \ {u} : ~sess'[v].locked
      <4>1. CASE u = s
        BY <1>1, <1>2, <2>1, <2>5, <4>1
      <4>2. CASE u # s
        BY <1>2, <2>2, <2>5, <4>2 DEF Exclusive, Inserts
      <4> QED
        BY <4>1, <4>2
    <3> QED
      BY <3>1 DEF Exclusive, Inserts
  <2> QED
    BY <2>3, <2>4, <2>6
<1> QED
  BY <1>5, <1>6 DEF PriceInv

\* What a commit makes of a suggestion: one that was none is the session's, another may be
\* answered, and no answer is PENDING.
LEMMA SuggAfter ==
  ASSUME PriceInv, NEW s \in Threads, Shop!Commit(s), NEW x \in Suggested, NEW o, o = sess[s]
  PROVE  /\ o.sugg[x] = None => sugg'[x] = sugg[x]
         /\ o.sugg[x] # None /\ sugg[x] = None => sugg'[x] = o.sugg[x] /\ Inserts(o, x)
         /\ o.sugg[x] # None /\ sugg[x] # None =>
              /\ ~Inserts(o, x) /\ sugg'[x] # None /\ sugg'[x].status # "PENDING"
              /\ sugg'[x].status = o.sugg[x].status
<1>1. /\ o.sugg[x] = None => sugg'[x] = sugg[x]
      /\ o.sugg[x] # None /\ sugg[x] = None => sugg'[x] = o.sugg[x]
      /\ o.sugg[x] # None /\ sugg[x] # None =>
           sugg'[x] = [sugg[x] EXCEPT !.status = o.sugg[x].status]
  BY DEF Shop!Commit, Shop!Ready
<1>2. o.sugg[x] # None => (Inserts(o, x) <=> sugg[x] = None)
  BY DEF PriceInv, Single
<1>3. ASSUME o.sugg[x] # None, sugg[x] # None
      PROVE  sugg'[x] # None /\ sugg'[x].status # "PENDING" /\ sugg'[x].status = o.sugg[x].status
  <2>1. PICK y \in Shop!Sugg : y = sugg[x]
    BY <1>3 DEF PriceInv, ShopInv, Shop!TypeOK
  <2>2. PICK st \in {"PENDING", "APPLIED", "DISMISSED"} : st = o.sugg[x].status
    BY <1>3 DEF PriceInv, ShopInv, ShopSession, Shop!Sugg
  <2>3. PICK z : z = [y EXCEPT !.status = st]
    OBVIOUS
  <2>4. z \in Shop!Sugg /\ z.status = st /\ z # None
    <3>1. z \in Shop!Sugg /\ z.status = st
      BY <2>3 DEF Shop!Sugg
    <3> QED
      BY <3>1, ShopNone
  <2>5. sugg'[x] = z
    BY <1>1, <1>3, <2>1, <2>2, <2>3
  <2>6. st # "PENDING"
    BY <1>2, <1>3, <2>2 DEF Inserts
  <2> QED
    BY <2>2, <2>4, <2>5, <2>6
<1> QED
  BY <1>1, <1>2, <1>3

LEMMA RecentAfter ==
  ASSUME PriceInv, NEW s \in Threads, Shop!Commit(s), NEW p \in Products, NEW o, o = sess[s],
         NEW x \in Shop!RecentlyPending(p)'
  PROVE  x \in Suggested /\ (x \in Shop!RecentlyPending(p) \/ (Inserts(o, x) /\ o.sugg[x].product = p))
<1>1. x \in Suggested /\ sugg'[x] # None /\ sugg'[x].product = p /\ sugg'[x].status = "PENDING" /\ sugg'[x].recent
  BY DEF Shop!RecentlyPending
<1> QED
  BY <1>1, SuggAfter DEF Shop!RecentlyPending

LEMMA PriceCommit ==
  ASSUME PriceInv, ShopInv', NEW s \in Threads, Shop!Commit(s)
  PROVE  PriceInv'
<1>1. PICK o, n : o = sess[s] /\ n = Shop!Idle
  OBVIOUS
<1>2. o \in ShopSession /\ ~n.locked /\ \A x \in Suggested : n.sugg[x] = None
  BY <1>1, ShopIdleIs DEF PriceInv, ShopInv
<1>3. \A u \in Threads : sess'[u] = IF u = s THEN n ELSE sess[u]
  BY <1>1, CommitTypes DEF PriceInv
<1>4. Single'
  <2>1. ASSUME NEW u \in Threads, NEW x \in Suggested
        PROVE  /\ sess'[u].sugg[x] # None => (Inserts(sess'[u], x) <=> sugg'[x] = None)
               /\ Inserts(sess'[u], x) => \A v \in Threads \ {u} : sess'[v].sugg[x] = None
    <3>1. CASE u = s
      BY <1>2, <1>3, <3>1 DEF Inserts
    <3>2. CASE u # s
      <4>1. /\ sess[u].sugg[x] # None => (Inserts(sess[u], x) <=> sugg[x] = None)
            /\ Inserts(sess[u], x) => \A v \in Threads \ {u} : sess[v].sugg[x] = None
        BY DEF PriceInv, Single
      <4>2. Inserts(sess[u], x) => o.sugg[x] = None
        BY <1>1, <3>2, <4>1
      <4>3. /\ o.sugg[x] = None => sugg'[x] = sugg[x]
            /\ sugg[x] # None => sugg'[x] # None
        BY <1>1, SuggAfter
      <4>4. sess'[u] = sess[u]
        BY <1>3, <3>2
      <4>5. sess[u].sugg[x] # None => (Inserts(sess[u], x) <=> sugg'[x] = None)
        <5>1. Inserts(sess[u], x) => sess[u].sugg[x] # None
          BY DEF Inserts
        <5> QED
          BY <4>1, <4>2, <4>3, <5>1
      <4>6. Inserts(sess[u], x) => \A v \in Threads \ {u} : sess'[v].sugg[x] = None
        BY <1>2, <1>3, <4>1
      <4> QED
        BY <4>4, <4>5, <4>6
    <3> QED
      BY <3>1, <3>2
  <2> QED
    BY <2>1 DEF Single, Inserts
<1>5. ASSUME safe'
      PROVE  Exclusive' /\ OnePending' /\ \A u \in Threads : Due(sess[u])'
  <2>1. safe
    BY <1>5 DEF Shop!Commit, Shop!Ready
  <2>2. Exclusive /\ OnePending /\ \A u \in Threads : Due(sess[u])
    BY <2>1 DEF PriceInv
  <2>3. Due(o)
    BY <1>1, <2>2
  <2>4. OnePending'
    <3>1. ASSUME NEW p \in Products, NEW x \in Shop!RecentlyPending(p)', NEW y \in Shop!RecentlyPending(p)'
          PROVE  x = y
      <4>1. /\ x \in Suggested /\ y \in Suggested
            /\ x \in Shop!RecentlyPending(p) \/ (Inserts(o, x) /\ o.sugg[x].product = p)
            /\ y \in Shop!RecentlyPending(p) \/ (Inserts(o, y) /\ o.sugg[y].product = p)
        BY <1>1, RecentAfter
      <4>2. CASE Inserts(o, x) /\ o.sugg[x].product = p
        BY <2>3, <4>1, <4>2 DEF Due
      <4>3. CASE Inserts(o, y) /\ o.sugg[y].product = p
        BY <2>3, <4>1, <4>3 DEF Due
      <4>4. CASE x \in Shop!RecentlyPending(p) /\ y \in Shop!RecentlyPending(p)
        BY <2>2, <4>4 DEF OnePending
      <4> QED
        BY <4>1, <4>2, <4>3, <4>4
    <3> QED
      BY <3>1 DEF OnePending
  <2>5. ASSUME NEW u \in Threads PROVE Due(sess[u])'
    <3>1. PICK q : q = sess'[u]
      OBVIOUS
    <3>2. CASE \A x \in Suggested : ~Inserts(q, x)
      <4>1. Due(q)'
        BY <3>2, IdleDue
      <4> QED
        BY <3>1, <4>1 DEF Due, Inserts
    <3>3. CASE \E x \in Suggested : Inserts(q, x)
      <4>1. u # s /\ q = sess[u]
        BY <1>2, <1>3, <3>1, <3>3 DEF Inserts
      <4>2. sess[u].locked
        BY <2>2, <3>3, <4>1 DEF Exclusive
      <4>3. ~o.locked
        BY <1>1, <2>2, <4>1, <4>2 DEF Exclusive
      <4>4. \A x \in Suggested : ~Inserts(o, x)
        BY <1>1, <2>2, <4>3 DEF Exclusive
      <4>5. \A p \in Products : Shop!RecentlyPending(p)' \subseteq Shop!RecentlyPending(p)
        BY <1>1, <4>4, RecentAfter
      <4>6. q \in ShopSession /\ Due(q)
        BY <2>2, <4>1 DEF PriceInv, ShopInv
      <4>7. Due(q)'
        BY <4>5, <4>6, StillDue
      <4> QED
        BY <3>1, <4>7 DEF Due, Inserts
    <3> QED
      BY <3>2, <3>3
  <2>6. Exclusive'
    <3>1. lock' = lock \/ ~\E u \in Threads \ {s} : sess[u].locked
      BY <2>1, ReleaseIs DEF Shop!Commit, Shop!Ready
    <3>2. ASSUME NEW u \in Threads
          PROVE  /\ \A x \in Suggested : Inserts(sess'[u], x) => sess'[u].locked
                 /\ sess'[u].locked => lock' /\ \A v \in Threads \ {u} : ~sess'[v].locked
      <4>1. CASE u = s
        BY <1>2, <1>3, <4>1 DEF Inserts
      <4>2. CASE u # s
        BY <1>2, <1>3, <2>2, <3>1, <4>2 DEF Exclusive, Inserts
      <4> QED
        BY <4>1, <4>2
    <3> QED
      BY <3>2 DEF Exclusive, Inserts
  <2> QED
    BY <2>4, <2>5, <2>6
<1> QED
  BY <1>4, <1>5 DEF PriceInv

\* Nothing of the suggestions, of the sessions and of the lock changes but that some age.
LEMMA PriceStill ==
  ASSUME PriceInv, ShopInv', UNCHANGED sess, safe' => safe,
         safe' => lock' = lock \/ \A u \in Threads : ~sess[u].locked,
         \A x \in Suggested : sugg'[x] = None <=> sugg[x] = None,
         \A p \in Products : Shop!RecentlyPending(p)' \subseteq Shop!RecentlyPending(p)
  PROVE  PriceInv'
<1>1. Single'
  BY DEF PriceInv, Single, Inserts
<1>2. ASSUME safe'
      PROVE  Exclusive' /\ OnePending' /\ \A u \in Threads : Due(sess[u])'
  <2>1. Exclusive /\ OnePending /\ \A u \in Threads : Due(sess[u])
    BY <1>2 DEF PriceInv
  <2>2. OnePending'
    BY <2>1 DEF OnePending
  <2>3. Exclusive'
    BY <1>2, <2>1 DEF Exclusive, Inserts
  <2>4. ASSUME NEW u \in Threads PROVE Due(sess[u])'
    <3>1. PICK q : q = sess[u]
      OBVIOUS
    <3>2. q \in ShopSession /\ Due(q)
      BY <2>1, <3>1 DEF PriceInv, ShopInv
    <3>3. Due(q)'
      BY <3>2, StillDue
    <3> QED
      BY <3>1, <3>3 DEF Due, Inserts
  <2> QED
    BY <2>2, <2>3, <2>4
<1> QED
  BY <1>1, <1>2 DEF PriceInv

LEMMA PriceStep ==
  ASSUME PriceInv, [Shop!Next]_(Shop!vars)
  PROVE  PriceInv'
<1>0. ShopInv /\ ShopInv'
  BY ShopStep DEF PriceInv
<1>1. ASSUME NEW s \in Threads, UNCHANGED <<Shop!committed, lock, safe>>, Requested(s)
      PROVE  PriceInv'
  <2>1. PICK r : /\ r \in ShopSession /\ Shop!Become(s, r) /\ Reads(r) /\ ~r.locked
                 /\ \A x \in Suggested : ~Inserts(r, x)
    BY <1>1 DEF Requested, Anew
  <2>2. \A x \in Suggested : ~Inserts(r, x) /\ (r.sugg[x] # None => sugg[x] # None)
    BY <2>1 DEF Reads
  <2>3. UNCHANGED Shop!committed /\ safe' = safe /\ lock' = lock
    BY <1>1
  <2> QED
    BY <1>0, <2>1, <2>2, <2>3, PriceOnly
<1>2. ASSUME NEW s \in Threads, UNCHANGED <<Shop!committed, lock, safe>>, Continued(s)
      PROVE  PriceInv'
  <2>1. PICK r : /\ r \in ShopSession /\ Shop!Become(s, r)
                 /\ r.locked = sess[s].locked /\ r.sugg = sess[s].sugg
    BY <1>2 DEF Continued, Anew
  <2>2. UNCHANGED Shop!committed /\ safe' = safe /\ lock' = lock
    BY <1>2
  <2> QED
    BY <1>0, <2>1, <2>2, PriceOnly
<1>3. ASSUME NEW s \in Threads, UNCHANGED Shop!committed, Shop!Become(s, Shop!Idle),
             safe' = safe, lock' = lock \/ Shop!Release(s)
      PROVE  PriceInv'
  <2>1. PICK n : n = Shop!Idle
    OBVIOUS
  <2>2. n \in ShopSession /\ ~n.locked /\ \A x \in Suggested : n.sugg[x] = None
    BY <2>1, ShopIdleIs
  <2>3. \A x \in Suggested : ~Inserts(n, x) /\ (n.sugg[x] # None => sugg[x] # None)
    BY <2>2 DEF Inserts
  <2>4. safe => lock' = lock \/ ~\E u \in Threads \ {s} : sess[u].locked
    BY <1>3, ReleaseIs
  <2>5. Shop!Become(s, n)
    BY <1>3, <2>1
  <2> QED
    BY <1>0, <1>3, <2>2, <2>3, <2>4, <2>5, PriceOnly
<1>4. ASSUME NEW s \in Threads, UNCHANGED Shop!committed, Shop!Free(s),
             NEW locked \in BOOLEAN, Proposed(s, locked),
             \/ ~lock /\ lock' = TRUE /\ safe' = safe /\ locked
             \/ lock' = lock /\ safe' = FALSE
      PROVE  PriceInv'
  BY <1>0, <1>4, PriceProposed
<1>5. ASSUME UNCHANGED <<Shop!committed, sess>>, lock' = FALSE,
             safe' = (safe /\ \A s \in Threads : ~sess[s].locked)
      PROVE  PriceInv'
  <2>1. sugg' = sugg /\ sess' = sess
    BY <1>5 DEF Shop!committed
  <2>2. safe' => safe /\ \A u \in Threads : ~sess[u].locked
    BY <1>5, Zenon
  <2>3. \A p \in Products : Shop!RecentlyPending(p)' = Shop!RecentlyPending(p)
    BY <2>1 DEF Shop!RecentlyPending
  <2> QED
    BY <1>0, <2>1, <2>2, <2>3, PriceStill
<1>6. ASSUME NEW x \in Suggested, Shop!SuggestionAges(x)
      PROVE  PriceInv'
  <2>1. /\ UNCHANGED <<sess, lock, safe>>
        /\ sugg[x] # None /\ sugg' = [sugg EXCEPT ![x].recent = FALSE]
    BY <1>6 DEF Shop!SuggestionAges
  <2>2. PICK y \in Shop!Sugg : y = sugg[x]
    BY <1>0, <2>1 DEF ShopInv, Shop!TypeOK
  <2>3. PICK z : z = [y EXCEPT !.recent = FALSE]
    OBVIOUS
  <2>4. z \in Shop!Sugg /\ ~z.recent /\ z # None
    <3>1. z \in Shop!Sugg /\ ~z.recent
      BY <2>3 DEF Shop!Sugg
    <3> QED
      BY <3>1, ShopNone
  <2>5. \A v \in Suggested : sugg'[v] = IF v = x THEN z ELSE sugg[v]
    BY <1>0, <2>1, <2>2, <2>3 DEF ShopInv, Shop!TypeOK
  <2>6. \A p \in Products : Shop!RecentlyPending(p)' \subseteq Shop!RecentlyPending(p)
    BY <2>4, <2>5 DEF Shop!RecentlyPending
  <2> QED
    BY <1>0, <2>1, <2>4, <2>5, <2>6, PriceStill
<1>7. CASE UNCHANGED Shop!vars
  <2>1. UNCHANGED <<sugg, sess, lock, safe>>
    BY <1>7 DEF Shop!vars
  <2>2. \A p \in Products : Shop!RecentlyPending(p)' = Shop!RecentlyPending(p)
    BY <2>1 DEF Shop!RecentlyPending
  <2> QED
    BY <1>0, <2>1, <2>2, PriceStill
<1>8. ASSUME NEW s \in Threads, Shop!Commit(s)
      PROVE  PriceInv'
  BY <1>0, <1>8, PriceCommit
<1>9. ASSUME NEW s \in Threads, UNCHANGED <<Shop!committed, lock, safe>>, Shop!Become(s, Shop!Idle)
      PROVE  PriceInv'
  <2>1. UNCHANGED Shop!committed /\ safe' = safe /\ lock' = lock
    BY <1>9
  <2> QED
    BY <1>3, <1>9, <2>1
<1> QED
  BY <1>0, <1>1, <1>2, <1>3, <1>4, <1>5, <1>6, <1>7, <1>8, <1>9, ShopSteps

LEMMA PriceStart == Shop!Init => PriceInv
<1> SUFFICES ASSUME Shop!Init PROVE PriceInv
  OBVIOUS
<1>1. PICK n : n = Shop!Idle
  OBVIOUS
<1>2. ~n.locked /\ \A x \in Suggested : n.sugg[x] = None
  BY <1>1, ShopIdleIs
<1>3. /\ \A s \in Threads : sess[s] = n
      /\ \A x \in Suggested : sugg[x] = None
  BY <1>1 DEF Shop!Init
<1>4. Single /\ Exclusive /\ OnePending /\ \A s \in Threads : Due(sess[s])
  BY <1>2, <1>3 DEF Single, Exclusive, OnePending, Due, Inserts, Shop!RecentlyPending
<1> QED
  BY <1>4, ShopStart DEF PriceInv

\* Where no two of a set differ, it has at most one member.
LEMMA AtMostOne ==
  ASSUME NEW X, \A x, y \in X : x = y
  PROVE  Cardinality(X) <= 1
<1>1. CASE X = {}
  BY <1>1, FS_EmptySet
<1>2. CASE X # {}
  <2>1. PICK x \in X : X = {x}
    BY <1>2
  <2>2. Cardinality({x}) = 1
    BY FS_Singleton, Zenon
  <2>3. Cardinality(X) = 1
    BY <2>1, <2>2, Zenon
  <2> QED
    BY <2>3
<1> QED
  BY <1>1, <1>2

LEMMA PriceMeans == PriceInv => Shop!OneRecentPending
<1> SUFFICES ASSUME PriceInv, safe, NEW p \in Products
             PROVE  Shop!Cardinality(Shop!RecentlyPending(p)) <= 1
  BY DEF Shop!OneRecentPending
<1>1. PICK X : X = Shop!RecentlyPending(p)
  OBVIOUS
<1>2. \A x, y \in X : x = y
  BY <1>1 DEF PriceInv, OnePending
<1>3. Cardinality(X) <= 1
  BY <1>2, AtMostOne
<1> QED
  BY <1>1, <1>3, ShopCardinality

(* While Redis answers and no run of the weekly analysis outlives its key,  *)
(* a product has at most one suggestion of the last seven days that waits   *)
(* for an answer (run_weekly_pricing_analysis "avoiding duplicate recent    *)
(* pending entries", tasks/tasks.py): no constraint of the table says so.   *)
THEOREM OneSuggestion == Shop!Spec => []Shop!OneRecentPending
<1> QED
  BY PriceStart, PriceStep, PriceMeans, PTL DEF Shop!Spec

LEMMA RestingIs ==
  ASSUME ShopInv, Resting, NEW s \in Threads, NEW r, Shop!Become(s, r),
         r.op # "none" \/ r = Shop!Idle
  PROVE  Resting'
<1>1. \A u \in Threads : sess'[u] = IF u = s THEN r ELSE sess[u]
  BY DEF Shop!Become, ShopInv
<1>2. PICK n : n = Shop!Idle
  OBVIOUS
<1>3. \A u \in Threads : sess'[u].op = "none" => sess'[u] = n
  BY <1>1, <1>2 DEF Resting
<1>4. n = Shop!Idle'
  BY <1>2 DEF Shop!Idle
<1> QED
  BY <1>3, <1>4 DEF Resting

LEMMA RestingStep ==
  ASSUME ShopInv, Resting, [Shop!Next]_(Shop!vars)
  PROVE  Resting'
<1>1. ASSUME NEW s \in Threads, Requested(s) \/ Continued(s) \/ \E locked \in BOOLEAN : Proposed(s, locked)
      PROVE  Resting'
  BY <1>1, RestingIs DEF Requested, Continued, Proposed, Anew
<1>2. ASSUME NEW s \in Threads, Shop!Become(s, Shop!Idle)
      PROVE  Resting'
  <2>1. PICK n : n = Shop!Idle
    OBVIOUS
  <2> QED
    BY <1>2, <2>1, RestingIs
<1>3. ASSUME sess' = sess
      PROVE  Resting'
  BY <1>3 DEF Resting, Shop!Idle
<1>4. \A s \in Threads : Shop!Commit(s) => Shop!Become(s, Shop!Idle)
  BY DEF Shop!Commit, Shop!Ready
<1>5. ASSUME NEW x \in Suggested, Shop!SuggestionAges(x)
      PROVE  sess' = sess
  BY <1>5 DEF Shop!SuggestionAges
<1>6. UNCHANGED Shop!vars => sess' = sess
  BY DEF Shop!vars
<1> QED
  BY <1>1, <1>2, <1>3, <1>4, <1>5, <1>6, ShopSteps

LEMMA BusyOne ==
  ASSUME ShopInv, OneBusy, ShopNext
  PROVE  OneBusy'
<1>1. CASE UNCHANGED <<Shop!vars, shopOverlapped>>
  BY <1>1 DEF OneBusy, Shop!vars
<1>2. CASE shopOverlapped' = (shopOverlapped \/ Shop!Cardinality(Shop!Busy') > 1)
  <2>1. SUFFICES ASSUME ~shopOverlapped', NEW s \in Threads, NEW u \in Threads,
                        sess'[s].op # "none", sess'[u].op # "none"
                 PROVE  s = u
    BY DEF OneBusy
  <2>2. PICK X : X = Shop!Busy'
    OBVIOUS
  <2>3. X \subseteq Threads /\ s \in X /\ u \in X
    BY <2>1, <2>2 DEF Shop!Busy
  <2>4. IsFiniteSet(X) /\ Cardinality(X) \in Nat
    BY <2>3, ShopFinite, FS_Subset, FS_CardinalityType
  <2>5. ~(Cardinality(X) > 1)
    BY <1>2, <2>1, <2>2, ShopCardinality
  <2>6. Cardinality(X) <= 1
    BY <2>4, <2>5
  <2> QED
    BY <2>3, <2>4, <2>6, OneIsAll
<1> QED
  BY <1>1, <1>2 DEF ShopNext

\* A step that commits nothing refutes nothing of what sessions have read.
LEMMA ReadsKept ==
  ASSUME NEW r, Reads(r), UNCHANGED <<product, alerts, sugg>>
  PROVE  Reads(r)'
  BY DEF Reads, Inserts, Shop!Open, Shop!NeverLow

LEMMA SerialOnly ==
  ASSUME ShopInv, Agreed, \A u \in Threads : Reads(sess[u]), NEW s \in Threads, NEW r, Reads(r),
         Shop!Become(s, r), UNCHANGED Shop!committed
  PROVE  Agreed' /\ \A u \in Threads : Reads(sess[u])'
<1>1. \A u \in Threads : sess'[u] = IF u = s THEN r ELSE sess[u]
  BY DEF Shop!Become, ShopInv
<1>2. UNCHANGED <<product, shown, alerts, sugg, applied>>
  BY DEF Shop!committed
<1>3. Agreed'
  BY <1>2 DEF Agreed, Shop!HistoryShowsPrice, Shop!SuggestionsOnce, OneOpen, Shop!Existing
<1>4. ASSUME NEW u \in Threads PROVE Reads(sess[u])'
  <2>1. PICK q : q = sess'[u]
    OBVIOUS
  <2>2. Reads(q)
    BY <1>1, <2>1
  <2>3. Reads(q)'
    BY <1>2, <2>2, ReadsKept
  <2> QED
    BY <2>1, <2>3 DEF Reads, Inserts
<1> QED
  BY <1>3, <1>4

LEMMA IdleReads ==
  ASSUME NEW r, r = Shop!Idle
  PROVE  Reads(r) /\ Reads(r)'
<1>1. /\ r.new = None /\ r.raised = {}
      /\ \A p \in Products : r.seen[p] = None /\ r.now[p] = None /\ r.shown[p] = None
      /\ \A x \in Suggested : r.sugg[x] = None
  BY ShopIdleIs
<1> QED
  BY <1>1 DEF Reads, Inserts

LEMMA CommitShows ==
  ASSUME PriceInv, Agreed, NEW s \in Threads, Shop!Commit(s), Reads(sess[s])
  PROVE  Shop!HistoryShowsPrice'
<1>1. PICK o : o = sess[s]
  OBVIOUS
<1>2. /\ o \in ShopSession /\ Fit(o) /\ Reads(o) /\ ShopInv
      /\ \A p \in Products :
           /\ product[p] # None => product'[p] = Shop!Written(o, p)
           /\ product[p] = None =>
                product'[p] = IF o.new # None /\ o.new.id = p THEN o.new.row ELSE None
  BY <1>1, CommitRows DEF PriceInv
<1>3. \A p \in Products : shown'[p] = IF o.shown[p] # None THEN o.shown[p] ELSE shown[p]
  BY <1>1 DEF Shop!Commit, Shop!Ready
<1>4. ASSUME NEW p \in Products, product'[p] # None
      PROVE  Shop!Shows(shown'[p], product'[p])
  <2>1. CASE product[p] = None
    <3>1. o.new # None /\ o.new.id = p /\ product'[p] = o.new.row /\ o.now[p] = None
      BY <1>2, <1>4, <2>1 DEF Fit
    <3>2. o.shown[p] # None /\ Shop!Shows(o.shown[p], o.new.row)
      BY <1>2, <3>1 DEF Reads
    <3> QED
      BY <1>3, <3>1, <3>2
  <2>2. CASE product[p] # None
    <3>1. PICK w : w = Shop!Written(o, p)
      OBVIOUS
    <3>2. /\ product'[p] = w
          /\ o.now[p] = None => w.cost = product[p].cost /\ w.price = product[p].price
          /\ o.now[p] # None =>
               /\ w.cost = IF o.now[p].cost # o.seen[p].cost THEN o.now[p].cost ELSE product[p].cost
               /\ w.price = IF o.now[p].price # o.seen[p].price THEN o.now[p].price ELSE product[p].price
      BY <1>2, <2>2, <3>1, RowWrittenIs
    <3>3. o.now[p] # None => o.seen[p] = product[p]
      BY <1>2 DEF Reads
    <3>4. ~(o.new # None /\ o.new.id = p)
      BY <1>2, <2>2 DEF Fit
    <3>5. CASE o.shown[p] = None
      <4>1. o.now[p] # None => o.now[p].cost = product[p].cost /\ o.now[p].price = product[p].price
        BY <1>2, <3>5 DEF Reads
      <4>2. w.cost = product[p].cost /\ w.price = product[p].price
        BY <3>2, <4>1
      <4>3. Shop!Shows(shown[p], product[p])
        BY <2>2 DEF Agreed, Shop!HistoryShowsPrice, Shop!Existing
      <4> QED
        BY <1>3, <3>2, <3>5, <4>2, <4>3, ShowsEither
    <3>6. CASE o.shown[p] # None
      <4>1. o.now[p] # None /\ Shop!Shows(o.shown[p], o.now[p])
        BY <1>2, <3>4, <3>6 DEF Reads
      <4>2. w.cost = o.now[p].cost /\ w.price = o.now[p].price
        BY <3>2, <3>3, <4>1
      <4> QED
        BY <1>3, <3>2, <3>6, <4>1, <4>2, ShowsEither
    <3> QED
      BY <3>5, <3>6
  <2> QED
    BY <2>1, <2>2
<1> QED
  BY <1>4 DEF Shop!HistoryShowsPrice, Shop!Existing

LEMMA CommitAnswers ==
  ASSUME PriceInv, Agreed, NEW s \in Threads, Shop!Commit(s), Reads(sess[s])
  PROVE  Shop!SuggestionsOnce'
<1>1. PICK o : o = sess[s]
  OBVIOUS
<1>2. ASSUME NEW x \in Suggested
      PROVE  applied'[x] = IF sugg'[x] # None /\ sugg'[x].status = "APPLIED" THEN 1 ELSE 0
  <2>1. applied'[x] = IF o.sugg[x] # None /\ o.sugg[x].status = "APPLIED" THEN applied[x] + 1 ELSE applied[x]
    BY <1>1 DEF Shop!Commit, Shop!Ready
  <2>2. applied[x] = IF sugg[x] # None /\ sugg[x].status = "APPLIED" THEN 1 ELSE 0
    BY DEF Agreed, Shop!SuggestionsOnce
  <2>3. CASE o.sugg[x] = None
    BY <1>1, <2>1, <2>2, <2>3, SuggAfter
  <2>4. CASE o.sugg[x] # None /\ sugg[x] = None
    <3>1. sugg'[x] = o.sugg[x] /\ o.sugg[x].status = "PENDING"
      BY <1>1, <2>4, SuggAfter DEF Inserts
    <3> QED
      BY <2>1, <2>2, <2>4, <3>1
  <2>5. CASE o.sugg[x] # None /\ sugg[x] # None
    <3>1. ~Inserts(o, x) /\ sugg'[x] # None /\ sugg'[x].status = o.sugg[x].status
      BY <1>1, <2>5, SuggAfter
    <3>2. sugg[x].status = "PENDING"
      BY <1>1, <2>5, <3>1 DEF Reads
    <3> QED
      BY <2>1, <2>2, <2>5, <3>1, <3>2
  <2> QED
    BY <2>3, <2>4, <2>5
<1> QED
  BY <1>2 DEF Shop!SuggestionsOnce

LEMMA CommitRaises ==
  ASSUME PriceInv, Agreed, NEW s \in Threads, Shop!Commit(s), Reads(sess[s])
  PROVE  OneOpen'
<1>1. ASSUME NEW type \in Shop!Types, NEW p \in Products, NEW old, NEW list,
             old = alerts[<<type, p>>], list = alerts'[<<type, p>>]
      PROVE  /\ \A i, j \in DOMAIN list : list[i] /\ list[j] => i = j
             /\ type = "LOW_STOCK" => Len(list) <= 1
  <2>1. PICK a \in Shop!Types \X Products : a = <<type, p>>
    OBVIOUS
  <2>2. /\ Len(old) \in Nat /\ DOMAIN old = 1 .. Len(old) /\ DOMAIN list = 1 .. Len(list)
        /\ Len(list) = IF a \in sess[s].raised THEN Len(old) + 1 ELSE Len(old)
        /\ \A i \in 1 .. Len(old) : list[i] => old[i]
    BY <1>1, <2>1, AlertsAfter DEF PriceInv
  <2>3. /\ \A i, j \in 1 .. Len(old) : old[i] /\ old[j] => i = j
        /\ type = "LOW_STOCK" => Len(old) <= 1
    BY <1>1, <2>2 DEF Agreed, OneOpen
  <2>4. CASE a \notin sess[s].raised
    BY <2>2, <2>3, <2>4
  <2>5. CASE a \in sess[s].raised /\ type = "MARGIN_WARNING"
    <3>1. ~Shop!Open("MARGIN_WARNING", p)
      BY <2>1, <2>5 DEF Reads
    <3>2. \A i \in 1 .. Len(old) : ~old[i]
      BY <1>1, <2>2, <2>5, <3>1 DEF Shop!Open
    <3>3. \A i \in DOMAIN list : list[i] => i = Len(old) + 1
      BY <2>2, <2>5, <3>2
    <3> QED
      BY <2>5, <3>3
  <2>6. CASE a \in sess[s].raised /\ type = "LOW_STOCK"
    <3>1. old = <<>>
      BY <1>1, <2>1, <2>6 DEF Reads, Shop!NeverLow
    <3>2. Len(list) = 1
      BY <2>2, <2>6, <3>1
    <3>3. \A i \in DOMAIN list : i = 1
      <4>1. DOMAIN list = 1 .. 1
        BY <2>2, <3>2, Zenon
      <4>2. \A i \in 1 .. 1 : i = 1
        OBVIOUS
      <4> QED
        BY <4>1, <4>2, Zenon
    <3>4. Len(list) <= 1
      BY <3>2
    <3> QED
      BY <3>3, <3>4, Zenon
  <2> QED
    BY <2>4, <2>5, <2>6 DEF Shop!Types
<1> QED
  BY <1>1 DEF OneOpen

\* A step of one session, when no two are at work at once.
LEMMA SerialStep ==
  ASSUME RecordsInv, ShopNext, OneBusy'
  PROVE  ShopSerial'
<1>0. PriceInv /\ ShopInv /\ Resting /\ OneBusy /\ ShopSerial
  BY DEF RecordsInv, PriceInv
<1>1. [Shop!Next]_(Shop!vars)
  BY DEF ShopNext
<1>2. shopOverlapped => shopOverlapped'
  <2>1. \/ UNCHANGED <<Shop!vars, shopOverlapped>>
        \/ shopOverlapped' = (shopOverlapped \/ Shop!Cardinality(Shop!Busy') > 1)
    BY DEF ShopNext
  <2> QED
    BY <2>1, Zenon
<1> SUFFICES ASSUME ~shopOverlapped' PROVE Agreed' /\ \A u \in Threads : Reads(sess[u])'
  BY DEF ShopSerial
<1>3. ~shopOverlapped /\ Agreed /\ \A u \in Threads : Reads(sess[u])
  BY <1>0, <1>2 DEF ShopSerial
<1>4. ASSUME NEW s \in Threads, UNCHANGED Shop!committed,
             \/ Requested(s) \/ Continued(s) \/ \E locked \in BOOLEAN : Proposed(s, locked)
      PROVE  Agreed' /\ \A u \in Threads : Reads(sess[u])'
  <2>1. \E r : Shop!Become(s, r) /\ Reads(r)
    BY <1>3, <1>4 DEF Requested, Continued, Proposed, Anew
  <2> QED
    BY <1>0, <1>3, <1>4, <2>1, SerialOnly
<1>5. ASSUME NEW s \in Threads, UNCHANGED Shop!committed, Shop!Become(s, Shop!Idle)
      PROVE  Agreed' /\ \A u \in Threads : Reads(sess[u])'
  <2>1. PICK n : n = Shop!Idle
    OBVIOUS
  <2>2. Shop!Become(s, n) /\ Reads(n)
    BY <1>5, <2>1, IdleReads
  <2> QED
    BY <1>0, <1>3, <1>5, <2>2, SerialOnly
<1>6. ASSUME NEW s \in Threads, Shop!Commit(s)
      PROVE  Agreed' /\ \A u \in Threads : Reads(sess[u])'
  <2>1. Agreed'
    BY <1>0, <1>3, <1>6, CommitShows, CommitAnswers, CommitRaises DEF Agreed
  <2>2. \A u \in Threads \ {s} : sess[u].op = "none"
    BY <1>0, <1>3, <1>6 DEF OneBusy, Shop!Commit, Shop!Ready
  <2>3. PICK n : n = Shop!Idle
    OBVIOUS
  <2>4. \A u \in Threads : sess'[u] = n
    BY <1>0, <1>6, <2>2, <2>3, CommitTypes DEF Resting
  <2>5. Reads(n)'
    BY <2>3, IdleReads
  <2> QED
    BY <2>1, <2>4, <2>5 DEF Reads, Inserts
<1>7. ASSUME UNCHANGED <<Shop!committed, sess>>
      PROVE  Agreed' /\ \A u \in Threads : Reads(sess[u])'
  <2>1. UNCHANGED <<product, shown, alerts, sugg, applied, sess>>
    BY <1>7 DEF Shop!committed
  <2>2. Agreed'
    BY <1>3, <2>1 DEF Agreed, Shop!HistoryShowsPrice, Shop!SuggestionsOnce, OneOpen, Shop!Existing
  <2>3. \A u \in Threads : Reads(sess[u])'
    BY <1>3, <2>1 DEF Reads, Inserts, Shop!Open, Shop!NeverLow
  <2> QED
    BY <2>2, <2>3
<1>8. ASSUME NEW x \in Suggested, Shop!SuggestionAges(x)
      PROVE  Agreed' /\ \A u \in Threads : Reads(sess[u])'
  <2>1. /\ UNCHANGED <<product, shown, alerts, applied, sess>>
        /\ sugg[x] # None /\ sugg' = [sugg EXCEPT ![x].recent = FALSE]
    BY <1>8 DEF Shop!SuggestionAges
  <2>2. PICK y \in Shop!Sugg : y = sugg[x]
    BY <1>0, <2>1 DEF ShopInv, Shop!TypeOK
  <2>3. PICK z : z = [y EXCEPT !.recent = FALSE]
    OBVIOUS
  <2>4. z.status = y.status /\ z # None
    <3>1. z \in Shop!Sugg /\ z.status = y.status
      BY <2>3 DEF Shop!Sugg
    <3> QED
      BY <3>1, ShopNone
  <2>5. \A v \in Suggested : sugg'[v] = IF v = x THEN z ELSE sugg[v]
    BY <1>0, <2>1, <2>2, <2>3 DEF ShopInv, Shop!TypeOK
  <2>6. \A v \in Suggested : /\ sugg'[v] = None <=> sugg[v] = None
                             /\ sugg[v] # None => sugg'[v].status = sugg[v].status
    BY <2>1, <2>2, <2>4, <2>5
  <2>7. Agreed'
    BY <1>3, <2>1, <2>6 DEF Agreed, Shop!HistoryShowsPrice, Shop!SuggestionsOnce, OneOpen, Shop!Existing
  <2>8. ASSUME NEW u \in Threads PROVE Reads(sess[u])'
    BY <1>3, <2>1, <2>6 DEF Reads, Inserts, Shop!Open, Shop!NeverLow
  <2> QED
    BY <2>7, <2>8
<1>9. UNCHANGED Shop!vars => UNCHANGED <<Shop!committed, sess>>
  BY DEF Shop!vars, Shop!committed
<1> QED
  BY <1>0, <1>1, <1>4, <1>5, <1>6, <1>7, <1>8, <1>9, ShopSteps

LEMMA RecordsStart == Shop!Init /\ ~shopOverlapped => RecordsInv
<1> SUFFICES ASSUME Shop!Init PROVE RecordsInv
  OBVIOUS
<1>1. PICK n : n = Shop!Idle
  OBVIOUS
<1>2. Reads(n) /\ n.op = "none"
  BY <1>1, IdleReads, ShopIdleIs
<1>3. \A s \in Threads : sess[s] = n
  BY <1>1 DEF Shop!Init
<1>4. /\ \A p \in Products : product[p] = None
      /\ \A x \in Suggested : sugg[x] = None /\ applied[x] = 0
      /\ \A a \in Shop!Types \X Products : alerts[a] = <<>>
  BY DEF Shop!Init
<1>5. Shop!HistoryShowsPrice /\ Shop!SuggestionsOnce
  BY <1>4 DEF Shop!HistoryShowsPrice, Shop!SuggestionsOnce, Shop!Existing
<1>6. OneOpen
  <2> SUFFICES ASSUME NEW type \in Shop!Types, NEW p \in Products
               PROVE  DOMAIN alerts[<<type, p>>] = {} /\ Len(alerts[<<type, p>>]) <= 1
    BY DEF OneOpen
  <2>1. alerts[<<type, p>>] = <<>>
    BY <1>4
  <2> QED
    BY <2>1
<1> QED
  BY <1>1, <1>2, <1>3, <1>5, <1>6, PriceStart
     DEF RecordsInv, Resting, OneBusy, ShopSerial, Agreed

LEMMA RecordsStep ==
  ASSUME RecordsInv, ShopNext
  PROVE  RecordsInv'
<1>1. [Shop!Next]_(Shop!vars) /\ ShopInv /\ PriceInv /\ Resting /\ OneBusy
  BY DEF ShopNext, RecordsInv, PriceInv
<1>2. PriceInv'
  BY <1>1, PriceStep
<1>3. Resting'
  BY <1>1, RestingStep
<1>4. OneBusy'
  BY <1>1, BusyOne
<1>5. ShopSerial'
  BY <1>4, SerialStep
<1> QED
  BY <1>2, <1>3, <1>4, <1>5 DEF RecordsInv

LEMMA RecordsMean == RecordsInv => SerialRecordsAgree
<1> SUFFICES ASSUME Agreed, NEW type \in Shop!Types, NEW p \in Products
             PROVE  /\ Shop!Cardinality({i \in DOMAIN alerts[<<type, p>>] : alerts[<<type, p>>][i]}) <= 1
                    /\ type = "LOW_STOCK" => Len(alerts[<<type, p>>]) <= 1
  BY DEF RecordsInv, ShopSerial, Agreed, SerialRecordsAgree, Shop!AlertsOnce
<1>1. PICK list : list = alerts[<<type, p>>]
  OBVIOUS
<1>2. /\ \A i, j \in DOMAIN list : list[i] /\ list[j] => i = j
      /\ type = "LOW_STOCK" => Len(list) <= 1
  BY <1>1 DEF Agreed, OneOpen
<1>3. PICK X : X = {i \in DOMAIN list : list[i]}
  OBVIOUS
<1>4. \A x, y \in X : x = y
  BY <1>2, <1>3
<1>5. Shop!Cardinality(X) <= 1
  BY <1>4, AtMostOne, ShopCardinality
<1> QED
  BY <1>1, <1>2, <1>3, <1>5

-----------------------------------------------------------------------------
(* Nobody waits for nothing: of the three parts, each has its own sessions  *)
(* and locks.                                                               *)

\* The parts have one notion of waiting.
LEMMA WaitsAreWaits ==
  ASSUME NEW s, NEW M, NEW E, NEW S
  PROVE  /\ Ocr!OnCycle(s, E, S) <=> OnCycle(s, E, S)
         /\ Shop!OnCycle(s, E, S) <=> OnCycle(s, E, S)
         /\ Ocr!HasWayOut(s, M, E, S) <=> HasWayOut(s, M, E, S)
         /\ Shop!HasWayOut(s, M, E, S) <=> HasWayOut(s, M, E, S)
  BY DEF Ocr!OnCycle, Shop!OnCycle, OnCycle, Ocr!HasWayOut, Shop!HasWayOut, HasWayOut,
         Ocr!Behind, Shop!Behind, Behind, Ocr!Closed, Shop!Closed, Closed

\* Orders: who holds a row is at work.
Held ==
  \A u \in Threads : req[u].pc = "idle" =>
    /\ \A l \in LineIds : lineLock[l] # u
    /\ \A p \in Products : prodLock[p] # u

LEMMA HeldStart == Init => Held
  BY LinesFinite DEF Init, Held

LEMMA HeldStep ==
  ASSUME PoInv, Held, [Next]_vars
  PROVE  Held'
<1>1. /\ req \in [Threads -> Request] /\ DOMAIN req = Threads
      /\ lineLock \in [LineIds -> Threads \union {None}]
      /\ prodLock \in [Products -> Threads \union {None}]
  BY DEF PoInv, PoTables
<1>2. None \notin Threads
  BY LinesFinite
\* A request that takes a lock goes on, one that ends returns its locks.
<1>3. ASSUME NEW t \in Threads, req'[t].pc # "idle",
             \A u \in Threads \ {t} : req'[u] = req[u],
             \A l \in LineIds : lineLock'[l] \in {t, lineLock[l]},
             \A p \in Products : prodLock'[p] \in {t, prodLock[p]}
      PROVE  Held'
  BY <1>3 DEF Held
<1>4. ASSUME NEW t \in Threads, EndSession(t)
      PROVE  Held'
  <2>1. \A u \in Threads \ {t} : req'[u] = req[u]
    BY <1>1, <1>4 DEF EndSession
  <2>2. /\ \A l \in LineIds : lineLock'[l] \in {None, lineLock[l]} /\ lineLock'[l] # t
        /\ \A p \in Products : prodLock'[p] \in {None, prodLock[p]} /\ prodLock'[p] # t
    BY <1>2, <1>4 DEF EndSession
  <2> QED
    BY <1>2, <2>1, <2>2 DEF Held
<1>5. ASSUME NEW t \in Threads, NEW r, Begin(t, r), r.pc # "idle"
      PROVE  Held'
  BY <1>1, <1>3, <1>5 DEF Begin
<1>6. CASE Next
  <2>1. PICK t \in Threads :
             \/ Send(t) \/ Confirm(t) \/ Cancel(t)
             \/ \E draft \in Drafts : Update(t, draft)
             \/ \E delivery \in Deliveries : Receive(t, delivery)
             \/ Step(t) \/ Abort(t)
    BY <1>6 DEF Next
  <2>2. CASE Send(t) \/ Confirm(t) \/ Cancel(t)
    <3>1. \A op, new : Writes(op, new).pc = "commit"
      BY DEF Writes, Idle
    <3> QED
      BY <1>5, <2>2, <3>1 DEF Send, Confirm, Cancel
  <2>3. ASSUME NEW draft \in Drafts, Update(t, draft)
        PROVE  Held'
    <3>1. PICK r : r = [Idle EXCEPT !.op = "update", !.pc = "delete", !.new = Rows(draft, used)]
      OBVIOUS
    <3>2. r.pc # "idle"
      BY <3>1 DEF Idle
    <3> QED
      BY <1>5, <2>3, <3>1, <3>2 DEF Update
  <2>4. ASSUME NEW delivery \in Deliveries, Receive(t, delivery)
        PROVE  Held'
    <3>1. PICK r : r = [Idle EXCEPT !.op = "receive", !.pc = "line", !.todo = delivery]
      OBVIOUS
    <3>2. r.pc # "idle"
      BY <3>1 DEF Idle
    <3> QED
      BY <1>5, <2>4, <3>1, <3>2 DEF Receive
  <2>5. req[t] \in Request
    BY <1>1
  <2>6. CASE UpdateSees(t) \/ UpdateDeletes(t) \/ ReceiveCheck(t)
    <3>1. req'[t].pc # "idle" /\ \A u \in Threads \ {t} : req'[u] = req[u]
      BY <1>1, <2>5, <2>6 DEF UpdateSees, UpdateDeletes, ReceiveCheck, Request
    <3>2. /\ \A l \in LineIds : lineLock'[l] \in {t, lineLock[l]}
          /\ prodLock' = prodLock
      BY <2>6 DEF UpdateSees, UpdateDeletes, ReceiveCheck
    <3> QED
      BY <1>3, <3>1, <3>2
  <2>7. CASE ReceiveLine(t)
    <3>1. CASE Rollback(t)
      BY <1>4, <3>1 DEF Rollback
    <3>2. ASSUME ~Rollback(t) PROVE Held'
      <4>0. PICK n \in LineIds :
                req' = [req EXCEPT
                          ![t].pc = "product",
                          ![t].lines[n] = [SeenLine(t, n) EXCEPT !.received = @ + Head(req[t].todo).qty],
                          ![t].booked[n] = @ + Head(req[t].todo).qty]
        BY <2>7, <3>2 DEF ReceiveLine, LinesOf, Present
      <4>1. req'[t].pc = "product" /\ \A u \in Threads \ {t} : req'[u] = req[u]
        BY <1>1, <2>5, <4>0 DEF Request
      <4>2. /\ \A l \in LineIds : lineLock'[l] \in {t, lineLock[l]}
            /\ prodLock' = prodLock
        BY <1>1, <2>7, <3>2 DEF ReceiveLine, LinesOf, Present
      <4> QED
        BY <1>3, <4>1, <4>2
    <3> QED
      BY <3>1, <3>2
  <2>8. CASE ReceiveProduct(t)
    <3>1. CASE Rollback(t)
      BY <1>4, <3>1 DEF Rollback
    <3>2. ASSUME ~Rollback(t) PROVE Held'
      <4>1. req'[t].pc = NextStage(req[t].todo) /\ \A u \in Threads \ {t} : req'[u] = req[u]
        BY <1>1, <2>5, <2>8, <3>2 DEF ReceiveProduct, Request
      <4>2. /\ \A p \in Products : prodLock'[p] \in {t, prodLock[p]}
            /\ lineLock' = lineLock
        BY <1>1, <2>8, <3>2 DEF ReceiveProduct
      <4>3. req'[t].pc # "idle"
        BY <4>1 DEF NextStage
      <4> QED
        BY <1>3, <4>1, <4>2, <4>3
    <3> QED
      BY <3>1, <3>2
  <2>9. CASE Commit(t) \/ Abort(t)
    BY <1>4, <2>9 DEF Commit, Abort, Rollback
  <2> QED
    BY <2>1, <2>2, <2>3, <2>4, <2>6, <2>7, <2>8, <2>9 DEF Step
<1>7. CASE UNCHANGED vars
  BY <1>7 DEF vars, Held
<1> QED
  BY <1>6, <1>7

LEMMA OrderGoesOnOrWaits ==
  ASSUME PoInv, Held, NEW t \in Threads, req[t].pc # "idle", ~CanGoOn(t)
  PROVE  \E u \in Threads : req[u].pc # "idle" /\ <<t, u>> \in Waiting
<1>1. /\ req[t] \in Request
      /\ lineLock \in [LineIds -> Threads \union {None}]
      /\ prodLock \in [Products -> Threads \union {None}]
  BY DEF PoInv, PoTables
<1>2. req[t].pc \in {"lock", "line", "product"}
  BY <1>1 DEF CanGoOn, Request
<1>3. SUFFICES \E u \in Threads : WaitsFor(t, u) /\ req[u].pc # "idle"
  BY DEF Waiting
<1>4. CASE req[t].pc = "lock"
  <2>1. PICK l \in req[t].deleted : ~Free(lineLock[l], t)
    BY <1>4 DEF CanGoOn
  <2>2. l \in LineIds
    BY <1>1 DEF Request
  <2>3. lineLock[l] \in Threads
    BY <1>1, <2>1, <2>2 DEF Free
  <2>4. WaitsFor(t, lineLock[l])
    BY <1>4, <2>1 DEF WaitsFor
  <2> QED
    BY <2>2, <2>3, <2>4 DEF Held
<1>5. CASE req[t].pc = "line"
  <2>1. PICK p : p = Head(req[t].todo).product
    OBVIOUS
  <2>2. LinesOf(p) # {} /\ \A l \in LinesOf(p) : ~Free(lineLock[l], t)
    BY <1>5, <2>1 DEF CanGoOn
  <2>3. PICK l \in LinesOf(p) : ~Free(lineLock[l], t)
    BY <2>2
  <2>4. l \in LineIds
    BY DEF LinesOf, Present
  <2>5. lineLock[l] \in Threads
    BY <1>1, <2>3, <2>4 DEF Free
  <2>6. WaitsFor(t, lineLock[l])
    BY <1>5, <2>1, <2>2, <2>3 DEF WaitsFor
  <2> QED
    BY <2>4, <2>5, <2>6 DEF Held
<1>6. CASE req[t].pc = "product"
  <2>1. PICK p : p = Head(req[t].todo).product
    OBVIOUS
  <2>2. p \in Products /\ ~Free(prodLock[p], t)
    BY <1>6, <2>1 DEF CanGoOn
  <2>3. prodLock[p] \in Threads
    BY <1>1, <2>2 DEF Free
  <2>4. WaitsFor(t, prodLock[p])
    BY <1>6, <2>1, <2>2 DEF WaitsFor
  <2> QED
    BY <2>2, <2>3, <2>4 DEF Held
<1> QED
  BY <1>2, <1>4, <1>5, <1>6

LEMMA OrdersMove == PoInv /\ Held => NobodyIsStuck
<1> SUFFICES ASSUME PoInv, Held, NEW t \in Threads, req[t].pc # "idle"
             PROVE  HasWayOut(t, {u \in Threads : CanGoOn(u) \/ Deadlocked(u)}, Waiting, Threads)
  BY DEF NobodyIsStuck
<1>1. PICK busy : busy = {u \in Threads : req[u].pc # "idle"}
  OBVIOUS
<1>2. PICK M : M = {u \in Threads : CanGoOn(u) \/ Deadlocked(u)}
  OBVIOUS
<1>3. \A s \in busy : s \in M \/ \E u \in busy : <<s, u>> \in Waiting
  BY <1>1, <1>2, OrderGoesOnOrWaits
<1>4. \A s \in busy : OnCycle(s, Waiting, Threads) => s \in M
  BY <1>1, <1>2 DEF Deadlocked
<1>5. IsFiniteSet(Threads) /\ Waiting \in SUBSET (Threads \X Threads)
  BY OrdersAssumption DEF Waiting
<1>6. t \in busy /\ busy \in SUBSET Threads
  BY <1>1
<1>7. HasWayOut(t, M, Waiting, Threads)
  BY <1>3, <1>4, <1>5, <1>6, EveryoneHasWayOut
<1> QED
  BY <1>2, <1>7

\* What a request on an order has still to do: each item its line and its product, then the check, the commit.
ToDo(r) ==
  IF r.pc = "idle" THEN 0
  ELSE IF r.pc = "commit" THEN 1
  ELSE IF r.pc \in {"check", "lock"} THEN 2
  ELSE IF r.pc = "delete" THEN 3
  ELSE 2 * Len(r.todo) + (IF r.pc = "line" THEN 2 ELSE 1)

\* A request that moves has less to do.
Shortens ==
  \A t \in Threads :
    req[t].pc # "idle" => req'[t] = req[t] \/ (ToDo(req'[t]) \in Nat /\ ToDo(req'[t]) < ToDo(req[t]))

LEMMA ToDoIs ==
  ASSUME NEW r \in Request, r.pc # "idle", Placed(r)
  PROVE  /\ ToDo(r) \in Nat /\ ToDo(r) > 0
         /\ r.pc = "commit" => ToDo(r) = 1
         /\ r.pc \in {"check", "lock"} => ToDo(r) = 2
         /\ r.pc = "delete" => ToDo(r) = 3
         /\ r.pc = "line" => ToDo(r) = 2 * Len(r.todo) + 2
         /\ r.pc = "product" => ToDo(r) = 2 * Len(r.todo) + 1
         /\ r.pc \in {"line", "product"} =>
              Len(r.todo) \in Nat /\ Len(r.todo) > 0 /\ Len(Tail(r.todo)) = Len(r.todo) - 1
<1>1. Len(r.todo) \in Nat /\ r.todo \in Seq(Delivered)
  BY DEF Request
<1>2. r.pc \in {"line", "product"} => r.todo # <<>>
  BY DEF Placed
<1>3. r.pc \in {"delete", "lock", "line", "product", "check", "commit"}
  BY DEF Request
<1>4. ASSUME r.pc \in {"line", "product"}
      PROVE  Len(r.todo) > 0 /\ Len(Tail(r.todo)) = Len(r.todo) - 1
  <2>1. PICK q \in Seq(Delivered) : q = r.todo
    BY <1>1
  <2>2. q # <<>>
    BY <1>2, <1>4, <2>1
  <2>3. Len(q) > 0 /\ Len(Tail(q)) = Len(q) - 1
    BY <2>2
  <2> QED
    BY <2>1, <2>3
<1>5. /\ r.pc = "commit" => ToDo(r) = 1
      /\ r.pc \in {"check", "lock"} => ToDo(r) = 2
      /\ r.pc = "delete" => ToDo(r) = 3
      /\ r.pc = "line" => ToDo(r) = 2 * Len(r.todo) + 2
      /\ r.pc = "product" => ToDo(r) = 2 * Len(r.todo) + 1
  BY DEF ToDo
<1>6. ToDo(r) \in Nat /\ ToDo(r) > 0
  BY <1>1, <1>3, <1>5
<1> QED
  BY <1>1, <1>4, <1>5, <1>6

LEMMA OrdersShorten ==
  ASSUME PoInv, [Next]_vars
  PROVE  Shortens
<1> SUFFICES ASSUME NEW t \in Threads, req[t].pc # "idle"
             PROVE  req'[t] = req[t] \/ (ToDo(req'[t]) \in Nat /\ ToDo(req'[t]) < ToDo(req[t]))
  BY DEF Shortens
<1>1. /\ req \in [Threads -> Request] /\ DOMAIN req = Threads
      /\ req[t] \in Request /\ Placed(req[t])
  BY DEF PoInv
<1>2. ASSUME EndSession(t) PROVE ToDo(req'[t]) \in Nat /\ ToDo(req'[t]) < ToDo(req[t])
  <2>1. req'[t] = Idle /\ ToDo(Idle) = 0
    BY <1>1, <1>2 DEF EndSession, Idle, ToDo
  <2> QED
    BY <1>1, <2>1, ToDoIs
<1>3. ASSUME NEW u \in Threads, u # t, EndSession(u) PROVE req'[t] = req[t]
  BY <1>1, <1>3 DEF EndSession
<1>4. ASSUME NEW u \in Threads, NEW r, Begin(u, r) PROVE req'[t] = req[t]
  BY <1>1, <1>4 DEF Begin
<1>5. CASE UNCHANGED vars
  BY <1>5 DEF vars
<1>6. CASE Next
  <2>1. PICK u \in Threads :
             \/ Send(u) \/ Confirm(u) \/ Cancel(u)
             \/ \E draft \in Drafts : Update(u, draft)
             \/ \E delivery \in Deliveries : Receive(u, delivery)
             \/ Step(u) \/ Abort(u)
    BY <1>6 DEF Next
  <2>2. ASSUME NEW r, req' = [req EXCEPT ![u] = r], u # t PROVE req'[t] = req[t]
    BY <1>1, <2>2
  <2>3. CASE \/ Send(u) \/ Confirm(u) \/ Cancel(u)
             \/ \E draft \in Drafts : Update(u, draft)
             \/ \E delivery \in Deliveries : Receive(u, delivery)
    <3>1. \E r : Begin(u, r)
      BY <2>3 DEF Send, Confirm, Cancel, Update, Receive
    <3> QED
      BY <1>4, <3>1
  <2>4. CASE Commit(u) \/ Abort(u)
    BY <1>2, <1>3, <2>4 DEF Commit, Abort, Rollback
  <2>5. CASE UpdateSees(u) \/ UpdateDeletes(u) \/ ReceiveCheck(u)
    <3>1. CASE u # t
      BY <1>1, <2>5, <3>1 DEF UpdateSees, UpdateDeletes, ReceiveCheck
    <3>2. CASE u = t
      <4>1. \/ req[t].pc = "delete" /\ req'[t].pc = "lock"
            \/ req[t].pc \in {"lock", "check"} /\ req'[t].pc = "commit"
        BY <1>1, <2>5, <3>2 DEF UpdateSees, UpdateDeletes, ReceiveCheck, Request
      <4>2. ToDo(req'[t]) = IF req'[t].pc = "lock" THEN 2 ELSE 1
        BY <4>1 DEF ToDo
      <4> QED
        BY <1>1, <4>1, <4>2, ToDoIs
    <3> QED
      BY <3>1, <3>2
  <2>6. CASE ReceiveLine(u)
    <3>1. CASE Rollback(u)
      BY <1>2, <1>3, <3>1 DEF Rollback
    <3>2. CASE ~Rollback(u)
      <4>1. req[u].pc = "line"
        BY <2>6 DEF ReceiveLine
      <4>2. PICK n \in LineIds :
                req' = [req EXCEPT
                          ![u].pc = "product",
                          ![u].lines[n] = [SeenLine(u, n) EXCEPT !.received = @ + Head(req[u].todo).qty],
                          ![u].booked[n] = @ + Head(req[u].todo).qty]
        BY <2>6, <3>2 DEF ReceiveLine, LinesOf, Present
      <4>3. CASE u # t
        BY <1>1, <4>2, <4>3
      <4>4. CASE u = t
        <5>1. req'[t].pc = "product" /\ req'[t].todo = req[t].todo
          BY <1>1, <4>2, <4>4 DEF Request
        <5>2. ToDo(req'[t]) = 2 * Len(req[t].todo) + 1
          BY <5>1 DEF ToDo
        <5> QED
          BY <1>1, <4>1, <4>4, <5>2, ToDoIs
      <4> QED
        BY <4>3, <4>4
    <3> QED
      BY <3>1, <3>2
  <2>7. CASE ReceiveProduct(u)
    <3>1. CASE Rollback(u)
      BY <1>2, <1>3, <3>1 DEF Rollback
    <3>2. CASE ~Rollback(u)
      <4>1. /\ req[u].pc = "product"
            /\ req' = [req EXCEPT
                         ![u].stock[Head(req[u].todo).product] =
                              SeenStock(u, Head(req[u].todo).product) + Head(req[u].todo).qty,
                         ![u].todo = Tail(@),
                         ![u].pc = NextStage(req[u].todo)]
        BY <2>7, <3>2 DEF ReceiveProduct
      <4>2. CASE u # t
        BY <1>1, <4>1, <4>2
      <4>3. CASE u = t
        <5>1. req'[t].pc = NextStage(req[t].todo) /\ req'[t].todo = Tail(req[t].todo)
          BY <1>1, <4>1, <4>3 DEF Request
        <5>2. /\ Len(req[t].todo) \in Nat /\ Len(req[t].todo) > 0
              /\ Len(Tail(req[t].todo)) = Len(req[t].todo) - 1
              /\ ToDo(req[t]) = 2 * Len(req[t].todo) + 1 /\ ToDo(req[t]) \in Nat
          BY <1>1, <4>1, <4>3, ToDoIs
        <5>3. ToDo(req'[t]) = 2 \/ ToDo(req'[t]) = 2 * Len(Tail(req[t].todo)) + 2
          BY <5>1 DEF ToDo, NextStage
        <5> QED
          BY <5>2, <5>3
      <4> QED
        BY <4>2, <4>3
    <3> QED
      BY <3>1, <3>2
  <2> QED
    BY <2>1, <2>3, <2>4, <2>5, <2>6, <2>7 DEF Step
<1> QED
  BY <1>5, <1>6

(* A request on an order that moves has less to do, whatever is locked, rolled back or      *)
(* committed around it: with StockroomMoves, what a request waits for comes to an end       *)
(* (the loop of receive_purchase_order, the DELETE of update_purchase_order).               *)
THEOREM OrdersEndUp == Spec => [][Shortens]_vars
<1>1. PoInv /\ [Next]_vars => [Shortens]_vars
  BY OrdersShorten
<1>2. Init => PoInv
  BY PoInit
<1>3. PoInv /\ [Next]_vars => PoInv'
  BY PoStep
<1> QED
  BY <1>1, <1>2, <1>3, PTL DEF Spec

\* The inventory: who has flushed a row is at work, and whose rows are free can flush.
LEMMA ShopGoesOnOrWaits ==
  ASSUME ShopInv, Resting, NEW s \in Shop!Busy, ~Shop!CanGoOn(s)
  PROVE  \E u \in Shop!Busy : <<s, u>> \in Shop!Waiting
<1>1. s \in Threads /\ sess[s].op # "none" /\ sess[s] \in ShopSession
  BY DEF Shop!Busy, ShopInv
<1>2. sess[s].op \in {"warn", "audit", "commit"}
  BY <1>1 DEF ShopSession
<1>3. ~Shop!CanFlush(s)
  BY <1>2 DEF Shop!CanGoOn, Shop!Ready
<1>4. PICK u \in Threads : Shop!Blocks(u, s)
  BY <1>3 DEF Shop!CanFlush
<1>5. sess[u].op # "none"
  <2>1. sess[u].held # {}
    BY <1>4 DEF Shop!Blocks
  <2>2. PICK n : n = Shop!Idle
    OBVIOUS
  <2>3. n.held = {}
    BY <2>2, ShopIdleIs
  <2> QED
    BY <2>1, <2>2, <2>3 DEF Resting
<1> QED
  BY <1>1, <1>4, <1>5 DEF Shop!Waiting, Shop!Busy

LEMMA ShopMoves == ShopInv /\ Resting => Shop!NobodyIsStuck
<1> SUFFICES ASSUME ShopInv, Resting, NEW t \in Shop!Busy
             PROVE  Shop!HasWayOut(t, {u \in Threads : Shop!CanGoOn(u) \/ Shop!Deadlocked(u)},
                                   Shop!Waiting, Threads)
  BY DEF Shop!NobodyIsStuck
<1>1. PICK busy : busy = Shop!Busy
  OBVIOUS
<1>2. PICK M : M = {u \in Threads : Shop!CanGoOn(u) \/ Shop!Deadlocked(u)}
  OBVIOUS
<1>3. PICK W : W = Shop!Waiting
  OBVIOUS
<1>4. t \in busy /\ busy \in SUBSET Threads
  BY <1>1 DEF Shop!Busy
<1>5. \A s \in busy : s \in M \/ \E u \in busy : <<s, u>> \in W
  BY <1>1, <1>2, <1>3, <1>4, ShopGoesOnOrWaits
<1>6. \A s \in busy : OnCycle(s, W, Threads) => s \in M
  BY <1>2, <1>3, <1>4, WaitsAreWaits DEF Shop!Deadlocked
<1>7. IsFiniteSet(Threads) /\ W \in SUBSET (Threads \X Threads)
  BY <1>3, ShopFinite DEF Shop!Waiting
<1>8. HasWayOut(t, M, W, Threads)
  BY <1>4, <1>5, <1>6, <1>7, EveryoneHasWayOut
<1> QED
  BY <1>2, <1>3, <1>8, WaitsAreWaits

\* Invoices: which session is at what, what a task holds and deletes, and that the items it
\* is to insert are new.
Apt(s, r) ==
  /\ r.op = "none" => r.held = {}
  /\ r.op \in {"delay", "confirm"} => s \in Threads
  /\ r.op \in {"start", "ocr", "read"} => s \in Workers
  /\ r.op # "confirm" => r.body = <<>>
  /\ r.op = "start" => r.job \in r.dirty
  /\ r.op \in {"ocr", "read"} => r.job \in r.held
  /\ r.op \in {"dismiss", "failing"} => r.dirty \subseteq Jobs
  /\ r.op = "read" => r.dirty \subseteq Ocr!RowsOf(r.job) /\ r.gone = r.dirty
  /\ r.op # "read" => r.gone = {} /\ r.new = {}
  /\ \A i \in r.new : i \in drawn /\ items[i] = None

AtWork ==
  /\ \A s \in Ocr!Sessions : Apt(s, reading[s])
  /\ \A s, u \in Ocr!Sessions : s # u => reading[s].new \intersect reading[u].new = {}
  /\ \A i \in ItemIds : items[i] # None => i \in drawn

LEMMA IdleApt ==
  ASSUME NEW s, NEW r, r = Ocr!Idle
  PROVE  Apt(s, r) /\ Apt(s, r)' /\ r.new = {}
<1>1. r.op = "none" /\ r.held = {} /\ r.gone = {} /\ r.new = {} /\ r.body = <<>>
  BY DEF Ocr!Idle
<1> QED
  BY <1>1 DEF Apt

LEMMA AptStart == Ocr!Init => AtWork
<1> SUFFICES ASSUME Ocr!Init PROVE AtWork
  OBVIOUS
<1>1. PICK n : n = Ocr!Idle
  OBVIOUS
<1>2. \A s \in Ocr!Sessions : reading[s] = n
  BY <1>1 DEF Ocr!Init
<1>3. n.new = {} /\ \A s : Apt(s, n)
  BY <1>1, IdleApt
<1> QED
  BY <1>2, <1>3 DEF AtWork, Ocr!Init

\* A step that writes no item.
LEMMA AptBecomes ==
  ASSUME OcrInv, AtWork, NEW s \in Ocr!Sessions, NEW r, reading' = [reading EXCEPT ![s] = r],
         UNCHANGED items, drawn \subseteq drawn', Apt(s, r)',
         \A u \in Ocr!Sessions \ {s} : r.new \intersect reading[u].new = {}
  PROVE  AtWork'
<1>1. \A u \in Ocr!Sessions : reading'[u] = IF u = s THEN r ELSE reading[u]
  BY DEF OcrInv
<1>2. \A u \in Ocr!Sessions \ {s} : Apt(u, reading[u])'
  <2>1. SUFFICES ASSUME NEW u \in Ocr!Sessions \ {s}
                 PROVE  Apt(u, reading[u])'
    OBVIOUS
  <2>2. PICK q : q = reading[u]
    OBVIOUS
  <2>3. Apt(u, q) /\ reading'[u] = q
    BY <1>1, <2>2 DEF AtWork
  <2>4. Apt(u, q)'
    BY <2>3 DEF Apt, Ocr!RowsOf
  <2> QED
    BY <2>3, <2>4 DEF Apt
<1>3. Apt(s, reading[s])'
  <2>1. reading'[s] = r
    BY <1>1
  <2> QED
    BY <2>1 DEF Apt
<1>4. \A u, v \in Ocr!Sessions : u # v => reading'[u].new \intersect reading'[v].new = {}
  BY <1>1 DEF AtWork
<1>5. \A i \in ItemIds : items'[i] # None => i \in drawn'
  BY DEF AtWork
<1> QED
  BY <1>2, <1>3, <1>4, <1>5 DEF AtWork

\* Most steps are of a session with nothing to insert.
LEMMA AptAnew ==
  ASSUME OcrInv, AtWork, NEW s \in Ocr!Sessions, NEW r, Ocr!Become(s, r),
         UNCHANGED <<items, drawn>>, Apt(s, r), r.new = {}
  PROVE  AtWork'
<1>1. Apt(s, r)'
  BY DEF Apt, Ocr!RowsOf
<1> QED
  BY <1>1, AptBecomes DEF Ocr!Become

LEMMA BeginsApt ==
  ASSUME OcrInv, AtWork,
         \/ \E t \in Threads, j \in Jobs :
              Ocr!Upload(t, j) \/ Ocr!Dismiss(t, j) \/ \E body \in Bodies : Ocr!Confirm(t, j, body)
         \/ \E w \in Workers, j \in Jobs : Ocr!Call(w, j)
  PROVE  AtWork'
<1>1. PICK o : o = Ocr!Idle
  OBVIOUS
<1>2. o \in OcrSession /\ o.held = {} /\ o.gone = {} /\ o.new = {} /\ o.body = <<>>
  BY <1>1, OcrIdleIs DEF Ocr!Idle
<1>3. ASSUME NEW t \in Threads, NEW j \in Jobs, Ocr!Upload(t, j)
      PROVE  AtWork'
  <2>1. PICK r : r = [o EXCEPT !.op = "delay", !.job = j]
    OBVIOUS
  <2>2. r.op = "delay" /\ r.body = <<>> /\ r.gone = {} /\ r.new = {}
    BY <1>2, <2>1 DEF OcrSession
  <2>3. Apt(t, r)
    BY <2>2 DEF Apt
  <2>4. t \in Ocr!Sessions /\ Ocr!Become(t, r) /\ UNCHANGED <<items, drawn>>
    BY <1>1, <1>3, <2>1 DEF Ocr!Upload, Ocr!Sessions
  <2> QED
    BY <2>2, <2>3, <2>4, AptAnew
<1>4. ASSUME NEW t \in Threads, NEW j \in Jobs, Ocr!Dismiss(t, j)
      PROVE  AtWork'
  <2>1. PICK r : r = [o EXCEPT !.op = "dismiss", !.job = j, !.write = Ocr!Dismissed, !.dirty = {j}]
    OBVIOUS
  <2>2. r.op = "dismiss" /\ r.body = <<>> /\ r.gone = {} /\ r.new = {} /\ r.dirty = {j}
    BY <1>2, <2>1 DEF OcrSession
  <2>3. Apt(t, r)
    BY <2>2 DEF Apt
  <2>4. t \in Ocr!Sessions /\ Ocr!Become(t, r) /\ UNCHANGED <<items, drawn>>
    BY <1>1, <1>4, <2>1 DEF Ocr!Dismiss, Ocr!Sessions, Ocr!committed
  <2> QED
    BY <2>2, <2>3, <2>4, AptAnew
<1>5. ASSUME NEW t \in Threads, NEW j \in Jobs, NEW body \in Bodies, Ocr!Confirm(t, j, body)
      PROVE  AtWork'
  <2>1. PICK r : r = [o EXCEPT !.op = "confirm", !.job = j, !.write = "APPLIED", !.body = body,
                               !.dirty = IF body = <<>> THEN {j} ELSE {}]
    OBVIOUS
  <2>2. r.op = "confirm" /\ r.gone = {} /\ r.new = {}
    BY <1>2, <2>1 DEF OcrSession
  <2>3. Apt(t, r)
    BY <2>2 DEF Apt
  <2>4. t \in Ocr!Sessions /\ Ocr!Become(t, r) /\ UNCHANGED <<items, drawn>>
    BY <1>1, <1>5, <2>1 DEF Ocr!Confirm, Ocr!Sessions, Ocr!committed
  <2> QED
    BY <2>2, <2>3, <2>4, AptAnew
<1>6. ASSUME NEW w \in Workers, NEW j \in Jobs, Ocr!Call(w, j)
      PROVE  AtWork'
  <2>1. PICK r : r = [o EXCEPT !.op = "start", !.job = j, !.write = "PROCESSING", !.dirty = {j}]
    OBVIOUS
  <2>2. /\ r.op = "start" /\ r.body = <<>> /\ r.gone = {} /\ r.new = {}
        /\ r.job = j /\ r.dirty = {j}
    BY <1>2, <2>1 DEF OcrSession
  <2>3. Apt(w, r)
    BY <2>2 DEF Apt
  <2>4. w \in Ocr!Sessions /\ Ocr!Become(w, r) /\ UNCHANGED <<items, drawn>>
    BY <1>1, <1>6, <2>1 DEF Ocr!Call, Ocr!Begin, Ocr!Sessions, Ocr!committed
  <2> QED
    BY <2>2, <2>3, <2>4, AptAnew
<1> QED
  BY <1>3, <1>4, <1>5, <1>6

LEMMA EndsApt ==
  ASSUME OcrInv, AtWork, NEW s \in Ocr!Sessions,
         \/ Ocr!Delay(s) \/ Ocr!Crash(s)
         \/ Ocr!Raise(s) /\ UNCHANGED <<Ocr!committed, drawn>>
  PROVE  AtWork'
<1>1. PICK o : o = Ocr!Idle
  OBVIOUS
<1>2. /\ o \in OcrSession /\ o.held = {} /\ o.gone = {} /\ o.new = {} /\ o.body = <<>>
      /\ Apt(s, o)
  BY <1>1, OcrIdleIs, IdleApt DEF Ocr!Idle
<1>3. UNCHANGED <<items, drawn>>
  BY DEF Ocr!Delay, Ocr!Crash, Ocr!committed
<1>4. CASE Ocr!Become(s, o)
  BY <1>2, <1>3, <1>4, AptAnew
<1>5. CASE Ocr!Raise(s) /\ reading[s].op \in {"ocr", "read"}
  <2>1. PICK r : r = [o EXCEPT !.op = "failing", !.job = reading[s].job,
                               !.write = "FAILED", !.dirty = {reading[s].job}]
    OBVIOUS
  <2>2. /\ r.op = "failing" /\ r.body = <<>> /\ r.gone = {} /\ r.new = {}
        /\ r.dirty = {reading[s].job}
    BY <1>2, <2>1 DEF OcrSession
  <2>3. reading[s].job \in Jobs
    BY <1>5 DEF OcrInv, Working
  <2>4. Apt(s, r)
    BY <2>2, <2>3 DEF Apt
  <2>5. Ocr!Become(s, r)
    BY <1>1, <1>5, <2>1 DEF Ocr!Raise
  <2> QED
    BY <1>3, <2>2, <2>4, <2>5, AptAnew
<1> QED
  BY <1>1, <1>4, <1>5 DEF Ocr!Delay, Ocr!Crash, Ocr!Raise

LEMMA StartsApt ==
  ASSUME OcrInv, AtWork, NEW w \in Workers, Ocr!Start(w)
  PROVE  AtWork'
<1>1. w \in Ocr!Sessions /\ Ocr!CanFlush(w) /\ reading[w].op = "start"
  BY DEF Ocr!Start, Ocr!CanStart, Ocr!Sessions
<1>2. PICK f : f = Ocr!Flushed(reading[w])
  OBVIOUS
<1>3. PICK r : r = [f EXCEPT !.op = "ocr"]
  OBVIOUS
<1>4. PICK o : o = reading[w]
  OBVIOUS
<1>5. /\ f \in OcrSession /\ f.held = o.held \union o.dirty
      /\ f.op = "start" /\ f.body = o.body /\ f.gone = o.gone /\ f.new = o.new /\ f.job = o.job
  BY <1>1, <1>2, <1>4, OcrFlush DEF Ocr!Repeats
<1>6. /\ r.op = "ocr" /\ r.held = f.held /\ r.body = f.body /\ r.gone = f.gone /\ r.new = f.new
      /\ r.job = f.job
  BY <1>3, <1>5 DEF OcrSession
<1>7. Apt(w, o) /\ o.op = "start"
  BY <1>1, <1>4 DEF AtWork
<1>8. Apt(w, r) /\ r.new = {}
  BY <1>5, <1>6, <1>7 DEF Apt
<1>9. Ocr!Become(w, r) /\ UNCHANGED <<items, drawn>>
  BY <1>2, <1>3 DEF Ocr!Start, Ocr!committed
<1> QED
  BY <1>1, <1>8, <1>9, AptAnew

LEMMA RecognisesApt ==
  ASSUME OcrInv, AtWork, NEW w \in Workers, Ocr!Recognise(w)
  PROVE  AtWork'
<1>1. w \in Ocr!Sessions /\ reading[w].op = "ocr" /\ UNCHANGED Ocr!committed
  BY DEF Ocr!Recognise, Ocr!Sessions
<1>2. CASE Ocr!Raise(w) /\ UNCHANGED drawn
  BY <1>1, <1>2, EndsApt
<1>3. ASSUME NEW found \in SUBSET (ItemIds \ drawn), drawn' = drawn \union found,
             Ocr!Become(w, [reading[w] EXCEPT !.op = "read", !.write = "REVIEW",
                              !.gone = Ocr!RowsOf(reading[w].job), !.new = found,
                              !.dirty = Ocr!RowsOf(reading[w].job)])
      PROVE  AtWork'
  <2>1. PICK o : o = reading[w]
    OBVIOUS
  <2>2. PICK rows : rows = Ocr!RowsOf(o.job)
    OBVIOUS
  <2>3. PICK r : r = [o EXCEPT !.op = "read", !.write = "REVIEW", !.gone = rows, !.new = found,
                               !.dirty = rows]
    OBVIOUS
  <2>4. o \in OcrSession /\ o.op = "ocr" /\ Apt(w, o)
    BY <1>1, <2>1 DEF OcrInv, AtWork
  <2>5. /\ r.op = "read" /\ r.gone = rows /\ r.dirty = rows /\ r.new = found
        /\ r.job = o.job /\ r.held = o.held /\ r.body = o.body
    BY <2>3, <2>4 DEF OcrSession
  <2>6. UNCHANGED items
    BY <1>1 DEF Ocr!committed
  <2>7. \A i \in found : i \in drawn' /\ items[i] = None
    BY <1>3 DEF AtWork
  <2>8. rows = Ocr!RowsOf(o.job)'
    BY <2>2, <2>6 DEF Ocr!RowsOf
  <2>9. Apt(w, r)'
    BY <2>4, <2>5, <2>6, <2>7, <2>8 DEF Apt
  <2>10. \A u \in Ocr!Sessions \ {w} : r.new \intersect reading[u].new = {}
    <3>1. \A u \in Ocr!Sessions : reading[u].new \subseteq drawn
      BY DEF AtWork, Apt
    <3> QED
      BY <1>3, <2>5, <3>1
  <2>11. reading' = [reading EXCEPT ![w] = r]
    BY <1>3, <2>1, <2>2, <2>3 DEF Ocr!Become
  <2> QED
    BY <1>1, <1>3, <2>6, <2>9, <2>10, <2>11, AptBecomes
<1> QED
  BY <1>2, <1>3 DEF Ocr!Recognise

LEMMA ItemsApt ==
  ASSUME OcrInv, AtWork, NEW t \in Threads, Ocr!ConfirmItem(t)
  PROVE  AtWork'
<1>1. t \in Ocr!Sessions /\ Ocr!CanFlush(t) /\ reading[t].op = "confirm" /\ reading[t].body # <<>>
  BY DEF Ocr!ConfirmItem, Ocr!CanConfirmItem, Ocr!Sessions
<1>2. PICK e : e = Head(reading[t].body)
  OBVIOUS
<1>3. UNCHANGED <<Ocr!committed, drawn>>
  BY DEF Ocr!ConfirmItem
<1>4. Ocr!Raise(t) \/ (e.product \in Products /\ Ocr!Become(t, Ocr!Booked(reading[t], e)))
  BY <1>2 DEF Ocr!ConfirmItem, Ocr!CanConfirmItem
<1>5. CASE Ocr!Raise(t)
  BY <1>1, <1>3, <1>5, EndsApt
<1>6. CASE e.product \in Products /\ Ocr!Become(t, Ocr!Booked(reading[t], e))
  <2>1. PICK r : r = Ocr!Booked(reading[t], e)
    OBVIOUS
  <2>2. r.op = "confirm" /\ r.gone = reading[t].gone /\ r.new = reading[t].new
    BY <1>1, <1>2, <1>6, <2>1, OcrBooked
  <2>3. reading[t].gone = {} /\ reading[t].new = {}
    BY <1>1 DEF AtWork, Apt
  <2>4. Apt(t, r)
    BY <2>2, <2>3 DEF Apt
  <2>5. Ocr!Become(t, r) /\ UNCHANGED <<items, drawn>>
    BY <1>3, <1>6, <2>1 DEF Ocr!committed
  <2> QED
    BY <1>1, <2>2, <2>3, <2>4, <2>5, AptAnew
<1> QED
  BY <1>4, <1>5, <1>6

\* A task deletes only items of the job whose row it holds, and inserts its own.
LEMMA CommitsApt ==
  ASSUME OcrInv, AtWork, NEW s \in Ocr!Sessions, Ocr!Commit(s)
  PROVE  AtWork'
<1>1. PICK r : r = reading[s]
  OBVIOUS
<1>2. r \in OcrSession /\ Apt(s, r)
  BY <1>1 DEF OcrInv, AtWork
<1>3. PICK n : n = Ocr!Idle
  OBVIOUS
<1>4. \A u \in Ocr!Sessions : reading'[u] = IF u = s THEN n ELSE reading[u]
  BY <1>3 DEF Ocr!Commit, Ocr!Become, OcrInv
<1>5. drawn' = drawn
  BY DEF Ocr!Commit
<1>6. items \in [ItemIds -> Ocr!Item \union {None}]
  BY DEF OcrInv, OcrTables
<1>7. ASSUME NEW i \in ItemIds
      PROVE  /\ i \in r.gone => items'[i] = None
             /\ i \notin r.gone /\ i \in r.new => items'[i] # None
             /\ i \notin r.gone /\ i \notin r.new =>
                  /\ items'[i] = None <=> items[i] = None
                  /\ items[i] # None => items'[i].job = items[i].job
  <2>1. items'[i] = IF i \in r.gone THEN None
                    ELSE IF i \in r.new THEN [job |-> r.job, given |-> None]
                    ELSE IF r.given[i] # None /\ items[i] # None
                         THEN [items[i] EXCEPT !.given = r.given[i]]
                    ELSE items[i]
    BY <1>1 DEF Ocr!Commit
  <2>2. CASE i \in r.gone
    BY <2>1, <2>2
  <2>3. CASE i \notin r.gone /\ i \in r.new
    <3>1. r.job \in Jobs
      <4>1. r.op # "none"
        BY <1>1 DEF Ocr!Commit, Ocr!CanCommit
      <4> QED
        BY <1>1, <4>1 DEF OcrInv, Working
    <3>2. [job |-> r.job, given |-> None] \in Ocr!Item
      BY <3>1 DEF Ocr!Item
    <3> QED
      BY <2>1, <2>3, <3>2, OcrNone
  <2>4. CASE i \notin r.gone /\ i \notin r.new
    <3>1. CASE r.given[i] # None /\ items[i] # None
      <4>1. items[i] \in Ocr!Item /\ r.given[i] \in Ocr!Entry
        BY <1>2, <1>6, <3>1 DEF OcrSession
      <4>2. items'[i] = [items[i] EXCEPT !.given = r.given[i]]
        BY <2>1, <2>4, <3>1
      <4>3. items'[i] \in Ocr!Item /\ items'[i].job = items[i].job
        BY <4>1, <4>2 DEF Ocr!Item
      <4> QED
        BY <2>4, <3>1, <4>3, OcrNone
    <3>2. CASE ~(r.given[i] # None /\ items[i] # None)
      BY <2>1, <2>4, <3>2
    <3> QED
      BY <3>1, <3>2
  <2> QED
    BY <2>2, <2>3, <2>4
<1>8. \A i \in ItemIds : items'[i] # None => i \in drawn'
  BY <1>2, <1>5, <1>7 DEF Apt, AtWork
<1>9. n.new = {} /\ Apt(s, n)'
  BY <1>3, IdleApt
<1>10. ASSUME NEW u \in Ocr!Sessions, u # s
       PROVE  Apt(u, reading[u])'
  <2>1. PICK q : q = reading[u]
    OBVIOUS
  <2>2. reading'[u] = q /\ Apt(u, q) /\ q \in OcrSession
    BY <1>4, <1>10, <2>1 DEF AtWork, OcrInv
  <2>3. \A i \in q.new : i \in drawn' /\ items'[i] = None
    <3>1. q.new \intersect r.new = {} /\ q.new \subseteq ItemIds
      BY <1>1, <1>10, <2>1, <2>2 DEF AtWork, OcrSession
    <3> QED
      BY <1>5, <1>7, <2>2, <3>1 DEF Apt
  <2>4. ASSUME q.op = "read"
        PROVE  q.dirty \subseteq Ocr!RowsOf(q.job)'
    <3>1. q.dirty \subseteq Ocr!RowsOf(q.job) /\ q.job \in q.held
      BY <2>2, <2>4 DEF Apt
    <3>2. SUFFICES ASSUME NEW i \in q.dirty
                   PROVE  i \in ItemIds /\ items'[i] # None /\ items'[i].job = q.job
      BY DEF Ocr!RowsOf
    <3>3. i \in ItemIds /\ items[i] # None /\ items[i].job = q.job
      BY <3>1 DEF Ocr!RowsOf
    <3>4. i \notin r.new
      BY <1>2, <3>3 DEF Apt
    <3>5. i \notin r.gone
      <4>1. SUFFICES ASSUME i \in r.gone PROVE FALSE
        OBVIOUS
      <4>2. r.op = "read" /\ r.job \in r.held /\ r.gone \subseteq Ocr!RowsOf(r.job)
        BY <1>2, <4>1 DEF Apt
      <4>3. r.job = q.job
        BY <3>3, <4>1, <4>2 DEF Ocr!RowsOf
      <4>4. r.held \intersect q.held = {}
        BY <1>1, <1>10, <2>1 DEF OcrInv
      <4> QED
        BY <3>1, <4>2, <4>3, <4>4
    <3> QED
      BY <1>7, <3>3, <3>4, <3>5
  <2>5. Apt(u, q)'
    BY <2>2, <2>3, <2>4 DEF Apt
  <2> QED
    BY <2>2, <2>5 DEF Apt
<1>11. \A u \in Ocr!Sessions : Apt(u, reading[u])'
  <2>1. reading'[s] = n
    BY <1>4
  <2>2. Apt(s, reading[s])'
    BY <1>9, <2>1 DEF Apt
  <2> QED
    BY <1>10, <2>2
<1>12. \A u, v \in Ocr!Sessions : u # v => reading'[u].new \intersect reading'[v].new = {}
  BY <1>4, <1>9 DEF AtWork
<1> QED
  BY <1>8, <1>11, <1>12 DEF AtWork

LEMMA AptStep ==
  ASSUME OcrInv, AtWork, [Ocr!Next]_(Ocr!vars)
  PROVE  AtWork'
<1>1. ASSUME reading' = reading, items' = items, drawn' = drawn
      PROVE  AtWork'
  BY <1>1 DEF AtWork, Apt, Ocr!RowsOf
<1>2. ASSUME NEW w \in Workers, NEW m \in queue, Ocr!Take(w, m)
      PROVE  AtWork'
  BY <1>1, <1>2, OcrTake DEF Ocr!committed
<1>3. UNCHANGED Ocr!vars => AtWork'
  BY <1>1 DEF Ocr!vars
<1>4. Threads \subseteq Ocr!Sessions
  BY DEF Ocr!Sessions
<1> QED
  BY <1>2, <1>3, <1>4, OcrSteps, BeginsApt, EndsApt, StartsApt, RecognisesApt, ItemsApt, CommitsApt

LEMMA OcrGoesOnOrWaits ==
  ASSUME OcrInv, AtWork, NEW s \in Ocr!Sessions, reading[s].op # "none", ~Ocr!CanGoOn(s)
  PROVE  \E u \in Ocr!Sessions : reading[u].op # "none" /\ <<s, u>> \in Ocr!Waiting
<1>1. PICK r : r = reading[s]
  OBVIOUS
<1>2. r \in OcrSession /\ Apt(s, r)
  BY <1>1 DEF OcrInv, AtWork
<1>3. ~Ocr!CanFlush(s)
  <2>1. SUFFICES ASSUME Ocr!CanFlush(s) PROVE FALSE
    OBVIOUS
  <2>2. r.op \in {"delay", "start", "ocr", "read", "failing", "confirm", "dismiss"}
    BY <1>1, <1>2 DEF OcrSession
  <2>3. r.op \notin {"delay", "start", "ocr"}
    BY <1>1, <1>2, <2>1 DEF Apt, Ocr!CanGoOn, Ocr!CanStart
  <2>4. r.op # "confirm"
    BY <1>1, <1>2, <2>1 DEF Apt, Ocr!CanGoOn, Ocr!CanConfirmItem, Ocr!CanCommit, Ocr!CanFailStale
  <2>5. ~Ocr!Stale(s)
    <3>1. SUFFICES ASSUME NEW i \in r.dirty \intersect ItemIds PROVE items[i] # None
      BY <1>1 DEF Ocr!Stale
    <3>2. CASE r.op = "read"
      BY <1>2, <3>2 DEF Apt, Ocr!RowsOf
    <3>3. CASE r.op \in {"dismiss", "failing"}
      BY <1>2, <3>3, StockroomAssumption DEF Apt, Ocr!OcrAssumption
    <3> QED
      BY <2>2, <2>3, <2>4, <3>2, <3>3
  <2>6. r.body = <<>>
    BY <1>2, <2>4 DEF Apt
  <2> QED
    BY <1>1, <2>1, <2>2, <2>3, <2>4, <2>5, <2>6 DEF Ocr!CanGoOn, Ocr!CanCommit
<1>4. PICK u \in Ocr!Sessions : Ocr!Blocks(u, s)
  BY <1>3 DEF Ocr!CanFlush
<1>5. reading[u].held # {}
  BY <1>4 DEF Ocr!Blocks
<1>6. reading[u].op # "none"
  BY <1>5 DEF AtWork, Apt
<1> QED
  BY <1>4, <1>6 DEF Ocr!Waiting

LEMMA InvoicesMove == OcrInv /\ AtWork => Ocr!NobodyIsStuck
<1> SUFFICES ASSUME OcrInv, AtWork, NEW t \in Ocr!Sessions, reading[t].op # "none"
             PROVE  Ocr!HasWayOut(t, {u \in Ocr!Sessions : Ocr!CanGoOn(u) \/ Ocr!Deadlocked(u)},
                                  Ocr!Waiting, Ocr!Sessions)
  BY DEF Ocr!NobodyIsStuck
<1>1. PICK S : S = Ocr!Sessions
  OBVIOUS
<1>2. PICK busy : busy = {u \in S : reading[u].op # "none"}
  OBVIOUS
<1>3. PICK M : M = {u \in S : Ocr!CanGoOn(u) \/ Ocr!Deadlocked(u)}
  OBVIOUS
<1>4. PICK W : W = Ocr!Waiting
  OBVIOUS
<1>5. t \in busy /\ busy \in SUBSET S
  BY <1>1, <1>2
<1>6. \A s \in busy : s \in M \/ \E u \in busy : <<s, u>> \in W
  BY <1>1, <1>2, <1>3, <1>4, OcrGoesOnOrWaits
<1>7. \A s \in busy : OnCycle(s, W, S) => s \in M
  BY <1>1, <1>3, <1>4, <1>5, WaitsAreWaits DEF Ocr!Deadlocked
<1>8. IsFiniteSet(S) /\ W \in SUBSET (S \X S)
  <2>1. IsFiniteSet(Threads \union Workers)
    BY StockroomAssumption, Zenon DEF Ocr!OcrAssumption, Ocr!IsFiniteSet, IsFiniteSet
  <2> QED
    BY <1>1, <1>4, <2>1 DEF Ocr!Waiting, Ocr!Sessions
<1>9. HasWayOut(t, M, W, S)
  BY <1>5, <1>6, <1>7, <1>8, EveryoneHasWayOut
<1> QED
  BY <1>1, <1>3, <1>4, <1>9, WaitsAreWaits

-----------------------------------------------------------------------------
(* The three parts on the same threads: each behaviour of the stockroom is  *)
(* one of every part.                                                       *)

LEMMA PartsStart ==
  StockroomInit => /\ MCInit /\ Ocr!Init /\ ~jobsOverlapped
                   /\ Shop!Init /\ ~shopOverlapped
  BY DEF StockroomInit

LEMMA PartsStep ==
  ASSUME [StockroomNext]_<<part, vars, overlapped, jobVars, shopVars>>
  PROVE  /\ [MCNext]_<<vars, overlapped>>
         /\ [JobsNext]_<<Ocr!vars, jobsOverlapped>> /\ [Ocr!Next]_(Ocr!vars)
         /\ [ShopNext]_<<Shop!vars, shopOverlapped>> /\ [Shop!Next]_(Shop!vars)
<1>1. UNCHANGED jobVars => UNCHANGED <<Ocr!vars, jobsOverlapped>>
  BY DEF jobVars, Ocr!vars
<1>2. UNCHANGED shopVars => UNCHANGED <<Shop!vars, shopOverlapped>>
  BY DEF shopVars, Shop!vars
<1>3. Cardinality(Shop!Busy') = Shop!Cardinality(Shop!Busy')
  BY ShopCardinality
<1>4. CASE part = "orders" /\ MCNext /\ UNCHANGED <<jobVars, shopVars>>
  BY <1>1, <1>2, <1>4
<1>5. CASE /\ Ocr!Next
           /\ jobsOverlapped' = (jobsOverlapped \/ Cardinality(Reading') > 1)
           /\ UNCHANGED <<vars, overlapped, shopVars>>
  BY <1>2, <1>5 DEF JobsNext
<1>6. CASE /\ Shop!Next
           /\ shopOverlapped' = (shopOverlapped \/ Cardinality(Shop!Busy') > 1)
           /\ UNCHANGED <<vars, overlapped, jobVars>>
  BY <1>1, <1>3, <1>6 DEF ShopNext
<1>7. CASE UNCHANGED <<part, vars, overlapped, jobVars, shopVars>>
  BY <1>1, <1>2, <1>7
<1> QED
  BY <1>4, <1>5, <1>6, <1>7 DEF StockroomNext

LEMMA Parts ==
  StockroomSpec => /\ Spec /\ MCSpec /\ Ocr!Spec /\ Shop!Spec
                   /\ ~jobsOverlapped /\ [][JobsNext]_<<Ocr!vars, jobsOverlapped>>
                   /\ ~shopOverlapped /\ [][ShopNext]_<<Shop!vars, shopOverlapped>>
<1>1. MCInit => Init /\ ~overlapped
  BY DEF MCInit
<1>2. [MCNext]_<<vars, overlapped>> => [Next]_vars
  BY DEF MCNext
<1> QED
  BY <1>1, <1>2, PartsStart, PartsStep, PTL DEF StockroomSpec, Spec, MCSpec, Ocr!Spec, Shop!Spec

(* Receiving is atomic and no receipt is lost (receive_purchase_order,      *)
(* update_purchase_order), also where invoices and the inventory share the  *)
(* threads.                                                                 *)
THEOREM StockroomReceipts == StockroomSpec => []ReceiptsInv
<1> QED
  BY Parts, ReceiptsHold, PTL

(* An order that no two requests have touched at once has the status its    *)
(* receipts and its lines give it (the handlers of purchase orders).        *)
THEOREM StockroomOrders == StockroomSpec => []SerialStatusTellsTruth
<1> QED
  BY Parts, SerialOrders, PTL

(* Stock changes only with the adjustments of confirmed invoices, less what *)
(* commits overwrote (confirm_job, vision/routes.py).                       *)
THEOREM StockroomInvoices == StockroomSpec => []InvoicesBooked
<1> QED
  BY Parts, InvoicesHold, PTL DEF InvoicesBooked

(* As long as no two sessions overlap, an invoice waiting for review has    *)
(* added nothing to stock and an applied one was added once (confirm_job,   *)
(* process_ocr_job).                                                        *)
THEOREM StockroomJobs == StockroomSpec => []SerialJobTellsTruth
<1>1. StockroomSpec => Ocr!Init /\ ~jobsOverlapped /\ [][JobsNext]_<<Ocr!vars, jobsOverlapped>>
  BY Parts, PTL DEF Ocr!Spec
<1> QED
  BY <1>1, SerialInvoices, PTL

(* The stock of a product is what its records say, less what commits        *)
(* overwrote, and skus count up (the inventory's services and tasks).       *)
THEOREM StockroomStock == StockroomSpec => []StockRecorded
<1> QED
  BY Parts, StockHolds, PTL DEF StockRecorded

(* Under the lock of the weekly run a product has one recent suggestion     *)
(* (run_weekly_pricing_analysis, tasks/tasks.py).                           *)
THEOREM StockroomSuggestions == StockroomSpec => []OneRecentPending
<1> QED
  BY Parts, OneSuggestion, PTL DEF OneRecentPending

(* As long as no two sessions overlap, the price history ends with the      *)
(* price of the product, a suggestion shown as applied was applied once,    *)
(* and no alert is raised twice (update_product, apply_suggestion,          *)
(* _evaluate_alerts_impl).                                                  *)
THEOREM StockroomRecords == StockroomSpec => []SerialRecordsAgree
<1>1. RecordsInv /\ [ShopNext]_<<Shop!vars, shopOverlapped>> => RecordsInv'
  BY RecordsStep DEF ShopNext
<1>2. StockroomSpec => Shop!Init /\ ~shopOverlapped /\ [][ShopNext]_<<Shop!vars, shopOverlapped>>
  BY Parts, PTL DEF Shop!Spec
<1> QED
  BY <1>1, <1>2, RecordsStart, RecordsMean, PTL

(* Whoever waits for a row of an order, of an invoice or of a product waits *)
(* for someone who can go on or whom the database will fail: receipts lock  *)
(* lines before products, audits lock products in the order of their        *)
(* counts, confirmations items before the job and tasks the job before its  *)
(* items (receive_purchase_order, stock_audit, confirm_job,                 *)
(* process_ocr_job).                                                        *)
THEOREM StockroomMoves == StockroomSpec => []NobodyWaitsForNothing
<1>1. Init => PoInv /\ Held
  BY PoInit, HeldStart
<1>2. PoInv /\ Held /\ [Next]_vars => PoInv' /\ Held'
  BY PoStep, HeldStep
<1>3. Ocr!Init => OcrInv /\ AtWork
  BY OcrStart_Inv, AptStart
<1>4. OcrInv /\ AtWork /\ [Ocr!Next]_(Ocr!vars) => OcrInv' /\ AtWork'
  BY OcrStep, AptStep
<1>5. Shop!Init => ShopInv /\ Resting
  BY ShopStart DEF Shop!Init, Resting
<1>6. ShopInv /\ Resting /\ [Shop!Next]_(Shop!vars) => ShopInv' /\ Resting'
  BY ShopStep, ShopStays, RestingStep
<1>7. Spec => [](PoInv /\ Held)
  BY <1>1, <1>2, PTL DEF Spec
<1>8. Ocr!Spec => [](OcrInv /\ AtWork)
  BY <1>3, <1>4, PTL DEF Ocr!Spec
<1>9. Shop!Spec => [](ShopInv /\ Resting)
  BY <1>5, <1>6, PTL DEF Shop!Spec
<1>10. (PoInv /\ Held) /\ (OcrInv /\ AtWork) /\ (ShopInv /\ Resting) => NobodyWaitsForNothing
  BY OrdersMove, InvoicesMove, ShopMoves DEF NobodyWaitsForNothing
<1> QED
  BY Parts, <1>7, <1>8, <1>9, <1>10, PTL
=============================================================================
