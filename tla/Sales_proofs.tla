---------------------------- MODULE Sales_proofs ----------------------------
(***************************************************************************)
(* Proofs about Sales: that stock, log and overwritten changes add up,     *)
(* that a batch reports what it did not record, that the sessions          *)
(* implement SaleLog, that no request waits for nothing and each that      *)
(* moves has less to do, and that a single return stays within a line of   *)
(* the sale it is of.                                                      *)
(***************************************************************************)
EXTENDS Sales, Sums, SequenceTheorems

-----------------------------------------------------------------------------
(* Types. *)

Piece == [product : Products \union Foreign, qty : Int]

Session == [pc       : {"idle", "next", "loaded"},
            kind     : {"single", "batch", "return"},
            todo     : Seq(Posted),
            mem      : [Products -> Amount],
            row      : [Products -> Amount],
            txns     : SUBSET Posted,
            lost     : [Products -> Int],
            asked    : Seq(Ids),
            accepted : Nat,
            errors   : Seq(Ids)]

Typed ==
    /\ stock \in [Products -> Int] /\ drift \in [Products -> Int]
    /\ txns \in [Ids -> {NoTxn} \union {Row(x) : x \in Posted}]
    /\ sess \in [Threads -> Session]

(* The quantity of a product on some lines is a sum over positions. *)
LEMMA LinesSet ==
    ASSUME NEW lines \in Seq(Piece), NEW p
    PROVE  LET At == {i \in DOMAIN lines : lines[i].product = p}
               qty == [i \in DOMAIN lines |-> lines[i].qty]
           IN  /\ IsFiniteSet(At) /\ At \subseteq DOMAIN lines
               /\ \A i \in At : qty[i] \in Int
               /\ Qty(lines, p) = Total(qty, At)
<1> DEFINE At == {i \in DOMAIN lines : lines[i].product = p}
           qty == [i \in DOMAIN lines |-> lines[i].qty]
<1>1. DOMAIN lines = 1 .. Len(lines) /\ Len(lines) \in Nat
  OBVIOUS
<1>2. IsFiniteSet(At)
  <2>1. IsFiniteSet(1 .. Len(lines))
    BY <1>1, FS_Interval
  <2> QED
    BY <1>1, <2>1, FS_Subset
<1>3. \A i \in At : qty[i] \in Int
  <2>1. \A i \in DOMAIN lines : lines[i] \in Piece
    BY <1>1
  <2> QED
    BY <2>1 DEF Piece
<1>4. Qty(lines, p) = Total(qty, At)
  <2> DEFINE one(h) == h = [s \in SUBSET At |-> IF s = {} THEN 0 ELSE lines[Pick(s)].qty + h[s \ {Pick(s)}]]
             k == CHOOSE h : one(h)
             m == CHOOSE h : Adds(h, qty, At)
  <2>1. Qty(lines, p) = k[At]
    BY DEF Qty, MapThenSumSet, MapThenFoldSet, Pick
  <2>2. Total(qty, At) = m[At]
    BY TotalIs
  <2>3. \A s \in SUBSET At : s # {} => qty[Pick(s)] = lines[Pick(s)].qty
    BY PickIn
  <2>4. \A h : one(h) <=> Adds(h, qty, At)
    <3> HIDE DEF qty, At
    <3> QED
      BY <2>3 DEF Adds
  <2>5. Adds(m, qty, At)
    BY <1>2, Exists
  <2>6. one(k)
    <3> HIDE DEF one
    <3> QED
      BY <2>4, <2>5
  <2>7. Adds(k, qty, At)
    BY <2>4, <2>6
  <2>8. k = m
    <3> HIDE DEF k, m, qty, At
    <3> QED
      BY <1>2, <2>5, <2>7, Unique
  <2> QED
    BY <2>1, <2>2, <2>8
<1> QED
  BY <1>2, <1>3, <1>4

(* It is an integer, and zero for a product that is not on them. *)
LEMMA QtyInt ==
    ASSUME NEW lines \in Seq(Piece), NEW p
    PROVE  /\ Qty(lines, p) \in Int
           /\ p \notin Touched(lines) => Qty(lines, p) = 0
<1> DEFINE At == {i \in DOMAIN lines : lines[i].product = p}
           qty == [i \in DOMAIN lines |-> lines[i].qty]
<1>1. /\ IsFiniteSet(At) /\ \A i \in At : qty[i] \in Int
      /\ Qty(lines, p) = Total(qty, At)
  BY LinesSet
<1>2. p \notin Touched(lines) => At = {}
  BY DEF Touched
<1> HIDE DEF At, qty
<1>3. Total(qty, At) \in Int
  BY <1>1, TotalInt
<1>4. At = {} => Total(qty, At) = 0
  BY <1>1, TotalStep
<1> QED
  BY <1>1, <1>2, <1>3, <1>4

(* The lines of a return are lines of the same products. *)
LEMMA NegatedLines ==
    ASSUME NEW items \in Returned
    PROVE  /\ ReturnLines(items) \in Seq(Piece) \ {<<>>}
           /\ Touched(ReturnLines(items)) = Touched(items)
           /\ items \in Seq(Piece)
<1>1. items \in Seq(Line) /\ items # <<>>
  BY SalesAssumption
<1>2. DOMAIN items = 1 .. Len(items) /\ Len(items) \in Nat \ {0}
  BY <1>1
<1>3. \A i \in DOMAIN items : items[i] \in Line
  BY <1>1, <1>2
<1> DEFINE back == ReturnLines(items)
<1>4. DOMAIN back = DOMAIN items
  BY DEF ReturnLines
<1>5. ASSUME NEW i \in DOMAIN items
      PROVE  back[i] \in Piece /\ back[i].product = items[i].product
  <2>1. back[i] = [items[i] EXCEPT !.qty = -@]
    BY DEF ReturnLines
  <2>2. items[i] \in [product : Products \union Foreign, qty : Int]
    BY <1>3 DEF Line
  <2> QED
    BY <2>1, <2>2 DEF Piece
<1>6. back = [i \in 1 .. Len(items) |-> back[i]]
  BY <1>2 DEF ReturnLines
<1>7. back \in Seq(Piece) /\ Len(back) = Len(items)
  <2> HIDE DEF back
  <2>1. back \in [1 .. Len(items) -> Piece]
    BY <1>2, <1>5, <1>6
  <2> QED
    BY <1>2, <2>1
<1>8. Touched(back) = Touched(items)
  <2> HIDE DEF back
  <2> QED
    BY <1>4, <1>5 DEF Touched
<1>9. items \in Seq(Piece)
  <2>1. Line \subseteq Piece
    BY DEF Line, Piece
  <2> QED
    BY <1>1, <2>1
<1>10. back # <<>>
  BY <1>2, <1>7
<1> QED
  BY <1>7, <1>8, <1>9, <1>10

LEMMA PostedType ==
    ASSUME NEW x \in Posted
    PROVE  /\ x.id \in Ids /\ x.of \in Ids \union {None}
           /\ x.lines \in Seq(Piece) /\ x.lines # <<>>
<1>1. CASE x \in Sale
  <2>1. Line \subseteq Piece
    BY DEF Line, Piece
  <2>2. x.lines \in Seq(Line)
    BY <1>1 DEF Sale
  <2> QED
    BY <1>1, <2>1, <2>2 DEF Sale, Ids
<1>2. CASE \E r \in ReturnIds, items \in Returned, o \in Ids : x = [id |-> r, lines |-> ReturnLines(items), of |-> o]
  BY <1>2, NegatedLines DEF Ids
<1>3. x \in Sale \/ \E r \in ReturnIds, items \in Returned, o \in Ids : x = [id |-> r, lines |-> ReturnLines(items), of |-> o]
  <2>1. CASE x \in Sales
    BY <2>1, SalesAssumption
  <2>2. CASE \E b \in Batches : x \in Range(b)
    BY <2>2, SalesAssumption DEF Range
  <2> QED
    BY <2>1, <2>2 DEF Posted
<1> QED
  BY <1>1, <1>2, <1>3

LEMMA RowType ==
    ASSUME NEW x \in Posted
    PROVE  Row(x) # NoTxn /\ Row(x).lines = x.lines /\ Row(x).of = x.of
BY PostedType DEF Row, NoTxn

LEMMA TxnType ==
    ASSUME NEW T \in [Ids -> {NoTxn} \union {Row(x) : x \in Posted}], NEW i \in Ids
    PROVE  T[i].lines \in Seq(Piece) /\ T[i].of \in Ids \union {None}
<1>1. CASE T[i] = NoTxn
  BY <1>1 DEF NoTxn
<1>2. CASE \E x \in Posted : T[i] = Row(x)
  BY <1>2, PostedType, RowType
<1> QED
  BY <1>1, <1>2

-----------------------------------------------------------------------------
(* What a step leaves alone, and what it does to the session of its thread. *)

Others(t) ==
    /\ sess' = [sess EXCEPT ![t] = sess'[t]]
    /\ \A u \in Threads \ {t} : sess'[u] = sess[u]

Alone(t) == Others(t) /\ UNCHANGED <<stock, txns, drift>>

Blank(s) ==
    /\ s.row = Idle.row /\ s.txns = {} /\ s.lost = Idle.lost
    /\ s.accepted = 0 /\ s.errors = <<>>

SameWork(s, r) ==
    /\ r.row = s.row /\ r.txns = s.txns /\ r.lost = s.lost
    /\ r.asked = s.asked /\ r.accepted = s.accepted /\ r.kind = s.kind

Begun(t, kind, sales) ==
    /\ Blank(sess'[t])
    /\ sess'[t].kind = kind /\ sess'[t].todo = sales
    /\ sess'[t].asked = [i \in DOMAIN sales |-> sales[i].id]

(* The item at the head is done with, without a flush. *)
PassedOver(t) ==
    /\ SameWork(sess[t], sess'[t])
    /\ sess[t].kind = "batch"
    /\ sess'[t].pc = "next" /\ sess'[t].todo = Tail(sess[t].todo)

Rejected(t) ==
    /\ PassedOver(t) /\ sess'[t].mem = Idle.mem
    /\ sess'[t].errors = Append(sess[t].errors, Head(sess[t].todo).id)

Skipped(t) ==
    /\ PassedOver(t) /\ sess'[t].mem = sess[t].mem
    /\ sess'[t].errors = sess[t].errors
    /\ Duplicate(t, Head(sess[t].todo))

Taken(t) ==
    /\ SameWork(sess[t], sess'[t])
    /\ sess'[t].pc = "loaded" /\ sess'[t].todo = sess[t].todo
    /\ sess'[t].errors = sess[t].errors
    /\ ~Duplicate(t, Head(sess[t].todo))
    /\ sess'[t].mem = [p \in Products |->
                         IF p \in Touched(Head(sess[t].todo).lines)
                         THEN Read(t, p) - Qty(Head(sess[t].todo).lines, p)
                         ELSE None]

LEMMA IdleIsSession == Idle \in Session
BY DEF Idle, Session, Amount

LEMMA AloneTyped ==
    ASSUME Typed, NEW t \in Threads, Alone(t), sess'[t] \in Session
    PROVE  Typed'
BY DEF Typed, Alone, Others

LEMMA SubmitDoes ==
    ASSUME Typed, NEW t \in Threads, NEW kind \in {"single", "batch"},
           NEW sales \in Seq(Posted) \ {<<>>}, Submit(t, kind, sales)
    PROVE  /\ Alone(t) /\ Begun(t, kind, sales) /\ sess'[t].pc = "next"
           /\ sess'[t] \in Session
<1>1. sess'[t] = [Idle EXCEPT !.pc = "next", !.kind = kind, !.todo = sales,
                              !.asked = [i \in DOMAIN sales |-> sales[i].id]]
  BY DEF Submit, Typed
<1>2. Alone(t)
  BY <1>1 DEF Submit, Typed, Alone, Others
<1>3. Begun(t, kind, sales) /\ sess'[t].pc = "next" /\ sess'[t].mem = Idle.mem
  BY <1>1 DEF Begun, Blank, Idle
<1>4. [i \in DOMAIN sales |-> sales[i].id] \in Seq(Ids)
  <2>1. DOMAIN sales = 1 .. Len(sales) /\ \A i \in DOMAIN sales : sales[i] \in Posted
    OBVIOUS
  <2> QED
    BY <2>1, PostedType
<1>5. sess'[t] \in Session
  BY <1>1, <1>4, IdleIsSession DEF Session
<1> QED
  BY <1>2, <1>3, <1>5

LEMMA RejectDoes ==
    ASSUME Typed, NEW t \in Threads, sess[t].todo # <<>>, Reject(t)
    PROVE  /\ Others(t) /\ sess'[t] \in Session
           /\ sess'[t] = Idle \/ Rejected(t)
<1>1. sess[t] \in Session
  BY DEF Typed
<1>2. CASE sess[t].kind = "batch"
  <2>1. sess'[t] = [sess[t] EXCEPT !.pc = "next", !.todo = Tail(@), !.mem = Idle.mem,
                                   !.errors = Append(@, Head(sess[t].todo).id)]
    BY <1>2 DEF Typed, Reject
  <2>2. Others(t)
    BY <1>2, <2>1 DEF Typed, Reject, Others
  <2>3. Rejected(t)
    BY <1>1, <1>2, <2>1 DEF Rejected, PassedOver, SameWork, Session
  <2>4. Head(sess[t].todo).id \in Ids
    BY <1>1, PostedType DEF Session
  <2>5. /\ Tail(sess[t].todo) \in Seq(Posted) /\ Idle.mem \in [Products -> Amount]
        /\ Append(sess[t].errors, Head(sess[t].todo).id) \in Seq(Ids)
    BY <1>1, <2>4, IdleIsSession DEF Session
  <2>6. sess'[t] \in Session
    BY <1>1, <2>1, <2>5 DEF Session
  <2> QED
    BY <2>2, <2>3, <2>6
<1>3. CASE sess[t].kind # "batch"
  BY <1>3, IdleIsSession DEF Typed, Reject, Others
<1> QED
  BY <1>2, <1>3

LEMMA SkipDoes ==
    ASSUME Typed, NEW t \in Threads, sess[t].todo # <<>>, sess[t].pc = "next", SkipDuplicate(t)
    PROVE  /\ Others(t) /\ sess'[t] \in Session
           /\ sess'[t] = Idle \/ Rejected(t) \/ Skipped(t)
<1>1. sess[t] \in Session
  BY DEF Typed
<1>2. CASE sess[t].kind = "batch"
  <2>1. sess'[t] = [sess[t] EXCEPT !.todo = Tail(@)]
    BY <1>2 DEF Typed, SkipDuplicate
  <2>2. Others(t)
    BY <1>2, <2>1 DEF Typed, SkipDuplicate, Others
  <2>3. Skipped(t)
    BY <1>1, <1>2, <2>1 DEF Skipped, PassedOver, SameWork, Session, SkipDuplicate
  <2>4. Tail(sess[t].todo) \in Seq(Posted)
    BY <1>1 DEF Session
  <2>5. sess'[t] \in Session
    BY <1>1, <2>1, <2>4 DEF Session
  <2> QED
    BY <2>2, <2>3, <2>5
<1>3. CASE sess[t].kind # "batch"
  BY <1>3, RejectDoes DEF SkipDuplicate
<1> QED
  BY <1>2, <1>3

LEMMA ReadInt ==
    ASSUME Typed, NEW t \in Threads, NEW p \in Products
    PROVE  Read(t, p) \in Int
BY DEF Typed, Session, Read, Amount

LEMMA DeductDoes ==
    ASSUME Typed, NEW t \in Threads, sess[t].todo # <<>>, Deduct(t)
    PROVE  /\ Others(t) /\ Taken(t) /\ sess'[t] \in Session
<1>1. sess[t] \in Session
  BY DEF Typed
<1> DEFINE item == Head(sess[t].todo)
           mem == [p \in Products |-> IF p \in Touched(item.lines)
                                      THEN Read(t, p) - Qty(item.lines, p) ELSE None]
<1>2. sess'[t] = [sess[t] EXCEPT !.pc = "loaded", !.mem = mem]
  BY DEF Typed, Deduct
<1>3. item \in Posted
  BY <1>1 DEF Session
<1>4. mem \in [Products -> Amount]
  <2>1. \A p \in Products : Qty(item.lines, p) \in Int
    BY <1>3, PostedType, QtyInt
  <2> QED
    BY <2>1, ReadInt DEF Amount
<1>5. ~Duplicate(t, item)
  BY DEF Deduct
<1>6. Others(t)
  BY <1>2 DEF Typed, Deduct, Others
<1> HIDE DEF mem
<1>7. sess'[t] \in Session
  BY <1>1, <1>2, <1>4 DEF Session
<1>8. /\ SameWork(sess[t], sess'[t]) /\ sess'[t].pc = "loaded"
      /\ sess'[t].todo = sess[t].todo /\ sess'[t].errors = sess[t].errors /\ sess'[t].mem = mem
  BY <1>1, <1>2 DEF Session, SameWork
<1> QED
  BY <1>5, <1>6, <1>7, <1>8 DEF Taken, mem

(* A flush that succeeds. *)
Flushed(t) ==
    LET item == Head(sess[t].todo)
        own == sess[t]
    IN  /\ sess'[t].pc = "next" /\ sess'[t].todo = Tail(own.todo) /\ sess'[t].mem = Idle.mem
        /\ sess'[t].row = [p \in Products |-> IF own.mem[p] # None THEN own.mem[p] ELSE own.row[p]]
        /\ sess'[t].lost = [p \in Products |->
             IF own.mem[p] # None /\ own.row[p] = None
             THEN stock[p] - (own.mem[p] + Qty(item.lines, p)) ELSE own.lost[p]]
        /\ sess'[t].txns = own.txns \union {item}
        /\ sess'[t].accepted = own.accepted + 1
        /\ sess'[t].asked = own.asked /\ sess'[t].errors = own.errors
        /\ sess'[t].kind = own.kind
        /\ ~Recorded(item.id)
        /\ \A u \in Threads : ~Blocks(u, t)

LEMMA LoadReturnDoes ==
    ASSUME Typed, NEW t \in Threads, NEW o \in Ids, NEW r \in ReturnIds, NEW items \in Returned,
           LoadReturn(t, o, r, items)
    PROVE  LET item == [id |-> r, lines |-> ReturnLines(items), of |-> o]
           IN  /\ item \in Posted
               /\ Alone(t) /\ Begun(t, "return", <<item>>) /\ sess'[t].pc = "loaded"
               /\ \A p \in Products : sess'[t].mem[p] # None <=> p \in Touched(item.lines)
               /\ sess'[t] \in Session
<1> DEFINE item == [id |-> r, lines |-> ReturnLines(items), of |-> o]
           mem == [p \in Products |-> IF p \in Touched(items) THEN stock[p] + Qty(items, p) ELSE None]
<1>1. sess'[t] = [Idle EXCEPT !.pc = "loaded", !.kind = "return", !.asked = <<r>>,
                              !.todo = <<item>>, !.mem = mem]
  BY DEF LoadReturn, Typed
<1>2. Alone(t)
  BY <1>1 DEF LoadReturn, Typed, Alone, Others
<1>3. item \in Posted
  BY DEF Posted
<1>4. \A p \in Products : Qty(items, p) \in Int /\ stock[p] \in Int
  BY NegatedLines, QtyInt DEF Typed
<1>5. mem \in [Products -> Amount] /\ \A p \in Products : mem[p] # None <=> p \in Touched(items)
  BY <1>4, SalesAssumption DEF Amount
<1>6. <<r>> \in Seq(Ids) /\ <<item>> \in Seq(Posted)
  <2> HIDE DEF item
  <2> QED
    BY <1>3 DEF Ids
<1>7. <<r>> = [i \in DOMAIN <<item>> |-> <<item>>[i].id]
  OBVIOUS
<1>8. Touched(item.lines) = Touched(items)
  BY NegatedLines
<1> HIDE DEF item, mem
<1>9. Blank(sess'[t]) /\ sess'[t].pc = "loaded" /\ sess'[t].mem = mem /\ sess'[t].kind = "return"
      /\ sess'[t].todo = <<item>> /\ sess'[t].asked = <<r>>
  BY <1>1 DEF Blank, Idle
<1>10. sess'[t] \in Session
  BY <1>1, <1>5, <1>6, IdleIsSession DEF Session
<1>11. Begun(t, "return", <<item>>)
  BY <1>7, <1>9 DEF Begun
<1>12. \A p \in Products : sess'[t].mem[p] # None <=> p \in Touched(item.lines)
  BY <1>5, <1>8, <1>9
<1> QED
  BY <1>2, <1>3, <1>9, <1>10, <1>11, <1>12 DEF item

LEMMA FlushDoes ==
    ASSUME Typed, NEW t \in Threads, sess[t].todo # <<>>, Flush(t)
    PROVE  /\ Others(t) /\ sess'[t] \in Session
           /\ sess'[t] = Idle \/ Rejected(t) \/ Flushed(t)
<1>1. sess[t] \in Session
  BY DEF Typed
<1> DEFINE item == Head(sess[t].todo)
<1>2. CASE Reject(t)
  BY <1>2, RejectDoes
<1>3. CASE ~Reject(t)
  <2> DEFINE own == sess[t]
             row == [p \in Products |-> IF own.mem[p] # None THEN own.mem[p] ELSE own.row[p]]
             lost == [p \in Products |->
                        IF own.mem[p] # None /\ own.row[p] = None
                        THEN stock[p] - (own.mem[p] + Qty(item.lines, p)) ELSE own.lost[p]]
  <2>1. sess'[t] = [sess[t] EXCEPT !.pc = "next", !.todo = Tail(@), !.mem = Idle.mem,
                      !.row = row, !.txns = @ \union {item}, !.lost = lost, !.accepted = @ + 1]
    BY <1>3 DEF Flush, Typed
  <2>2. Others(t)
    BY <1>3, <2>1, ZenonT(30) DEF Flush, Typed, Others
  <2>3. ~Recorded(item.id) /\ \A u \in Threads : ~Blocks(u, t)
    BY <1>3 DEF Flush, KeyTaken
  <2>4. item \in Posted
    BY <1>1 DEF Session
  <2>5. \A p \in Products : Qty(item.lines, p) \in Int /\ stock[p] \in Int
    BY <2>4, PostedType, QtyInt DEF Typed
  <2>6. row \in [Products -> Amount] /\ lost \in [Products -> Int]
    BY <1>1, <2>5 DEF Session, Amount
  <2> HIDE DEF row, lost, item
  <2>7. sess'[t] \in Session
    <3>1. /\ Tail(own.todo) \in Seq(Posted) /\ Idle.mem \in [Products -> Amount]
          /\ own.txns \union {item} \in SUBSET Posted /\ own.accepted + 1 \in Nat
      BY <1>1, <2>4, IdleIsSession DEF Session
    <3> QED
      BY <1>1, <2>1, <2>6, <3>1 DEF Session
  <2>8. /\ sess'[t].pc = "next" /\ sess'[t].todo = Tail(own.todo) /\ sess'[t].mem = Idle.mem
        /\ sess'[t].row = row /\ sess'[t].lost = lost
        /\ sess'[t].txns = own.txns \union {item} /\ sess'[t].accepted = own.accepted + 1
        /\ sess'[t].asked = own.asked /\ sess'[t].errors = own.errors /\ sess'[t].kind = own.kind
    BY <1>1, <2>1 DEF Session
  <2>9. Flushed(t)
    BY <2>3, <2>8 DEF Flushed, row, lost, item
  <2> QED
    BY <2>2, <2>7, <2>9
<1> QED
  BY <1>2, <1>3

LEMMA CommitDoes ==
    ASSUME Typed, NEW t \in Threads, Commit(t)
    PROVE  Others(t) /\ sess'[t] = Idle /\ Typed'
<1>1. sess[t] \in Session
  BY DEF Typed
<1>2. sess'[t] = Idle /\ Others(t)
  BY DEF Commit, Typed, Others
<1>3. stock' \in [Products -> Int] /\ drift' \in [Products -> Int]
  BY <1>1, ReadInt DEF Commit, Typed, Session
<1>4. txns' \in [Ids -> {NoTxn} \union {Row(x) : x \in Posted}]
  <2>1. ASSUME NEW i \in Ids PROVE txns'[i] \in {NoTxn} \union {Row(x) : x \in Posted}
    <3>1. CASE \E x \in sess[t].txns : x.id = i
      <4> DEFINE y == CHOOSE x \in sess[t].txns : x.id = i
      <4>1. y \in sess[t].txns
        BY <3>1
      <4>2. y \in Posted
        BY <1>1, <4>1 DEF Session
      <4>3. txns'[i] = Row(y)
        BY <3>1 DEF Commit
      <4> QED
        BY <4>2, <4>3
    <3>2. CASE ~\E x \in sess[t].txns : x.id = i
      BY <3>2 DEF Commit, Typed
    <3> QED
      BY <3>1, <3>2
  <2>2. txns' = [i \in Ids |-> txns'[i]]
    BY DEF Commit
  <2> QED
    BY <2>1, <2>2
<1>5. sess' \in [Threads -> Session]
  BY <1>2, IdleIsSession DEF Typed, Others
<1> QED
  BY <1>2, <1>3, <1>4, <1>5 DEF Typed

(* Every step is one of these. *)
LEMMA StepCases ==
    ASSUME Typed, NEW t \in Threads, sess[t].pc = "loaded" => sess[t].todo # <<>>,
           \/ \E s \in Sales : Submit(t, "single", <<s>>)
           \/ \E b \in Batches : Submit(t, "batch", b)
           \/ \E o \in Ids, r \in ReturnIds, items \in Returned : LoadReturn(t, o, r, items)
           \/ Load(t) \/ Flush(t) \/ DeadlockVictim(t) \/ Commit(t) \/ Crash(t)
    PROVE  /\ Others(t) /\ Typed'
           /\ \/ /\ UNCHANGED <<stock, txns, drift>>
                 /\ \/ sess'[t] = Idle
                    \/ sess[t].todo # <<>> /\ (Rejected(t) \/ Skipped(t) \/ Taken(t))
                    \/ sess[t].pc = "loaded" /\ Flushed(t)
                    \/ /\ sess'[t].pc = "next"
                       /\ \E kind \in {"single", "batch"}, sales \in Seq(Posted) \ {<<>>} :
                            Begun(t, kind, sales)
                    \/ /\ sess'[t].pc = "loaded"
                       /\ \E item \in Posted :
                            /\ Begun(t, "return", <<item>>)
                            /\ \A p \in Products :
                                 sess'[t].mem[p] # None <=> p \in Touched(item.lines)
              \/ Commit(t) /\ sess'[t] = Idle
<1>1. ASSUME NEW s \in Sales, Submit(t, "single", <<s>>)
      PROVE  Alone(t) /\ Begun(t, "single", <<s>>) /\ sess'[t].pc = "next"
             /\ sess'[t] \in Session /\ <<s>> \in Seq(Posted) \ {<<>>}
  <2>1. <<s>> \in Seq(Posted) \ {<<>>}
    BY DEF Posted
  <2> QED
    BY <1>1, <2>1, SubmitDoes
<1>2. ASSUME NEW b \in Batches, Submit(t, "batch", b)
      PROVE  Alone(t) /\ Begun(t, "batch", b) /\ sess'[t].pc = "next"
             /\ sess'[t] \in Session /\ b \in Seq(Posted) \ {<<>>}
  <2>1. b \in Seq(Sale) /\ b # <<>>
    BY SalesAssumption
  <2>2. DOMAIN b = 1 .. Len(b) /\ Len(b) \in Nat
    BY <2>1
  <2>3. \A i \in DOMAIN b : b[i] \in Posted
    BY DEF Posted, Range
  <2>4. b \in Seq(Posted)
    <3>1. b = [i \in 1 .. Len(b) |-> b[i]]
      BY <2>1
    <3> HIDE DEF Posted
    <3> QED
      BY <2>2, <2>3, <3>1
  <2> QED
    BY <1>2, <2>1, <2>4, SubmitDoes
<1>3. ASSUME NEW o \in Ids, NEW r \in ReturnIds, NEW items \in Returned, LoadReturn(t, o, r, items)
      PROVE  /\ Alone(t) /\ sess'[t].pc = "loaded" /\ sess'[t] \in Session
             /\ \E item \in Posted :
                  /\ Begun(t, "return", <<item>>)
                  /\ \A p \in Products : sess'[t].mem[p] # None <=> p \in Touched(item.lines)
  BY <1>3, LoadReturnDoes
<1>4. ASSUME Load(t)
      PROVE  /\ Alone(t) /\ sess'[t] \in Session /\ sess[t].todo # <<>>
             /\ sess'[t] = Idle \/ Rejected(t) \/ Skipped(t) \/ Taken(t)
  BY <1>4, SkipDoes, RejectDoes, DeductDoes DEF Load, RejectMissing, Alone
<1>5. ASSUME Flush(t)
      PROVE  /\ Alone(t) /\ sess'[t] \in Session /\ sess[t].todo # <<>> /\ sess[t].pc = "loaded"
             /\ sess'[t] = Idle \/ Rejected(t) \/ Flushed(t)
  <2>1. sess[t].pc = "loaded" /\ UNCHANGED <<stock, txns, drift>>
    BY <1>5 DEF Flush
  <2> QED
    BY <1>5, <2>1, FlushDoes DEF Alone
<1>6. ASSUME DeadlockVictim(t)
      PROVE  /\ Alone(t) /\ sess'[t] \in Session /\ sess[t].todo # <<>>
             /\ sess'[t] = Idle \/ Rejected(t)
  BY <1>6, RejectDoes DEF DeadlockVictim, Alone
<1>7. ASSUME Commit(t) PROVE Others(t) /\ sess'[t] = Idle /\ Typed'
  BY <1>7, CommitDoes
<1>8. ASSUME Crash(t) PROVE Alone(t) /\ sess'[t] = Idle /\ sess'[t] \in Session
  BY <1>8, IdleIsSession DEF Crash, Typed, Alone, Others
<1>9. CASE Commit(t)
  BY <1>7, <1>9
<1>10. CASE \E s \in Sales : Submit(t, "single", <<s>>)
  BY <1>1, <1>10, AloneTyped DEF Alone
<1>11. CASE \E b \in Batches : Submit(t, "batch", b)
  BY <1>2, <1>11, AloneTyped DEF Alone
<1>12. CASE \E o \in Ids, r \in ReturnIds, items \in Returned : LoadReturn(t, o, r, items)
  BY <1>3, <1>12, AloneTyped DEF Alone
<1>13. CASE Load(t)
  BY <1>4, <1>13, AloneTyped DEF Alone
<1>14. CASE Flush(t)
  BY <1>5, <1>14, AloneTyped DEF Alone
<1>15. CASE DeadlockVictim(t)
  BY <1>6, <1>15, AloneTyped DEF Alone
<1>16. CASE Crash(t)
  BY <1>8, <1>16, AloneTyped DEF Alone
<1> QED
  BY <1>9, <1>10, <1>11, <1>12, <1>13, <1>14, <1>15, <1>16

-----------------------------------------------------------------------------
(* What each session knows. *)

(* A session that waits to flush has read the stock its memory was computed from: what it   *)
(* wrote itself, if it did.                                                                 *)
Ready(t) ==
    sess[t].pc = "loaded" =>
        LET item == Head(sess[t].todo)
        IN  /\ sess[t].todo # <<>>
            /\ \A x \in sess[t].txns : x.id # item.id
            /\ \A p \in Products :
                 /\ sess[t].mem[p] # None <=> p \in Touched(item.lines)
                 /\ sess[t].row[p] # None /\ sess[t].mem[p] # None =>
                      sess[t].mem[p] + Qty(item.lines, p) = sess[t].row[p]

(* It treats only items that were asked for, and no more of them. *)
Counted(t) ==
    /\ \A k \in DOMAIN sess[t].todo : sess[t].todo[k].id \in Range(sess[t].asked)
    /\ \A x \in sess[t].txns : x.id \in Range(sess[t].asked)
    /\ sess[t].accepted + Len(sess[t].errors) + Len(sess[t].todo) <= Len(sess[t].asked)

(* What a batch was asked for is recorded, flushed, reported or still to do. *)
Told(t) ==
    sess[t].kind = "batch" =>
        \A i \in Range(sess[t].asked) \ Range(sess[t].errors) :
            \/ Recorded(i) \/ \E x \in sess[t].txns : x.id = i
            \/ \E k \in DOMAIN sess[t].todo : sess[t].todo[k].id = i

LEMMA TailItems ==
    ASSUME NEW S, NEW s \in Seq(S), s # <<>>
    PROVE  /\ Tail(s) \in Seq(S) /\ Len(s) \in Nat /\ Len(Tail(s)) = Len(s) - 1
           /\ DOMAIN s = 1 .. Len(s) /\ DOMAIN Tail(s) = 1 .. Len(s) - 1
           /\ Head(s) = s[1] /\ 1 \in DOMAIN s
           /\ \A k \in DOMAIN Tail(s) : k + 1 \in DOMAIN s /\ Tail(s)[k] = s[k + 1]
           /\ \A k \in DOMAIN s : k # 1 => k - 1 \in DOMAIN Tail(s) /\ Tail(s)[k - 1] = s[k]
OBVIOUS

LEMMA AppendRange ==
    ASSUME NEW S, NEW s \in Seq(S), NEW e
    PROVE  Range(Append(s, e)) = Range(s) \union {e}
<1>1. DOMAIN s = 1 .. Len(s) /\ Len(s) \in Nat
  OBVIOUS
<1>2. DOMAIN Append(s, e) = 1 .. Len(s) + 1
  BY <1>1
<1>3. \A k \in 1 .. Len(s) : Append(s, e)[k] = s[k]
  BY <1>1
<1>4. Append(s, e)[Len(s) + 1] = e
  BY <1>1
<1> QED
  BY <1>1, <1>2, <1>3, <1>4 DEF Range

LEMMA ReadyOnly ==
    ASSUME NEW t \in Threads, NEW u \in Threads, Ready(u), sess'[u] = sess[u]
    PROVE  Ready(u)'
BY DEF Ready

LEMMA ReadyKept ==
    ASSUME Typed, NEW t \in Threads, Ready(t),
           \/ sess'[t].pc # "loaded"
           \/ sess[t].todo # <<>> /\ Taken(t)
           \/ \E item \in Posted :
                /\ Begun(t, "return", <<item>>)
                /\ \A p \in Products : sess'[t].mem[p] # None <=> p \in Touched(item.lines)
    PROVE  Ready(t)'
<1>1. CASE sess'[t].pc # "loaded"
  BY <1>1 DEF Ready
<1>2. ASSUME sess[t].todo # <<>>, Taken(t) PROVE Ready(t)'
  <2> DEFINE item == Head(sess[t].todo)
  <2>1. sess[t] \in Session /\ item \in Posted
    BY <1>2 DEF Typed, Session
  <2>2. /\ sess'[t].todo = sess[t].todo /\ sess'[t].txns = sess[t].txns
        /\ sess'[t].row = sess[t].row
    BY <1>2 DEF Taken, SameWork
  <2>3. \A x \in sess[t].txns : x.id # item.id
    BY <1>2 DEF Taken, Duplicate
  <2>4. ASSUME NEW p \in Products
        PROVE  /\ sess'[t].mem[p] # None <=> p \in Touched(item.lines)
               /\ sess[t].row[p] # None /\ sess'[t].mem[p] # None =>
                    sess'[t].mem[p] + Qty(item.lines, p) = sess[t].row[p]
    <3>1. sess'[t].mem[p] = IF p \in Touched(item.lines) THEN Read(t, p) - Qty(item.lines, p) ELSE None
      BY <1>2 DEF Taken
    <3>2. Qty(item.lines, p) \in Int /\ Read(t, p) \in Int
      BY <2>1, PostedType, QtyInt, ReadInt
    <3>3. None \notin Int
      BY SalesAssumption
    <3>4. sess[t].row[p] # None => Read(t, p) = sess[t].row[p]
      BY DEF Read
    <3> HIDE DEF item
    <3> QED
      BY <3>1, <3>2, <3>3, <3>4
  <2> QED
    BY <1>2, <2>2, <2>3, <2>4 DEF Ready
<1>3. ASSUME NEW item \in Posted, Begun(t, "return", <<item>>),
             \A p \in Products : sess'[t].mem[p] # None <=> p \in Touched(item.lines)
      PROVE  Ready(t)'
  <2>1. sess'[t].todo = <<item>> /\ sess'[t].txns = {} /\ \A p \in Products : sess'[t].row[p] = None
    BY <1>3 DEF Begun, Blank, Idle
  <2>2. Head(<<item>>) = item /\ <<item>> # <<>>
    OBVIOUS
  <2> QED
    BY <1>3, <2>1, <2>2 DEF Ready
<1> QED
  BY <1>1, <1>2, <1>3

LEMMA BegunKnows ==
    ASSUME NEW t \in Threads, NEW kind, NEW sales \in Seq(Posted), Begun(t, kind, sales)
    PROVE  Counted(t)' /\ Told(t)'
<1>1. /\ sess'[t].todo = sales /\ sess'[t].asked = [i \in DOMAIN sales |-> sales[i].id]
      /\ sess'[t].txns = {} /\ sess'[t].accepted = 0 /\ sess'[t].errors = <<>>
  BY DEF Begun, Blank
<1>2. DOMAIN sales = 1 .. Len(sales) /\ Len(sales) \in Nat
  OBVIOUS
<1> DEFINE asked == [i \in DOMAIN sales |-> sales[i].id]
<1>3. Range(asked) = {sales[i].id : i \in DOMAIN sales} /\ Len(asked) = Len(sales)
  <2>1. asked \in Seq({sales[i].id : i \in DOMAIN sales}) /\ DOMAIN asked = 1 .. Len(sales)
    BY <1>2
  <2> QED
    BY <1>2, <2>1 DEF Range
<1> HIDE DEF asked
<1>4. Counted(t)'
  BY <1>1, <1>2, <1>3 DEF Counted, asked
<1>5. Told(t)'
  BY <1>1, <1>3 DEF Told, asked
<1> QED
  BY <1>4, <1>5

LEMMA PassedKnows ==
    ASSUME Typed, NEW t \in Threads, Counted(t), Told(t), sess[t].todo # <<>>,
           Rejected(t) \/ Skipped(t), UNCHANGED txns
    PROVE  Counted(t)' /\ Told(t)'
<1> DEFINE item == Head(sess[t].todo)
<1>1. sess[t] \in Session
  BY DEF Typed
<1>2. /\ sess'[t].todo = Tail(sess[t].todo) /\ sess'[t].txns = sess[t].txns
      /\ sess'[t].asked = sess[t].asked /\ sess'[t].accepted = sess[t].accepted
      /\ sess'[t].kind = sess[t].kind
  BY DEF Rejected, Skipped, PassedOver, SameWork
<1>3. /\ Len(sess[t].todo) \in Nat /\ Len(Tail(sess[t].todo)) = Len(sess[t].todo) - 1
      /\ item = sess[t].todo[1]
      /\ \A k \in DOMAIN Tail(sess[t].todo) :
           k + 1 \in DOMAIN sess[t].todo /\ Tail(sess[t].todo)[k] = sess[t].todo[k + 1]
      /\ \A k \in DOMAIN sess[t].todo : k # 1 =>
           k - 1 \in DOMAIN Tail(sess[t].todo) /\ Tail(sess[t].todo)[k - 1] = sess[t].todo[k]
  BY <1>1, TailItems DEF Session
<1>4. /\ sess[t].accepted \in Nat /\ Len(sess[t].asked) \in Nat /\ Len(sess[t].errors) \in Nat
      /\ sess[t].errors \in Seq(Ids)
  BY <1>1 DEF Session
<1>5. \/ /\ sess'[t].errors = Append(sess[t].errors, item.id)
         /\ Len(sess'[t].errors) = Len(sess[t].errors) + 1
         /\ Range(sess'[t].errors) = Range(sess[t].errors) \union {item.id}
      \/ sess'[t].errors = sess[t].errors /\ Duplicate(t, item)
  <2>1. Rejected(t) => sess'[t].errors = Append(sess[t].errors, item.id)
    BY DEF Rejected
  <2>2. Skipped(t) => sess'[t].errors = sess[t].errors /\ Duplicate(t, item)
    BY DEF Skipped
  <2>3. Len(Append(sess[t].errors, item.id)) = Len(sess[t].errors) + 1
    BY <1>4
  <2>4. Range(Append(sess[t].errors, item.id)) = Range(sess[t].errors) \union {item.id}
    BY <1>4, AppendRange
  <2> QED
    BY <2>1, <2>2, <2>3, <2>4
<1> HIDE DEF item
<1>6. Counted(t)'
  <2>1. \A k \in DOMAIN sess'[t].todo : sess'[t].todo[k].id \in Range(sess'[t].asked)
    BY <1>2, <1>3 DEF Counted
  <2>2. \A x \in sess'[t].txns : x.id \in Range(sess'[t].asked)
    BY <1>2 DEF Counted
  <2>3. Len(sess'[t].errors) \in Nat /\ Len(sess'[t].errors) <= Len(sess[t].errors) + 1
    BY <1>4, <1>5
  <2>4. sess'[t].accepted + Len(sess'[t].errors) + Len(sess'[t].todo) <= Len(sess'[t].asked)
    <3>1. sess[t].accepted + Len(sess[t].errors) + Len(sess[t].todo) <= Len(sess[t].asked)
      BY DEF Counted
    <3>2. Len(sess'[t].todo) = Len(sess[t].todo) - 1
      BY <1>2, <1>3
    <3>3. \A a, e, f, n, m \in Int : a + e + n <= m /\ f <= e + 1 => a + f + (n - 1) <= m
      OBVIOUS
    <3>4. sess[t].accepted + Len(sess'[t].errors) + (Len(sess[t].todo) - 1) <= Len(sess[t].asked)
      <4>1. /\ sess[t].accepted \in Int /\ Len(sess[t].errors) \in Int /\ Len(sess'[t].errors) \in Int
            /\ Len(sess[t].todo) \in Int /\ Len(sess[t].asked) \in Int
        BY <1>3, <1>4, <2>3
      <4>2. Len(sess'[t].errors) <= Len(sess[t].errors) + 1
        BY <2>3
      <4> QED
        BY ONLY <3>1, <3>3, <4>1, <4>2
    <3> QED
      BY <1>2, <3>2, <3>4
  <2> QED
    BY <2>1, <2>2, <2>4 DEF Counted
<1>7. Told(t)'
  <2> SUFFICES ASSUME sess[t].kind = "batch",
                      NEW i \in Range(sess[t].asked) \ Range(sess'[t].errors)
               PROVE  \/ Recorded(i) \/ \E x \in sess[t].txns : x.id = i
                      \/ \E k \in DOMAIN Tail(sess[t].todo) : Tail(sess[t].todo)[k].id = i
    BY <1>2 DEF Told, Recorded
  <2>1. i \notin Range(sess[t].errors)
    BY <1>5
  <2>2. CASE \E k \in DOMAIN sess[t].todo : k # 1 /\ sess[t].todo[k].id = i
    BY <1>3, <2>2
  <2>3. CASE item.id = i
    BY <1>5, <2>3 DEF Duplicate
  <2> QED
    BY <1>3, <2>1, <2>2, <2>3 DEF Told
<1> QED
  BY <1>6, <1>7

LEMMA FlushedKnows ==
    ASSUME Typed, NEW t \in Threads, Counted(t), Told(t), sess[t].todo # <<>>,
           Flushed(t), UNCHANGED txns
    PROVE  Counted(t)' /\ Told(t)'
<1> DEFINE item == Head(sess[t].todo)
<1>1. sess[t] \in Session
  BY DEF Typed
<1>2. /\ sess'[t].todo = Tail(sess[t].todo) /\ sess'[t].txns = sess[t].txns \union {item}
      /\ sess'[t].asked = sess[t].asked /\ sess'[t].accepted = sess[t].accepted + 1
      /\ sess'[t].kind = sess[t].kind /\ sess'[t].errors = sess[t].errors
  BY DEF Flushed
<1>3. /\ Len(sess[t].todo) \in Nat /\ Len(Tail(sess[t].todo)) = Len(sess[t].todo) - 1
      /\ item = sess[t].todo[1] /\ 1 \in DOMAIN sess[t].todo
      /\ \A k \in DOMAIN Tail(sess[t].todo) :
           k + 1 \in DOMAIN sess[t].todo /\ Tail(sess[t].todo)[k] = sess[t].todo[k + 1]
      /\ \A k \in DOMAIN sess[t].todo : k # 1 =>
           k - 1 \in DOMAIN Tail(sess[t].todo) /\ Tail(sess[t].todo)[k - 1] = sess[t].todo[k]
  BY <1>1, TailItems DEF Session
<1>4. /\ sess[t].accepted \in Nat /\ Len(sess[t].asked) \in Nat /\ Len(sess[t].errors) \in Nat
  BY <1>1 DEF Session
<1> HIDE DEF item
<1>5. Counted(t)'
  <2>1. \A k \in DOMAIN sess'[t].todo : sess'[t].todo[k].id \in Range(sess'[t].asked)
    BY <1>2, <1>3 DEF Counted
  <2>2. \A x \in sess'[t].txns : x.id \in Range(sess'[t].asked)
    BY <1>2, <1>3 DEF Counted
  <2>3. sess'[t].accepted + Len(sess'[t].errors) + Len(sess'[t].todo) <= Len(sess'[t].asked)
    <3>1. sess[t].accepted + Len(sess[t].errors) + Len(sess[t].todo) <= Len(sess[t].asked)
      BY DEF Counted
    <3>2. Len(sess'[t].todo) = Len(sess[t].todo) - 1
      BY <1>2, <1>3
    <3>3. \A a, e, n, m \in Int : a + e + n <= m => a + 1 + e + (n - 1) <= m
      OBVIOUS
    <3>4. sess[t].accepted + 1 + Len(sess[t].errors) + (Len(sess[t].todo) - 1) <= Len(sess[t].asked)
      <4>1. /\ sess[t].accepted \in Int /\ Len(sess[t].errors) \in Int
            /\ Len(sess[t].todo) \in Int /\ Len(sess[t].asked) \in Int
        BY <1>3, <1>4
      <4> QED
        BY ONLY <3>1, <3>3, <4>1
    <3> QED
      BY <1>2, <3>2, <3>4
  <2> QED
    BY <2>1, <2>2, <2>3 DEF Counted
<1>6. Told(t)'
  <2> SUFFICES ASSUME sess[t].kind = "batch",
                      NEW i \in Range(sess[t].asked) \ Range(sess[t].errors)
               PROVE  \/ Recorded(i) \/ \E x \in sess[t].txns \union {item} : x.id = i
                      \/ \E k \in DOMAIN Tail(sess[t].todo) : Tail(sess[t].todo)[k].id = i
    BY <1>2 DEF Told, Recorded
  <2>1. CASE \E k \in DOMAIN sess[t].todo : k # 1 /\ sess[t].todo[k].id = i
    BY <1>3, <2>1
  <2> QED
    BY <1>3, <2>1 DEF Told
<1> QED
  BY <1>5, <1>6

LEMMA IdleKnows ==
    ASSUME NEW t \in Threads, sess'[t] = Idle
    PROVE  Ready(t)' /\ Counted(t)' /\ Told(t)'
<1>1. /\ Idle.pc = "idle" /\ Idle.kind = "single" /\ Idle.todo = <<>> /\ Idle.txns = {}
      /\ Idle.accepted = 0 /\ Idle.errors = <<>> /\ Idle.asked = <<>>
  BY DEF Idle
<1> QED
  BY <1>1 DEF Ready, Counted, Told

(* A commit keeps what is recorded and records what was flushed. *)
LEMMA CommitRecords ==
    ASSUME Typed, NEW t \in Threads, Commit(t), NEW i \in Ids
    PROVE  Recorded(i)' <=> Recorded(i) \/ \E x \in sess[t].txns : x.id = i
<1>1. CASE \E x \in sess[t].txns : x.id = i
  <2> DEFINE y == CHOOSE x \in sess[t].txns : x.id = i
  <2>1. y \in sess[t].txns
    BY <1>1
  <2>2. y \in Posted
    BY <2>1 DEF Typed, Session
  <2>3. txns'[i] = Row(y)
    BY <1>1 DEF Commit
  <2> QED
    BY <1>1, <2>2, <2>3, RowType DEF Recorded
<1>2. CASE ~\E x \in sess[t].txns : x.id = i
  BY <1>2 DEF Commit, Recorded
<1> QED
  BY <1>1, <1>2

-----------------------------------------------------------------------------
(* The invariant of a session, whatever the others do. *)
Knows == \A t \in Threads : Ready(t) /\ Counted(t) /\ Told(t)

LEMMA KnowsKept ==
    ASSUME Typed, Knows, Next
    PROVE  Knows'
<1>1. PICK t \in Threads :
           \/ \E s \in Sales : Submit(t, "single", <<s>>)
           \/ \E b \in Batches : Submit(t, "batch", b)
           \/ \E o \in Ids, r \in ReturnIds, items \in Returned : LoadReturn(t, o, r, items)
           \/ Load(t) \/ Flush(t) \/ DeadlockVictim(t) \/ Commit(t) \/ Crash(t)
  BY DEF Next
<1>2. Ready(t) /\ Counted(t) /\ Told(t)
  BY DEF Knows
<1>3. Others(t)
  BY <1>1, <1>2, StepCases DEF Ready
<1>4. Ready(t)' /\ Counted(t)' /\ Told(t)'
  <2>1. CASE sess'[t] = Idle
    BY <2>1, IdleKnows
  <2>2. CASE UNCHANGED txns /\ sess[t].todo # <<>> /\ (Rejected(t) \/ Skipped(t))
    BY <1>2, <2>2, PassedKnows, ReadyKept DEF Rejected, Skipped, PassedOver
  <2>3. CASE UNCHANGED txns /\ sess[t].todo # <<>> /\ Taken(t)
    <3>1. Ready(t)'
      BY <1>2, <2>3, ReadyKept
    <3>2. Counted(t)' /\ Told(t)'
      BY <1>2, <2>3 DEF Taken, SameWork, Counted, Told, Recorded
    <3> QED
      BY <3>1, <3>2
  <2>4. CASE UNCHANGED txns /\ sess[t].pc = "loaded" /\ Flushed(t)
    <3>1. sess[t].todo # <<>>
      BY <1>2, <2>4 DEF Ready
    <3> QED
      BY <1>2, <2>4, <3>1, FlushedKnows, ReadyKept DEF Flushed
  <2>5. CASE sess'[t].pc = "next" /\ \E kind \in {"single", "batch"}, sales \in Seq(Posted) \ {<<>>} :
                                        Begun(t, kind, sales)
    BY <1>2, <2>5, BegunKnows, ReadyKept
  <2>6. CASE \E item \in Posted :
                /\ Begun(t, "return", <<item>>)
                /\ \A p \in Products : sess'[t].mem[p] # None <=> p \in Touched(item.lines)
    <3>1. Ready(t)'
      BY <1>2, <2>6, ReadyKept
    <3>2. \A item \in Posted : <<item>> \in Seq(Posted)
      OBVIOUS
    <3> QED
      BY <2>6, <3>1, <3>2, BegunKnows
  <2> QED
    BY <1>1, <1>2, <2>1, <2>2, <2>3, <2>4, <2>5, <2>6, StepCases DEF Ready
<1>5. ASSUME NEW u \in Threads, u # t
      PROVE  Ready(u)' /\ Counted(u)' /\ Told(u)'
  <2>1. sess'[u] = sess[u]
    BY <1>3, <1>5 DEF Others
  <2>2. Ready(u)' /\ Counted(u)'
    BY <2>1 DEF Knows, Ready, Counted
  <2>3. Told(u)'
    <3>1. \A i \in Ids : Recorded(i) => Recorded(i)'
      BY <1>1, <1>2, StepCases, CommitRecords DEF Ready, Recorded
    <3>2. Range(sess[u].asked) \subseteq Ids
      <4>1. sess[u].asked \in Seq(Ids)
        BY DEF Typed, Session
      <4> QED
        BY <4>1 DEF Range
    <3>3. Told(u)
      BY DEF Knows
    <3> QED
      BY <2>1, <3>1, <3>2, <3>3 DEF Told
  <2> QED
    BY <2>2, <2>3
<1> QED
  BY <1>4, <1>5 DEF Knows

-----------------------------------------------------------------------------
(* What a session holds: rows it has written and ids it has inserted. *)

Cleared(t) ==
    sess'[t].row = Idle.row /\ sess'[t].txns = {} /\ sess'[t].lost = Idle.lost

Holding(t) ==
    sess'[t].row = sess[t].row /\ sess'[t].txns = sess[t].txns /\ sess'[t].lost = sess[t].lost

(* For the rows and the log a step is one of four. *)
LEMMA StepKinds ==
    ASSUME Typed, Knows, Next
    PROVE  /\ Typed'
           /\ \E t \in Threads :
                /\ Others(t)
                /\ \/ /\ UNCHANGED <<stock, txns, drift>>
                      /\ \/ Cleared(t) \/ Holding(t)
                         \/ Ready(t) /\ sess[t].pc = "loaded" /\ Flushed(t)
                   \/ Commit(t) /\ Cleared(t)
<1>1. PICK t \in Threads :
           \/ \E s \in Sales : Submit(t, "single", <<s>>)
           \/ \E b \in Batches : Submit(t, "batch", b)
           \/ \E o \in Ids, r \in ReturnIds, items \in Returned : LoadReturn(t, o, r, items)
           \/ Load(t) \/ Flush(t) \/ DeadlockVictim(t) \/ Commit(t) \/ Crash(t)
  BY DEF Next
<1>2. Ready(t) /\ (sess[t].pc = "loaded" => sess[t].todo # <<>>)
  BY DEF Knows, Ready
<1>3. sess'[t] = Idle => Cleared(t)
  BY DEF Cleared, Idle
<1>4. Rejected(t) \/ Skipped(t) \/ Taken(t) => Holding(t)
  BY DEF Holding, Rejected, Skipped, Taken, PassedOver, SameWork
<1>5. \A kind, sales : Begun(t, kind, sales) => Cleared(t)
  BY DEF Begun, Blank, Cleared
<1> QED
  BY <1>1, <1>2, <1>3, <1>4, <1>5, StepCases

OwnIds(t) == {x.id : x \in sess[t].txns}

(* What the commit of a session will take from the stock, and what its items take. *)
Due(t, p) == IF sess[t].row[p] = None THEN 0 ELSE stock[p] - sess[t].row[p] - sess[t].lost[p]

Taking(t, p) ==
    [i \in OwnIds(t) |-> Qty((CHOOSE x \in sess[t].txns : x.id = i).lines, p)]

(* Row locks and unique-index entries are exclusive, and what is flushed is not recorded. *)
Locks ==
    /\ \A t, u \in Threads : t # u =>
         /\ \A p \in Products : sess[t].row[p] = None \/ sess[u].row[p] = None
         /\ OwnIds(t) \intersect OwnIds(u) = {}
    /\ \A t \in Threads :
         /\ \A x, y \in sess[t].txns : x.id = y.id => x = y
         /\ \A p \in Products : sess[t].row[p] = None => sess[t].lost[p] = 0
         /\ \A i \in OwnIds(t) : ~Recorded(i)

(* A commit will take exactly what was flushed. *)
Owed == \A t \in Threads, p \in Products : Due(t, p) = Total(Taking(t, p), OwnIds(t))

LEMMA IdsFinite == IsFiniteSet(Ids)
BY SalesAssumption, FS_Union DEF Ids

LEMMA OwnIdsType ==
    ASSUME Typed, NEW t \in Threads
    PROVE  OwnIds(t) \subseteq Ids /\ IsFiniteSet(OwnIds(t)) /\ sess[t].txns \subseteq Posted
<1>1. sess[t].txns \subseteq Posted
  BY DEF Typed, Session
<1>2. OwnIds(t) \subseteq Ids
  BY <1>1, PostedType DEF OwnIds
<1> QED
  BY <1>1, <1>2, IdsFinite, FS_Subset

LEMMA FlushedIsFree ==
    ASSUME Typed, NEW t \in Threads, Ready(t), sess[t].pc = "loaded", Flushed(t),
           NEW u \in Threads, u # t
    PROVE  /\ Head(sess[t].todo).id \notin OwnIds(u)
           /\ \A p \in Products : sess'[t].row[p] # None =>
                sess[t].row[p] # None \/ sess[u].row[p] = None
<1> DEFINE item == Head(sess[t].todo)
<1>1. ~Blocks(u, t)
  BY DEF Flushed
<1>2. /\ \A p \in Touched(item.lines) : sess[u].row[p] = None
      /\ \A x \in sess[u].txns : x.id # item.id
  BY <1>1 DEF Blocks
<1>3. \A p \in Products :
        sess'[t].row[p] = IF sess[t].mem[p] # None THEN sess[t].mem[p] ELSE sess[t].row[p]
  BY DEF Flushed
<1>4. \A p \in Products : sess[t].mem[p] # None => p \in Touched(item.lines)
  BY DEF Ready
<1> QED
  BY <1>2, <1>3, <1>4 DEF OwnIds

LEMMA FlushedOwn ==
    ASSUME Typed, NEW t \in Threads, Ready(t), sess[t].pc = "loaded", Flushed(t)
    PROVE  LET item == Head(sess[t].todo)
           IN  /\ item \in Posted /\ sess'[t].txns = sess[t].txns \union {item}
               /\ OwnIds(t)' = OwnIds(t) \union {item.id} /\ item.id \notin OwnIds(t)
               /\ ~Recorded(item.id)
<1> DEFINE item == Head(sess[t].todo)
<1>1. item \in Posted
  BY DEF Typed, Session, Ready
<1>2. sess'[t].txns = sess[t].txns \union {item} /\ ~Recorded(item.id)
  BY DEF Flushed
<1>3. OwnIds(t)' = OwnIds(t) \union {item.id}
  <2> HIDE DEF item
  <2> QED
    BY <1>2 DEF OwnIds
<1>4. item.id \notin OwnIds(t)
  BY DEF Ready, OwnIds
<1> QED
  BY <1>1, <1>2, <1>3, <1>4

LEMMA LocksKept ==
    ASSUME Typed, Knows, Locks, Next
    PROVE  Locks'
<1>1. PICK t \in Threads :
           /\ Others(t)
           /\ \/ /\ UNCHANGED <<stock, txns, drift>>
                 /\ \/ Cleared(t) \/ Holding(t)
                    \/ Ready(t) /\ sess[t].pc = "loaded" /\ Flushed(t)
              \/ Commit(t) /\ Cleared(t)
  BY StepKinds
<1>2. \A u \in Threads \ {t} : sess'[u] = sess[u] /\ OwnIds(u)' = OwnIds(u)
  BY <1>1 DEF Others, OwnIds
<1>3. ASSUME NEW u \in Threads \ {t}
      PROVE  /\ \A x, y \in sess'[u].txns : x.id = y.id => x = y
             /\ \A p \in Products : sess'[u].row[p] = None => sess'[u].lost[p] = 0
             /\ \A i \in OwnIds(u)' : ~Recorded(i)'
  <2>1. \A i \in OwnIds(u) : Recorded(i)' <=> Recorded(i)
    <3>1. CASE UNCHANGED txns
      BY <3>1 DEF Recorded
    <3>2. CASE Commit(t)
      <4>1. \A i \in OwnIds(u) : i \in Ids /\ i \notin OwnIds(t)
        BY OwnIdsType DEF Locks
      <4> QED
        BY <3>2, <4>1, CommitRecords DEF OwnIds
    <3> QED
      BY <1>1, <3>1, <3>2
  <2> QED
    BY <1>2, <2>1 DEF Locks
<1>4. CASE Cleared(t)
  <2>1. OwnIds(t)' = {} /\ \A p \in Products : sess'[t].row[p] = None /\ sess'[t].lost[p] = 0
    BY <1>4 DEF Cleared, OwnIds, Idle
  <2>2. sess'[t].txns = {}
    BY <1>4 DEF Cleared
  <2> QED
    BY <1>2, <1>3, <2>1, <2>2 DEF Locks
<1>5. CASE Holding(t) /\ UNCHANGED txns
  <2>1. OwnIds(t)' = OwnIds(t) /\ \A i : Recorded(i)' <=> Recorded(i)
    BY <1>5 DEF Holding, OwnIds, Recorded
  <2> QED
    BY <1>2, <1>3, <1>5, <2>1 DEF Locks, Holding
<1>6. CASE Ready(t) /\ sess[t].pc = "loaded" /\ Flushed(t) /\ UNCHANGED txns
  <2> DEFINE item == Head(sess[t].todo)
  <2>1. /\ sess'[t].txns = sess[t].txns \union {item}
        /\ OwnIds(t)' = OwnIds(t) \union {item.id} /\ item.id \notin OwnIds(t)
        /\ ~Recorded(item.id)
    BY <1>6, FlushedOwn
  <2>2. \A x, y \in sess'[t].txns : x.id = y.id => x = y
    <3>1. \A x \in sess[t].txns : x.id # item.id
      BY <2>1 DEF OwnIds
    <3> HIDE DEF item
    <3> QED
      BY <2>1, <3>1 DEF Locks
  <2>3. \A i \in OwnIds(t)' : ~Recorded(i)'
    BY <1>6, <2>1 DEF Locks, Recorded
  <2>4. \A p \in Products : sess'[t].row[p] = None => sess'[t].lost[p] = 0
    <3>1. ASSUME NEW p \in Products, sess'[t].row[p] = None PROVE sess'[t].lost[p] = 0
      <4>1. sess[t].mem[p] = None /\ sess[t].row[p] = None
        BY <1>6, <3>1 DEF Flushed
      <4>2. sess'[t].lost[p] = sess[t].lost[p]
        BY <1>6, <4>1 DEF Flushed
      <4> QED
        BY <4>1, <4>2 DEF Locks
    <3> QED
      BY <3>1
  <2>5. ASSUME NEW u \in Threads \ {t}
        PROVE  /\ \A p \in Products : sess'[t].row[p] = None \/ sess[u].row[p] = None
               /\ OwnIds(t)' \intersect OwnIds(u) = {}
    <3>1. item.id \notin OwnIds(u)
      BY <1>6, FlushedIsFree
    <3>2. \A p \in Products : sess'[t].row[p] # None => sess[t].row[p] # None \/ sess[u].row[p] = None
      BY <1>6, FlushedIsFree
    <3> QED
      BY <2>1, <3>1, <3>2 DEF Locks
  <2> HIDE DEF item
  <2> QED
    BY <1>2, <1>3, <2>2, <2>3, <2>4, <2>5 DEF Locks
<1> QED
  BY <1>1, <1>4, <1>5, <1>6

LEMMA FlushedDue ==
    ASSUME Typed, Locks, NEW t \in Threads, Ready(t), sess[t].pc = "loaded", Flushed(t),
           UNCHANGED stock, NEW p \in Products
    PROVE  Due(t, p)' = Due(t, p) + Qty(Head(sess[t].todo).lines, p)
<1> DEFINE item == Head(sess[t].todo)
           mem == sess[t].mem[p]
           row == sess[t].row[p]
           lost == sess[t].lost[p]
           q == Qty(item.lines, p)
<1>1. item \in Posted
  BY FlushedOwn
<1>2. item.lines \in Seq(Piece)
  BY <1>1, PostedType
<1>3. q \in Int /\ (p \notin Touched(item.lines) => q = 0)
  BY <1>2, QtyInt
<1>4. mem \in Amount /\ row \in Amount /\ lost \in Int /\ stock[p] \in Int /\ None \notin Int
  BY SalesAssumption DEF Typed, Session
<1>5. /\ mem # None <=> p \in Touched(item.lines)
      /\ row # None /\ mem # None => mem + q = row
      /\ row = None => lost = 0
  BY DEF Ready, Locks
<1>6. /\ sess'[t].row[p] = IF mem # None THEN mem ELSE row
      /\ sess'[t].lost[p] = IF mem # None /\ row = None THEN stock[p] - (mem + q) ELSE lost
  BY DEF Flushed
<1> HIDE DEF item, mem, row, lost, q
<1>7. Due(t, p) = IF row = None THEN 0 ELSE stock[p] - row - lost
  BY DEF Due, row, lost
<1>8. CASE mem = None
  <2>1. Due(t, p)' = Due(t, p)
    BY <1>6, <1>7, <1>8 DEF Due, row
  <2>2. Due(t, p) \in Int
    BY <1>4, <1>7 DEF Amount
  <2> QED
    BY <1>3, <1>5, <1>8, <2>1, <2>2 DEF q, item
<1>9. CASE mem # None
  <2>1. Due(t, p)' = stock[p] - mem - (IF row = None THEN stock[p] - (mem + q) ELSE lost)
    BY <1>6, <1>9 DEF Due
  <2>2. Due(t, p)' = Due(t, p) + q
    BY <1>3, <1>4, <1>5, <1>7, <1>9, <2>1 DEF Amount
  <2> QED
    BY <2>2 DEF q, item
<1> QED
  BY <1>8, <1>9

(* What the items of a session take from a product is a sum over its own ids. *)
LEMMA TakingType ==
    ASSUME Typed, Locks, NEW t \in Threads, NEW p
    PROVE  /\ \A i \in OwnIds(t) : Taking(t, p)[i] \in Int
           /\ \A x \in sess[t].txns : Taking(t, p)[x.id] = Qty(x.lines, p)
<1>1. ASSUME NEW x \in sess[t].txns
      PROVE  Taking(t, p)[x.id] = Qty(x.lines, p) /\ Qty(x.lines, p) \in Int
  <2> DEFINE y == CHOOSE z \in sess[t].txns : z.id = x.id
  <2>1. y \in sess[t].txns /\ y.id = x.id
    OBVIOUS
  <2>2. y = x
    BY <2>1 DEF Locks
  <2>3. x.id \in OwnIds(t)
    BY DEF OwnIds
  <2>4. x.lines \in Seq(Piece)
    BY OwnIdsType, PostedType
  <2>5. Taking(t, p)[x.id] = Qty(y.lines, p)
    BY <2>3 DEF Taking
  <2> QED
    BY <2>2, <2>4, <2>5, QtyInt
<1> QED
  BY <1>1 DEF OwnIds

LEMMA FlushedTaking ==
    ASSUME Typed, Typed', Locks, Locks', NEW t \in Threads, Ready(t), sess[t].pc = "loaded",
           Flushed(t), NEW p
    PROVE  Total(Taking(t, p)', OwnIds(t)') =
               Total(Taking(t, p), OwnIds(t)) + Qty(Head(sess[t].todo).lines, p)
<1> DEFINE item == Head(sess[t].todo)
           old == Taking(t, p)
           new == Taking(t, p)'
           A == OwnIds(t)
<1>1. /\ item \in Posted /\ sess'[t].txns = sess[t].txns \union {item}
      /\ OwnIds(t)' = A \union {item.id} /\ item.id \notin A
  BY FlushedOwn
<1>2. \A x \in sess'[t].txns : new[x.id] = Qty(x.lines, p) /\ x.lines \in Seq(Piece)
  <2>1. sess'[t].txns \subseteq Posted
    BY DEF Typed, Session
  <2>2. ASSUME NEW x \in sess'[t].txns PROVE new[x.id] = Qty(x.lines, p)
    <3> DEFINE y == CHOOSE z \in sess'[t].txns : z.id = x.id
    <3>1. y \in sess'[t].txns /\ y.id = x.id
      OBVIOUS
    <3>2. y = x
      BY <3>1 DEF Locks
    <3>3. x.id \in OwnIds(t)'
      BY DEF OwnIds
    <3>4. new[x.id] = Qty(y.lines, p)
      BY <3>3 DEF Taking
    <3> QED
      BY <3>2, <3>4
  <2> QED
    BY <2>1, <2>2, PostedType
<1>3. new[item.id] = Qty(item.lines, p) /\ Qty(item.lines, p) \in Int
  <2>1. item \in sess'[t].txns
    BY <1>1
  <2> QED
    BY <1>2, <2>1, QtyInt
<1>4. \A i \in A : new[i] = old[i] /\ old[i] \in Int
  <2>1. ASSUME NEW x \in sess[t].txns PROVE new[x.id] = old[x.id]
    <3>1. old[x.id] = Qty(x.lines, p)
      BY TakingType
    <3>2. x \in sess'[t].txns
      BY <1>1
    <3> HIDE DEF new, old
    <3> QED
      BY <1>2, <3>1, <3>2
  <2>2. \A i \in A : old[i] \in Int
    BY TakingType
  <2> HIDE DEF new, old
  <2> QED
    BY <2>1, <2>2 DEF OwnIds
<1>5. IsFiniteSet(A)
  BY OwnIdsType
<1> HIDE DEF item, old, new, A
<1>6. IsFiniteSet(A \union {item.id}) /\ \A i \in A \union {item.id} : new[i] \in Int
  BY <1>3, <1>4, <1>5, FS_AddElement
<1>7. (A \union {item.id}) \ {item.id} = A
  BY <1>1
<1>8. Total(new, A \union {item.id}) = new[item.id] + Total(new, A)
  BY <1>6, <1>7, TotalRemove
<1>9. Total(new, A) = Total(old, A) /\ Total(old, A) \in Int
  BY <1>4, <1>5, TotalSame, TotalInt
<1>10. Total(new, A \union {item.id}) = Total(old, A) + Qty(item.lines, p)
  BY <1>3, <1>8, <1>9
<1> QED
  BY <1>1, <1>10 DEF item, old, new, A

LEMMA OwedKept ==
    ASSUME Typed, Knows, Locks, Owed, Next
    PROVE  Owed'
<1>1. PICK t \in Threads :
           /\ Others(t)
           /\ \/ /\ UNCHANGED <<stock, txns, drift>>
                 /\ \/ Cleared(t) \/ Holding(t)
                    \/ Ready(t) /\ sess[t].pc = "loaded" /\ Flushed(t)
              \/ Commit(t) /\ Cleared(t)
  BY StepKinds
<1>2. Typed' /\ Locks'
  BY StepKinds, LocksKept
<1>3. ASSUME NEW p \in Products
      PROVE  Due(t, p)' = Total(Taking(t, p)', OwnIds(t)')
  <2>1. CASE Cleared(t)
    <3>1. OwnIds(t)' = {} /\ Due(t, p)' = 0
      BY <2>1 DEF Cleared, OwnIds, Due, Idle
    <3>2. \A g : Total(g, {}) = 0
      BY TotalStep, FS_EmptySet
    <3> QED
      BY <3>1, <3>2
  <2>2. CASE Holding(t) /\ UNCHANGED stock
    <3>1. Due(t, p)' = Due(t, p) /\ OwnIds(t)' = OwnIds(t)
      BY <2>2 DEF Holding, OwnIds, Due
    <3>2. Taking(t, p)' = Taking(t, p)
      BY <2>2, <3>1 DEF Holding, Taking
    <3> QED
      BY <3>1, <3>2 DEF Owed
  <2>3. CASE Ready(t) /\ sess[t].pc = "loaded" /\ Flushed(t) /\ UNCHANGED stock
    BY <1>2, <2>3, FlushedDue, FlushedTaking DEF Owed
  <2> QED
    BY <1>1, <2>1, <2>2, <2>3
<1>4. ASSUME NEW u \in Threads \ {t}, NEW p \in Products
      PROVE  Due(u, p)' = Total(Taking(u, p)', OwnIds(u)')
  <2>1. sess'[u] = sess[u]
    BY <1>1 DEF Others
  <2>2. OwnIds(u)' = OwnIds(u)
    BY <2>1 DEF OwnIds
  <2>3. Taking(u, p)' = Taking(u, p)
    BY <2>1, <2>2 DEF Taking
  <2>4. sess[u].row[p] # None => stock'[p] = stock[p]
    BY <1>1 DEF Locks, Commit, Read
  <2>5. Due(u, p)' = Due(u, p)
    BY <2>1, <2>4 DEF Due
  <2> QED
    BY <2>2, <2>3, <2>5 DEF Owed
<1> QED
  BY <1>3, <1>4 DEF Owed

-----------------------------------------------------------------------------
(* The sum over the log. *)

LogQty(T, p) == [i \in Ids |-> Qty(T[i].lines, p)]

LEMMA LogSum ==
    ASSUME NEW T, NEW p
    PROVE  MapThenSumSet(LAMBDA i : Qty(T[i].lines, p), Ids) = Total(LogQty(T, p), Ids)
<1> DEFINE one(h) == h = [s \in SUBSET Ids |->
                            IF s = {} THEN 0 ELSE Qty(T[Pick(s)].lines, p) + h[s \ {Pick(s)}]]
           k == CHOOSE h : one(h)
           m == CHOOSE h : Adds(h, LogQty(T, p), Ids)
<1>1. MapThenSumSet(LAMBDA i : Qty(T[i].lines, p), Ids) = k[Ids]
  BY DEF MapThenSumSet, MapThenFoldSet, Pick
<1>2. Total(LogQty(T, p), Ids) = m[Ids]
  BY TotalIs
<1>3. \A s \in SUBSET Ids : s # {} => LogQty(T, p)[Pick(s)] = Qty(T[Pick(s)].lines, p)
  BY PickIn DEF LogQty
<1>4. \A h : one(h) <=> Adds(h, LogQty(T, p), Ids)
  BY <1>3 DEF Adds
<1>5. Adds(m, LogQty(T, p), Ids)
  BY IdsFinite, Exists
<1>6. one(k)
  <2> HIDE DEF one
  <2> QED
    BY <1>4, <1>5
<1>7. Adds(k, LogQty(T, p), Ids)
  BY <1>4, <1>6
<1>8. k = m
  <2> HIDE DEF k, m
  <2> QED
    BY <1>5, <1>7, IdsFinite, Unique
<1> QED
  BY <1>1, <1>2, <1>8

Accounted ==
    \A p \in Products : stock[p] + drift[p] = OpeningStock[p] - Total(LogQty(txns, p), Ids)

LEMMA AccountedIs == StockAccounted <=> Accounted
<1>1. \A p : MapThenSumSet(LAMBDA i : Qty(txns[i].lines, p), Ids) = Total(LogQty(txns, p), Ids)
  BY LogSum
<1> QED
  BY <1>1 DEF StockAccounted, Accounted

LEMMA LogQtyType ==
    ASSUME NEW T \in [Ids -> {NoTxn} \union {Row(x) : x \in Posted}], NEW p
    PROVE  \A i \in Ids : LogQty(T, p)[i] \in Int
BY TxnType, QtyInt DEF LogQty

LEMMA NothingSold == \A p : Qty(NoTxn.lines, p) = 0
<1>1. NoTxn.lines \in Seq(Piece) /\ Touched(NoTxn.lines) = {}
  BY DEF NoTxn, Touched
<1> QED
  BY <1>1, QtyInt

LEMMA CommitAccounted ==
    ASSUME Typed, Locks, Owed, Accounted, NEW t \in Threads, Commit(t)
    PROVE  Accounted'
<1> SUFFICES ASSUME NEW p \in Products
             PROVE  stock'[p] + drift'[p] = OpeningStock[p] - Total(LogQty(txns', p), Ids)
  BY DEF Accounted
<1>1. Typed'
  BY CommitDoes
<1> DEFINE A == OwnIds(t)
           d == Taking(t, p)
           g == LogQty(txns, p)
           k == LogQty(txns', p)
<1>2. A \in SUBSET Ids /\ IsFiniteSet(A)
  BY OwnIdsType
<1>3. \A i \in Ids : g[i] \in Int /\ k[i] \in Int
  <2>1. \A i \in Ids : g[i] \in Int
    BY LogQtyType DEF Typed
  <2>2. \A i \in Ids : k[i] \in Int
    BY <1>1, LogQtyType DEF Typed
  <2> QED
    BY <2>1, <2>2
<1>4. ASSUME NEW i \in A PROVE d[i] \in Int /\ k[i] = g[i] + d[i]
  <2>1. d[i] \in Int
    BY TakingType
  <2>2. g[i] = 0
    BY <1>2, NothingSold DEF LogQty, Locks, Recorded
  <2>3. k[i] = d[i]
    <3> DEFINE y == CHOOSE x \in sess[t].txns : x.id = i
    <3>1. \E x \in sess[t].txns : x.id = i
      BY DEF OwnIds
    <3>2. txns'[i] = Row(y)
      BY <1>2, <3>1 DEF Commit
    <3>3. y \in Posted
      BY <3>1, OwnIdsType
    <3>4. d[i] = Qty(y.lines, p)
      BY DEF Taking
    <3> HIDE DEF y
    <3>5. txns'[i].lines = y.lines
      BY <3>2, <3>3, RowType
    <3> QED
      BY <1>2, <3>4, <3>5 DEF LogQty
  <2> HIDE DEF d, g, k
  <2> QED
    BY <2>1, <2>2, <2>3
<1>5. \A i \in Ids \ A : k[i] = g[i]
  <2>1. \A i \in Ids \ A : txns'[i] = txns[i]
    BY DEF Commit, OwnIds
  <2> QED
    BY <2>1 DEF LogQty
<1>6. d = Taking(t, p) /\ Due(t, p) = Total(d, A)
  BY DEF Owed
<1> HIDE DEF A, d, g, k
<1>7. Total(k, Ids) = Total(g, Ids) + Total(d, A)
  BY <1>2, <1>3, <1>4, <1>5, IdsFinite, TotalChange
<1>8. Total(g, Ids) \in Int /\ Total(d, A) \in Int
  BY <1>2, <1>3, <1>4, IdsFinite, TotalInt
<1>9. stock[p] + drift[p] = OpeningStock[p] - Total(g, Ids)
  BY DEF Accounted, g
<1>10. /\ stock'[p] = IF sess[t].row[p] = None THEN stock[p] ELSE sess[t].row[p]
       /\ drift'[p] = drift[p] + sess[t].lost[p]
  BY DEF Commit, Read
<1>11. sess[t].row[p] = None => sess[t].lost[p] = 0
  BY DEF Locks
<1>12. /\ stock[p] \in Int /\ drift[p] \in Int /\ sess[t].lost[p] \in Int
       /\ sess[t].row[p] # None => sess[t].row[p] \in Int
       /\ OpeningStock[p] \in Int
  BY SalesAssumption DEF Typed, Session, Amount
<1>13. stock'[p] + drift'[p] = stock[p] + drift[p] - Due(t, p)
  BY <1>10, <1>11, <1>12 DEF Due
<1>14. stock'[p] + drift'[p] = OpeningStock[p] - Total(k, Ids)
  BY <1>6, <1>7, <1>8, <1>9, <1>12, <1>13
<1> QED
  BY <1>14 DEF k

-----------------------------------------------------------------------------
(* The invariant, and the refinement. *)

SalesInv == Typed /\ Knows /\ Locks /\ Owed /\ Accounted

LEMMA InitTyped == Init => Typed
BY IdleIsSession, SalesAssumption DEF Init, Typed

LEMMA SalesInit == Init => SalesInv
<1> SUFFICES ASSUME Init PROVE SalesInv
  OBVIOUS
<1>1. \A t \in Threads : sess[t] = Idle
  BY DEF Init
<1>2. /\ Idle.pc = "idle" /\ Idle.kind = "single" /\ Idle.todo = <<>> /\ Idle.txns = {}
      /\ Idle.accepted = 0 /\ Idle.errors = <<>> /\ Idle.asked = <<>>
      /\ \A p \in Products : Idle.row[p] = None /\ Idle.lost[p] = 0
  BY DEF Idle
<1>3. Typed
  BY InitTyped
<1>4. Knows
  BY <1>1, <1>2 DEF Knows, Ready, Counted, Told
<1>5. \A t \in Threads : OwnIds(t) = {}
  BY <1>1, <1>2 DEF OwnIds
<1>6. Locks
  BY <1>1, <1>2, <1>5 DEF Locks
<1>7. Owed
  <2>1. \A g : Total(g, {}) = 0
    BY TotalStep, FS_EmptySet
  <2> QED
    BY <1>1, <1>2, <1>5, <2>1 DEF Owed, Due
<1>8. Accounted
  <2>1. ASSUME NEW p \in Products PROVE Total(LogQty(txns, p), Ids) = 0
    <3> DEFINE g == LogQty(txns, p)
    <3>1. \A i \in Ids : g[i] = 0
      BY NothingSold DEF Init, LogQty
    <3>2. \A i \in {} : g[i] \in Int /\ g[i] = g[i] + g[i]
      OBVIOUS
    <3>3. Total(g, Ids) = Total(g, Ids) + Total(g, Ids)
      <4> HIDE DEF g
      <4>1. \A i \in Ids : g[i] \in Int /\ g[i] = g[i] + g[i]
        BY <3>1
      <4>2. Total(g, Ids) = Total(g, Ids) + Total(g, Ids)
        BY <4>1, IdsFinite, TotalChange
      <4> QED
        BY <4>2
    <3>4. Total(g, Ids) \in Int
      <4> HIDE DEF g
      <4> QED
        BY <3>1, IdsFinite, TotalInt
    <3> HIDE DEF g
    <3>5. Total(g, Ids) = 0
      <4>1. \A n \in Int : n = n + n => n = 0
        OBVIOUS
      <4> QED
        BY <3>3, <3>4, <4>1
    <3> QED
      BY <3>5 DEF g
  <2> QED
    BY <2>1, SalesAssumption DEF Accounted, Init
<1> QED
  BY <1>3, <1>4, <1>6, <1>7, <1>8 DEF SalesInv

LEMMA SalesStep ==
    ASSUME SalesInv, [Next]_vars
    PROVE  SalesInv'
<1>1. Typed /\ Knows /\ Locks /\ Owed /\ Accounted
  BY DEF SalesInv
<1>2. CASE Next
  <2>1. Typed' /\ Knows' /\ Locks' /\ Owed'
    BY <1>1, <1>2, StepKinds, KnowsKept, LocksKept, OwedKept
  <2>2. Accounted'
    <3>1. \/ UNCHANGED <<stock, txns, drift>>
          \/ \E t \in Threads : Commit(t)
      BY <1>1, <1>2, StepKinds
    <3>2. CASE UNCHANGED <<stock, txns, drift>>
      BY <1>1, <3>2 DEF Accounted
    <3> QED
      BY <1>1, <3>1, <3>2, CommitAccounted
  <2> QED
    BY <2>1, <2>2 DEF SalesInv
<1>3. CASE UNCHANGED vars
  <2>1. UNCHANGED <<stock, txns, sess, drift>>
    BY <1>3 DEF vars
  <2>2. Typed' /\ Accounted'
    BY <1>1, <2>1 DEF Typed, Accounted
  <2>3. Knows'
    BY <1>1, <2>1 DEF Knows, Ready, Counted, Told, Recorded
  <2>4. /\ \A t : OwnIds(t)' = OwnIds(t)
        /\ \A t, p : Due(t, p)' = Due(t, p)
    BY <2>1 DEF OwnIds, Due
  <2>5. \A t, p : Taking(t, p)' = Taking(t, p)
    BY <2>1, <2>4 DEF Taking
  <2>6. Locks'
    BY <1>1, <2>1, <2>4 DEF Locks, Recorded
  <2>7. Owed'
    BY <1>1, <2>4, <2>5 DEF Owed
  <2> QED
    BY <2>2, <2>3, <2>6, <2>7 DEF SalesInv
<1> QED
  BY <1>2, <1>3

LEMMA SalesInvariant == Spec => []SalesInv
BY SalesInit, SalesStep, PTL DEF Spec

LEMMA TypesFollow == SalesInv => StockInv
<1> SUFFICES ASSUME SalesInv PROVE StockInv
  OBVIOUS
<1>1. \A i \in Ids : txns[i].of \in Ids \union {None}
  BY TxnType DEF SalesInv, Typed
<1>2. stock \in [Products -> Int] /\ drift \in [Products -> Int]
  BY DEF SalesInv, Typed
<1>3. ASSUME NEW t \in Threads
      PROVE  /\ sess[t].pc \in {"idle", "next", "loaded"}
             /\ sess[t].mem \in [Products -> Amount] /\ sess[t].row \in [Products -> Amount]
             /\ {x.id : x \in sess[t].txns} \subseteq Range(sess[t].asked)
             /\ sess[t].accepted + Len(sess[t].errors) + Len(sess[t].todo) <= Len(sess[t].asked)
  BY DEF SalesInv, Typed, Session, Knows, Counted
<1>4. TypeOK
  BY <1>1, <1>2, <1>3 DEF TypeOK
<1> QED
  BY <1>4, AccountedIs DEF StockInv, SalesInv

LEMMA UnreportedFollows == SalesInv => UnreportedIsRecorded
BY DEF SalesInv, Knows, Told, UnreportedIsRecorded

(* Each step is a step of SaleLog or leaves its variables alone. *)

DuesBecome(t, due) ==
    [u \in Threads |-> [p \in Products |-> Due(u, p)']] =
        [[u \in Threads |-> [p \in Products |-> Due(u, p)]] EXCEPT ![t] = due]

LEMMA DuesSet ==
    ASSUME NEW t \in Threads, NEW f, f = [p \in Products |-> f[p]],
           \A u \in Threads, p \in Products : Due(u, p)' = IF u = t THEN f[p] ELSE Due(u, p)
    PROVE  DuesBecome(t, f)
<1> DEFINE was(u) == [p \in Products |-> Due(u, p)]
           is(u) == [p \in Products |-> Due(u, p)']
<1>1. \A u \in Threads : is(u) = IF u = t THEN f ELSE was(u)
  OBVIOUS
<1> HIDE DEF was, is
<1>2. [u \in Threads |-> is(u)] = [[u \in Threads |-> was(u)] EXCEPT ![t] = f]
  BY <1>1
<1> QED
  BY <1>2 DEF DuesBecome, was, is

LEMMA ClearedDrops ==
    ASSUME Typed, NEW t \in Threads, Others(t), Cleared(t), UNCHANGED <<stock, txns, drift>>
    PROVE  Log!Drop(t)
<1>1. [u \in Threads |-> sess'[u].txns] = [[u \in Threads |-> sess[u].txns] EXCEPT ![t] = {}]
  BY DEF Cleared, Others
<1>2. \A u \in Threads, p \in Products : Due(u, p)' = IF u = t THEN 0 ELSE Due(u, p)
  BY DEF Cleared, Idle, Others, Due
<1>3. DuesBecome(t, [p \in Products |-> 0])
  <2> DEFINE none == [p \in Products |-> 0]
  <2>1. none = [p \in Products |-> none[p]] /\ \A p \in Products : none[p] = 0
    OBVIOUS
  <2> HIDE DEF none
  <2>2. DuesBecome(t, none)
    BY <1>2, <2>1, DuesSet
  <2> QED
    BY <2>2 DEF none
<1> QED
  BY <1>1, <1>3 DEF Log!Drop, Log!Emptied, Due, DuesBecome

LEMMA HoldingStutters ==
    ASSUME NEW t \in Threads, Others(t), Holding(t), UNCHANGED <<stock, txns, drift>>
    PROVE  UNCHANGED Log!vars
<1>1. \A u \in Threads : /\ sess'[u].txns = sess[u].txns /\ sess'[u].row = sess[u].row
                         /\ sess'[u].lost = sess[u].lost
  BY DEF Holding, Others
<1> QED
  BY <1>1 DEF Log!vars

LEMMA FlushedTakes ==
    ASSUME Typed, Locks, NEW t \in Threads, Others(t), Ready(t), sess[t].pc = "loaded",
           Flushed(t), UNCHANGED <<stock, txns, drift>>
    PROVE  \E x \in Posted : Log!Take(t, x)
<1>0. PICK item \in Posted : item = Head(sess[t].todo)
  BY FlushedOwn
<1>1. /\ item \in Posted /\ sess'[t].txns = sess[t].txns \union {item}
      /\ item.id \notin OwnIds(t) /\ ~Recorded(item.id)
  BY <1>0, FlushedOwn
<1>2. \A u \in Threads \ {t} : item.id \notin OwnIds(u)
  BY <1>0, FlushedIsFree
<1>3. \A u \in Threads : \A y \in sess[u].txns : y.id # item.id
  BY <1>1, <1>2 DEF OwnIds
<1>4. [u \in Threads |-> sess'[u].txns]
        = [[u \in Threads |-> sess[u].txns] EXCEPT ![t] = @ \union {item}]
  BY <1>1 DEF Others
<1>5. \A u \in Threads, p \in Products :
        Due(u, p)' = IF u = t THEN Due(t, p) + Qty(item.lines, p) ELSE Due(u, p)
  <2>1. \A p \in Products : Due(t, p)' = Due(t, p) + Qty(item.lines, p)
    BY <1>0, FlushedDue
  <2>2. \A u \in Threads \ {t} : \A p \in Products : Due(u, p)' = Due(u, p)
    BY DEF Others, Due
  <2> QED
    BY <2>1, <2>2
<1>6. DuesBecome(t, [p \in Products |-> Due(t, p) + Qty(item.lines, p)])
  <2> DEFINE sum == [p \in Products |-> Due(t, p) + Qty(item.lines, p)]
  <2>1. /\ sum = [p \in Products |-> sum[p]]
        /\ \A p \in Products : sum[p] = Due(t, p) + Qty(item.lines, p)
    OBVIOUS
  <2> HIDE DEF sum
  <2>2. DuesBecome(t, sum)
    BY <1>5, <2>1, DuesSet
  <2> QED
    BY <2>2 DEF sum
<1>7. [u \in Threads |-> [p \in Products |-> Due(u, p)']] =
        [[u \in Threads |-> [p \in Products |-> Due(u, p)]] EXCEPT
           ![t] = [p \in Products |-> @[p] + Qty(item.lines, p)]]
  BY <1>6 DEF DuesBecome
<1>8. Log!Take(t, item)
  BY <1>1, <1>3, <1>4, <1>7 DEF Log!Take, Recorded, Due
<1> QED
  BY <1>8

LEMMA CommitSettles ==
    ASSUME Typed, Locks, NEW t \in Threads, Others(t), Cleared(t), Commit(t)
    PROVE  Log!Settle(t)
<1>1. \A u \in Threads, p \in Products : Due(u, p)' = IF u = t THEN 0 ELSE Due(u, p)
  <2>1. ASSUME NEW u \in Threads, NEW p \in Products, u # t PROVE Due(u, p)' = Due(u, p)
    <3>1. sess'[u] = sess[u]
      BY <2>1 DEF Others
    <3>2. sess[u].row[p] # None => stock'[p] = stock[p]
      BY <2>1 DEF Locks, Commit, Read
    <3> QED
      BY <3>1, <3>2 DEF Due
  <2>2. \A p \in Products : Due(t, p)' = 0
    BY DEF Cleared, Idle, Due
  <2> QED
    BY <2>1, <2>2
<1>2. DuesBecome(t, [p \in Products |-> 0])
  <2> DEFINE none == [p \in Products |-> 0]
  <2>1. none = [p \in Products |-> none[p]] /\ \A p \in Products : none[p] = 0
    OBVIOUS
  <2> HIDE DEF none
  <2>2. DuesBecome(t, none)
    BY <1>1, <2>1, DuesSet
  <2> QED
    BY <2>2 DEF none
<1>3. [u \in Threads |-> sess'[u].txns] = [[u \in Threads |-> sess[u].txns] EXCEPT ![t] = {}]
  BY DEF Cleared, Others
<1>4. ASSUME NEW p \in Products
      PROVE  stock'[p] + drift'[p] = (stock[p] + drift[p]) - Due(t, p)
  <2>1. /\ stock'[p] = IF sess[t].row[p] = None THEN stock[p] ELSE sess[t].row[p]
        /\ drift'[p] = drift[p] + sess[t].lost[p]
    BY DEF Commit, Read
  <2>2. sess[t].row[p] = None => sess[t].lost[p] = 0
    BY DEF Locks
  <2>3. /\ stock[p] \in Int /\ drift[p] \in Int /\ sess[t].lost[p] \in Int
        /\ sess[t].row[p] # None => sess[t].row[p] \in Int
    BY DEF Typed, Session, Amount
  <2> QED
    BY <2>1, <2>2, <2>3 DEF Due
<1> DEFINE level == [p \in Products |-> stock[p] + drift[p]]
           due == [u \in Threads |-> [p \in Products |-> Due(u, p)]]
<1>5. \A p \in Products : level[p] - due[t][p] = stock'[p] + drift'[p]
  BY <1>4
<1>6. [p \in Products |-> stock'[p] + drift'[p]] = [p \in Products |-> level[p] - due[t][p]]
  <2> HIDE DEF level, due
  <2> QED
    BY <1>5
<1>7. txns' = [i \in Ids |-> IF \E x \in [u \in Threads |-> sess[u].txns][t] : x.id = i
                             THEN Row(CHOOSE x \in [u \in Threads |-> sess[u].txns][t] : x.id = i)
                             ELSE txns[i]]
  <2>1. [u \in Threads |-> sess[u].txns][t] = sess[t].txns
    OBVIOUS
  <2> QED
    BY <2>1 DEF Commit
<1> QED
  BY <1>2, <1>3, <1>6, <1>7 DEF Log!Settle, Log!Emptied, DuesBecome, Due

LEMMA StepMaps ==
    ASSUME SalesInv, [Next]_vars
    PROVE  [Log!Next]_(Log!vars)
<1>1. CASE Next
  <2>1. PICK t \in Threads :
           /\ Others(t)
           /\ \/ /\ UNCHANGED <<stock, txns, drift>>
                 /\ \/ Cleared(t) \/ Holding(t)
                    \/ Ready(t) /\ sess[t].pc = "loaded" /\ Flushed(t)
              \/ Commit(t) /\ Cleared(t)
    BY <1>1, StepKinds DEF SalesInv
  <2>2. Log!Next \/ UNCHANGED Log!vars
    BY <2>1, ClearedDrops, HoldingStutters, FlushedTakes, CommitSettles DEF SalesInv, Log!Next
  <2> QED
    BY <2>2
<1>2. CASE UNCHANGED vars
  BY <1>2 DEF vars, Log!vars
<1> QED
  BY <1>1, <1>2

LEMMA InitMaps == Init => Log!Init
<1> SUFFICES ASSUME Init PROVE Log!Init
  OBVIOUS
<1>1. [p \in Products |-> stock[p] + drift[p]] = OpeningStock
  BY SalesAssumption DEF Init
<1>2. \A t \in Threads : sess[t].txns = {} /\ \A p \in Products : sess[t].row[p] = None
  BY DEF Init, Idle
<1> QED
  BY <1>1, <1>2 DEF Init, Log!Init

-----------------------------------------------------------------------------
(* Nobody is stuck. *)

(* A thread without a request holds nothing. *)
AtRest == \A t \in Threads : sess[t].pc = "idle" => sess[t] = Idle

LEMMA AtRestKept ==
    ASSUME SalesInv, AtRest, [Next]_vars
    PROVE  AtRest'
<1>1. CASE UNCHANGED vars
  BY <1>1 DEF vars, AtRest
<1>2. CASE Next
  <2>1. PICK t \in Threads :
             \/ \E s \in Sales : Submit(t, "single", <<s>>)
             \/ \E b \in Batches : Submit(t, "batch", b)
             \/ \E o \in Ids, r \in ReturnIds, items \in Returned : LoadReturn(t, o, r, items)
             \/ Load(t) \/ Flush(t) \/ DeadlockVictim(t) \/ Commit(t) \/ Crash(t)
    BY <1>2 DEF Next
  <2>2. Typed /\ (sess[t].pc = "loaded" => sess[t].todo # <<>>)
    BY DEF SalesInv, Knows, Ready
  <2>3. Others(t)
    BY <2>1, <2>2, StepCases
  <2>4. sess'[t] = Idle \/ sess'[t].pc # "idle"
    BY <2>1, <2>2, StepCases DEF Rejected, Skipped, PassedOver, Taken, Flushed
  <2> QED
    BY <2>3, <2>4 DEF AtRest, Others
<1> QED
  BY <1>1, <1>2

(* What is flushed or recorded, or about to be, is only of products of the store. *)
Stocked ==
    /\ \A i \in Ids : Touched(txns[i].lines) \subseteq Products
    /\ \A t \in Threads :
         /\ \A x \in sess[t].txns : Touched(x.lines) \subseteq Products
         /\ sess[t].pc = "loaded" => Touched(Head(sess[t].todo).lines) \subseteq Products

LEMMA StockedInit == Init => Stocked
<1> SUFFICES ASSUME Init PROVE Stocked
  OBVIOUS
<1>1. Touched(NoTxn.lines) = {}
  BY DEF NoTxn, Touched
<1>2. \A i \in Ids : txns[i] = NoTxn
  BY DEF Init
<1>3. \A t \in Threads : sess[t].txns = {} /\ sess[t].pc = "idle"
  BY DEF Init, Idle
<1> QED
  BY <1>1, <1>2, <1>3 DEF Stocked

LEMMA StockedKept ==
    ASSUME SalesInv, Stocked, [Next]_vars
    PROVE  Stocked'
<1>1. CASE UNCHANGED vars
  BY <1>1 DEF vars, Stocked
<1>2. CASE Next
  <2>1. PICK t \in Threads :
             \/ \E s \in Sales : Submit(t, "single", <<s>>)
             \/ \E b \in Batches : Submit(t, "batch", b)
             \/ \E o \in Ids, r \in ReturnIds, items \in Returned : LoadReturn(t, o, r, items)
             \/ Load(t) \/ Flush(t) \/ DeadlockVictim(t) \/ Commit(t) \/ Crash(t)
    BY <1>2 DEF Next
  <2>2. Typed /\ Ready(t) /\ (sess[t].pc = "loaded" => sess[t].todo # <<>>)
    BY DEF SalesInv, Knows, Ready
  <2>3. Others(t) /\ Typed'
    BY <2>1, <2>2, StepCases
  <2>4. \A i \in Ids : Touched(txns'[i].lines) \subseteq Products
    <3>1. CASE Commit(t)
      <4> SUFFICES ASSUME NEW i \in Ids PROVE Touched(txns'[i].lines) \subseteq Products
        OBVIOUS
      <4>1. CASE \E x \in sess[t].txns : x.id = i
        <5> DEFINE y == CHOOSE x \in sess[t].txns : x.id = i
        <5>1. y \in sess[t].txns /\ txns'[i] = Row(y)
          BY <3>1, <4>1 DEF Commit
        <5>2. Touched(y.lines) \subseteq Products
          BY <5>1 DEF Stocked
        <5>3. txns'[i].lines = y.lines
          BY <5>1 DEF Row
        <5> QED
          BY <5>2, <5>3
      <4>2. CASE ~\E x \in sess[t].txns : x.id = i
        BY <3>1, <4>2 DEF Commit, Stocked
      <4> QED
        BY <4>1, <4>2
    <3>2. CASE UNCHANGED txns
      BY <3>2 DEF Stocked
    <3> QED
      BY <2>1, <2>2, <3>1, <3>2, StepCases
  <2>5. \A x \in sess'[t].txns : Touched(x.lines) \subseteq Products
    <3>1. CASE sess'[t] = Idle \/ \E kind, sales : Begun(t, kind, sales)
      <4>1. Idle.txns = {}
        BY DEF Idle
      <4>2. sess'[t].txns = {}
        BY <3>1, <4>1 DEF Begun, Blank
      <4> QED
        BY <4>2
    <3>2. CASE Rejected(t) \/ Skipped(t) \/ Taken(t)
      BY <3>2 DEF Stocked, Rejected, Skipped, Taken, PassedOver, SameWork
    <3>3. CASE sess[t].pc = "loaded" /\ Flushed(t)
      BY <3>3 DEF Stocked, Flushed
    <3> QED
      BY <2>1, <2>2, <3>1, <3>2, <3>3, StepCases
  <2>6. ASSUME sess'[t].pc = "loaded"
        PROVE  Touched(Head(sess'[t].todo).lines) \subseteq Products
    <3>1. CASE \E o \in Ids, r \in ReturnIds, items \in Returned : LoadReturn(t, o, r, items)
      <4>1. PICK o \in Ids, r \in ReturnIds, items \in Returned : LoadReturn(t, o, r, items)
        BY <3>1
      <4> DEFINE item == [id |-> r, lines |-> ReturnLines(items), of |-> o]
      <4>2. sess'[t].todo = <<item>>
        BY <2>2, <4>1 DEF LoadReturn, Typed, Idle
      <4>3. Head(<<item>>) = item
        OBVIOUS
      <4>4. Touched(items) \subseteq Touched(txns[o].lines)
        BY <4>1 DEF LoadReturn, Touched
      <4> QED
        BY <4>2, <4>3, <4>4, NegatedLines DEF Stocked
    <3>2. CASE Load(t)
      <4>1. sess[t].todo # <<>> /\ sess[t].pc = "next"
        BY <3>2 DEF Load
      <4>2. ~SkipDuplicate(t) /\ ~RejectMissing(t)
        <5>1. \A u \in Threads : sess'[u] = Idle \/ Rejected(u) \/ Skipped(u) => sess'[u].pc # "loaded"
          BY DEF Idle, Rejected, Skipped, PassedOver
        <5> QED
          BY <2>2, <2>6, <4>1, <5>1, SkipDoes, RejectDoes DEF RejectMissing
      <4>3. Deduct(t)
        BY <3>2, <4>2 DEF Load
      <4>4. Touched(Head(sess[t].todo).lines) \subseteq Products
        BY <4>3 DEF Deduct
      <4>5. sess'[t].todo = sess[t].todo
        BY <2>2, <4>1, <4>3, DeductDoes DEF Taken
      <4> QED
        BY <4>4, <4>5
    <3>3. ASSUME ~Load(t), ~\E o \in Ids, r \in ReturnIds, items \in Returned : LoadReturn(t, o, r, items)
          PROVE  FALSE
      <4>1. CASE Flush(t) \/ DeadlockVictim(t)
        <5>1. sess'[t] = Idle \/ Rejected(t) \/ Flushed(t)
          BY <2>2, <4>1, FlushDoes, RejectDoes DEF Flush, DeadlockVictim
        <5> QED
          BY <2>6, <5>1 DEF Idle, Rejected, PassedOver, Flushed
      <4>2. CASE Commit(t) \/ Crash(t)
        BY <2>2, <2>6, <4>2, CommitDoes DEF Crash, Typed, Idle
      <4>3. CASE \E kind, sales : Submit(t, kind, sales)
        BY <2>2, <2>6, <4>3 DEF Submit, Typed
      <4> QED
        BY <2>1, <3>3, <4>1, <4>2, <4>3
    <3> QED
      BY <3>1, <3>2, <3>3
  <2> QED
    BY <2>3, <2>4, <2>5, <2>6 DEF Stocked, Others
<1> QED
  BY <1>1, <1>2

(* A request that cannot go on is about to flush, and waits for another request: whose row  *)
(* or id it needs is not at rest.                                                           *)
LEMMA GoesOnOrWaits ==
    ASSUME SalesInv, AtRest, Stocked, NEW t \in Threads, sess[t].pc # "idle", ~CanGoOn(t)
    PROVE  \E u \in Threads : sess[u].pc # "idle" /\ <<t, u>> \in Waiting
<1>1. sess[t] \in Session /\ Ready(t)
  BY DEF SalesInv, Typed, Knows
<1>2. sess[t].pc = "loaded"
  <2>1. sess[t].pc \in {"next", "loaded"}
    BY <1>1 DEF Session
  <2>2. ASSUME sess[t].todo # <<>>
        PROVE  \/ Touched(Head(sess[t].todo).lines) \intersect Foreign # {}
               \/ Touched(Head(sess[t].todo).lines) \subseteq Products
    <3> DEFINE lines == Head(sess[t].todo).lines
    <3>1. lines \in Seq(Piece)
      BY <1>1, <2>2, PostedType DEF Session
    <3>2. \A i \in DOMAIN lines : lines[i].product \in Products \union Foreign
      <4> HIDE DEF lines
      <4>1. \A i \in DOMAIN lines : lines[i] \in Piece
        BY <3>1
      <4> QED
        BY <4>1 DEF Piece
    <3> QED
      BY <3>2 DEF Touched
  <2> QED
    BY <2>1, <2>2 DEF CanGoOn, CanLoad
<1>3. PICK u \in Threads : Blocks(u, t)
  BY <1>2 DEF CanGoOn, CanFlush
<1>4. <<t, u>> \in Waiting
  BY <1>3 DEF Waiting
<1>5. sess[u] # Idle
  <2>1. Touched(Head(sess[t].todo).lines) \subseteq Products
    BY <1>2 DEF Stocked
  <2>2. ASSUME sess[u] = Idle PROVE FALSE
    <3>1. sess[u].txns = {} /\ \A p \in Products : sess[u].row[p] = None
      BY <2>2 DEF Idle
    <3> QED
      BY <1>3, <2>1, <3>1 DEF Blocks
  <2> QED
    BY <2>2
<1> QED
  BY <1>4, <1>5 DEF AtRest

LEMMA NobodyStuck == SalesInv /\ AtRest /\ Stocked => NobodyIsStuck
<1> SUFFICES ASSUME SalesInv, AtRest, Stocked, NEW t \in Threads, sess[t].pc # "idle"
             PROVE  HasWayOut(t, {u \in Threads : CanGoOn(u) \/ Deadlocked(u)}, Waiting, Threads)
  BY DEF NobodyIsStuck
<1> DEFINE busy == {u \in Threads : sess[u].pc # "idle"}
           M == {u \in Threads : CanGoOn(u) \/ Deadlocked(u)}
<1>1. \A s \in busy : s \in M \/ \E u \in busy : <<s, u>> \in Waiting
  BY GoesOnOrWaits
<1>2. \A s \in busy : OnCycle(s, Waiting, Threads) => s \in M
  BY DEF Deadlocked
<1>3. IsFiniteSet(Threads) /\ Waiting \in SUBSET (Threads \X Threads)
  BY SalesAssumption DEF Waiting
<1> HIDE DEF M
<1>4. t \in busy /\ busy \in SUBSET Threads
  OBVIOUS
<1> HIDE DEF busy
<1>5. HasWayOut(t, M, Waiting, Threads)
  BY <1>1, <1>2, <1>3, <1>4, EveryoneHasWayOut
<1> QED
  BY <1>5 DEF M

-----------------------------------------------------------------------------
(* Nobody runs in circles. *)

(* What a request has still to do: each item to load and to flush, then to commit. *)
Left(t) ==
    IF sess[t].pc = "idle" THEN 0
    ELSE 2 * Len(sess[t].todo) + (IF sess[t].pc = "next" THEN 2 ELSE 1)

(* A request that moves has less to do. *)
Shortens ==
    \A t \in Threads :
        sess[t].pc # "idle" => sess'[t] = sess[t] \/ (Left(t)' \in Nat /\ Left(t)' < Left(t))

LEMMA SalesShorten ==
    ASSUME SalesInv, [Next]_vars
    PROVE  Shortens
<1>1. CASE UNCHANGED vars
  BY <1>1 DEF vars, Shortens
<1>2. CASE Next
  <2>1. PICK t \in Threads :
             \/ \E s \in Sales : Submit(t, "single", <<s>>)
             \/ \E b \in Batches : Submit(t, "batch", b)
             \/ \E o \in Ids, r \in ReturnIds, items \in Returned : LoadReturn(t, o, r, items)
             \/ Load(t) \/ Flush(t) \/ DeadlockVictim(t) \/ Commit(t) \/ Crash(t)
    BY <1>2 DEF Next
  <2>2. Typed /\ (sess[t].pc = "loaded" => sess[t].todo # <<>>)
    BY DEF SalesInv, Knows, Ready
  <2>3. Others(t)
    BY <2>1, <2>2, StepCases
  <2>4. SUFFICES ASSUME sess[t].pc # "idle"
                 PROVE  sess'[t] = sess[t] \/ (Left(t)' \in Nat /\ Left(t)' < Left(t))
    BY <2>3 DEF Shortens, Others
  <2>5. sess[t] \in Session /\ sess[t].pc \in {"next", "loaded"} /\ sess[t].todo \in Seq(Posted)
    BY <2>2, <2>4 DEF Typed, Session
  <2>6. Len(sess[t].todo) \in Nat
    BY <2>5
  <2>7. CASE sess'[t] = Idle
    <3>1. Left(t)' = 0
      BY <2>7 DEF Left, Idle
    <3>2. Left(t) \in {2 * Len(sess[t].todo) + 1, 2 * Len(sess[t].todo) + 2}
      BY <2>5 DEF Left
    <3> QED
      BY <2>6, <3>1, <3>2
  <2>8. CASE sess[t].todo # <<>> /\ sess'[t].pc = "next" /\ sess'[t].todo = Tail(sess[t].todo)
    <3>1. Len(Tail(sess[t].todo)) = Len(sess[t].todo) - 1 /\ Len(sess[t].todo) >= 1
      BY <2>5, <2>6, <2>8, TailItems
    <3>2. Left(t)' = 2 * (Len(sess[t].todo) - 1) + 2
      BY <2>8, <3>1 DEF Left
    <3>3. Left(t) \in {2 * Len(sess[t].todo) + 1, 2 * Len(sess[t].todo) + 2}
      BY <2>5 DEF Left
    <3> QED
      BY <2>6, <3>1, <3>2, <3>3
  <2>9. CASE sess[t].pc = "next" /\ Taken(t)
    <3>1. sess'[t].pc = "loaded" /\ sess'[t].todo = sess[t].todo
      BY <2>9 DEF Taken
    <3>2. Left(t)' = 2 * Len(sess[t].todo) + 1 /\ Left(t) = 2 * Len(sess[t].todo) + 2
      BY <2>9, <3>1 DEF Left
    <3> QED
      BY <2>6, <3>2
  <2>10. Rejected(t) \/ Skipped(t) \/ Flushed(t)
           => sess'[t].pc = "next" /\ sess'[t].todo = Tail(sess[t].todo)
    BY DEF Rejected, Skipped, PassedOver, Flushed
  <2>11. CASE Load(t)
    <3>1. sess[t].pc = "next" /\ sess[t].todo # <<>>
      BY <2>11 DEF Load
    <3>2. sess'[t] = Idle \/ Rejected(t) \/ Skipped(t) \/ Taken(t)
      BY <2>2, <2>11, <3>1, SkipDoes, RejectDoes, DeductDoes DEF Load, RejectMissing
    <3> QED
      BY <2>7, <2>8, <2>9, <2>10, <3>1, <3>2
  <2>12. CASE Flush(t) \/ DeadlockVictim(t)
    <3>1. sess[t].todo # <<>>
      BY <2>2, <2>12 DEF Flush, DeadlockVictim
    <3>2. sess'[t] = Idle \/ Rejected(t) \/ Flushed(t)
      BY <2>2, <2>12, <3>1, FlushDoes, RejectDoes DEF DeadlockVictim
    <3> QED
      BY <2>7, <2>8, <2>10, <3>1, <3>2
  <2>13. CASE Commit(t) \/ Crash(t)
    BY <2>2, <2>7, <2>13 DEF Commit, Crash, Typed
  <2>14. /\ \A kind, sales : ~Submit(t, kind, sales)
         /\ \A o, r, items : ~LoadReturn(t, o, r, items)
    BY <2>4 DEF Submit, LoadReturn
  <2> QED
    BY <2>1, <2>11, <2>12, <2>13, <2>14
<1> QED
  BY <1>1, <1>2

-----------------------------------------------------------------------------
(* Returns. *)

(* The lines of a return are of products the original has, each of at most what the last    *)
(* line of the product says.                                                                *)
Within(lines, o) ==
    /\ o \in Ids /\ Recorded(o)
    /\ \A i \in DOMAIN lines :
         /\ lines[i].product \in Touched(txns[o].lines)
         /\ -lines[i].qty <= LastQty(txns[o].lines, lines[i].product)

EachReturnWithin == \A r \in ReturnIds : Recorded(r) => Within(txns[r].lines, txns[r].of)

Fitting(x) == x.id \in ReturnIds => Within(x.lines, x.of)

ReturnsInv ==
    /\ EachReturnWithin
    /\ \A t \in Threads :
         /\ \A x \in sess[t].txns : Fitting(x)
         /\ \A k \in DOMAIN sess[t].todo : Fitting(sess[t].todo[k])

(* What a request posts is not a return. *)
LEMMA PostedFits ==
    ASSUME NEW kind \in {"single", "batch"}, NEW sales \in Seq(Sale), NEW k \in DOMAIN sales
    PROVE  Fitting(sales[k])
<1>1. sales[k] \in Sale
  OBVIOUS
<1>2. sales[k].id \notin ReturnIds
  BY <1>1, SalesAssumption DEF Sale
<1> QED
  BY <1>2 DEF Fitting

(* A row that is recorded is not written again. *)
LEMMA RecordedStay ==
    ASSUME SalesInv, Next, NEW i \in Ids, Recorded(i)
    PROVE  txns'[i] = txns[i] /\ Recorded(i)'
<1>1. UNCHANGED txns \/ \E t \in Threads : Commit(t)
  BY StepKinds DEF SalesInv
<1>2. CASE UNCHANGED txns
  BY <1>2 DEF Recorded
<1>3. ASSUME NEW t \in Threads, Commit(t)
      PROVE  txns'[i] = txns[i]
  <2>1. ~\E x \in sess[t].txns : x.id = i
    BY DEF SalesInv, Locks, OwnIds
  <2> QED
    BY <1>3, <2>1 DEF Commit
<1> QED
  BY <1>1, <1>2, <1>3 DEF Recorded

LEMMA WithinStays ==
    ASSUME SalesInv, Next, NEW lines, NEW o, Within(lines, o)
    PROVE  Within(lines, o)'
<1>1. txns'[o] = txns[o] /\ Recorded(o)'
  BY RecordedStay DEF Within
<1> QED
  BY <1>1 DEF Within

LEMMA NegatedFits ==
    ASSUME NEW t \in Threads, NEW o \in Ids, NEW r \in ReturnIds, NEW items \in Returned,
           LoadReturn(t, o, r, items)
    PROVE  Within(ReturnLines(items), o)
<1>1. items \in Seq(Line)
  BY SalesAssumption
<1>2. DOMAIN ReturnLines(items) = DOMAIN items
  BY DEF ReturnLines
<1>3. ASSUME NEW i \in DOMAIN items
      PROVE  /\ ReturnLines(items)[i].product = items[i].product
             /\ -ReturnLines(items)[i].qty = items[i].qty
  <2>0. items[i] \in Line
    BY <1>1
  <2>1. items[i] \in [product : Products \union Foreign, qty : Int] /\ items[i].qty \in Int
    BY <2>0 DEF Line
  <2>2. PICK b : b = ReturnLines(items)[i]
    OBVIOUS
  <2>3. b = [items[i] EXCEPT !.qty = -@]
    BY <2>2 DEF ReturnLines
  <2>4. b.product = items[i].product /\ b.qty = -items[i].qty
    BY <2>1, <2>3
  <2> QED
    BY <2>1, <2>2, <2>4
<1> QED
  BY <1>2, <1>3 DEF Within, LoadReturn

LEMMA ReturnsStep ==
    ASSUME SalesInv, ReturnsInv, [Next]_vars
    PROVE  ReturnsInv'
<1>1. CASE UNCHANGED vars
  BY <1>1 DEF vars, ReturnsInv, EachReturnWithin, Fitting, Within, Recorded
<1>2. CASE Next
  <2>1. PICK t \in Threads :
             \/ \E s \in Sales : Submit(t, "single", <<s>>)
             \/ \E b \in Batches : Submit(t, "batch", b)
             \/ \E o \in Ids, r \in ReturnIds, items \in Returned : LoadReturn(t, o, r, items)
             \/ Load(t) \/ Flush(t) \/ DeadlockVictim(t) \/ Commit(t) \/ Crash(t)
    BY <1>2 DEF Next
  <2>2. Typed /\ Knows /\ (sess[t].pc = "loaded" => sess[t].todo # <<>>)
    BY DEF SalesInv, Knows, Ready
  <2>3. Others(t) /\ Typed'
    BY <2>1, <2>2, StepCases
  <2>4. \A x : Fitting(x) => Fitting(x)'
    BY <1>2, WithinStays DEF Fitting
  <2>5. EachReturnWithin'
    <3>1. SUFFICES ASSUME NEW r \in ReturnIds, Recorded(r)'
                   PROVE  Within(txns[r].lines, txns[r].of)'
      BY DEF EachReturnWithin
    <3>2. r \in Ids
      BY DEF Ids
    <3>3. CASE Recorded(r)
      <4>1. txns'[r] = txns[r] /\ Within(txns[r].lines, txns[r].of)
        BY <1>2, <3>2, <3>3, RecordedStay DEF ReturnsInv, EachReturnWithin
      <4>2. PICK lines, o : lines = txns[r].lines /\ o = txns[r].of
        OBVIOUS
      <4>3. Within(lines, o)'
        BY <1>2, <4>1, <4>2, WithinStays
      <4>4. lines = txns'[r].lines /\ o = txns'[r].of
        BY <4>1, <4>2
      <4> QED
        BY <4>3, <4>4 DEF Within
    <3>4. CASE ~Recorded(r)
      <4>1. Commit(t)
        BY <2>1, <2>2, <3>1, <3>4, StepCases DEF Recorded
      <4>2. \E x \in sess[t].txns : x.id = r
        BY <2>2, <3>1, <3>2, <3>4, <4>1, CommitRecords
      <4>3. PICK y : y = CHOOSE x \in sess[t].txns : x.id = r
        OBVIOUS
      <4>4. y \in sess[t].txns /\ y.id = r
        BY <4>2, <4>3
      <4>5. txns'[r] = Row(y)
        BY <3>2, <4>1, <4>2, <4>3 DEF Commit
      <4>6. PICK lines, o : lines = y.lines /\ o = y.of
        OBVIOUS
      <4>7. txns'[r].lines = lines /\ txns'[r].of = o
        BY <4>5, <4>6 DEF Row
      <4>8. Within(lines, o)
        BY <4>4, <4>6 DEF ReturnsInv, Fitting
      <4>9. Within(lines, o)'
        BY <1>2, <4>8, WithinStays
      <4> QED
        BY <4>7, <4>9 DEF Within
    <3> QED
      BY <3>3, <3>4
  <2>6. \A x \in sess'[t].txns : Fitting(x)
    <3>1. CASE sess'[t] = Idle \/ \E kind, sales : Begun(t, kind, sales)
      <4>1. Idle.txns = {}
        BY DEF Idle
      <4>2. sess'[t].txns = {}
        BY <3>1, <4>1 DEF Begun, Blank
      <4> QED
        BY <4>2
    <3>2. CASE Rejected(t) \/ Skipped(t) \/ Taken(t)
      BY <3>2 DEF ReturnsInv, Rejected, Skipped, Taken, PassedOver, SameWork
    <3>3. CASE sess[t].pc = "loaded" /\ Flushed(t)
      <4>1. sess[t].todo # <<>> /\ sess[t].todo \in Seq(Posted)
        BY <2>2, <3>3 DEF Typed, Session
      <4>2. Head(sess[t].todo) = sess[t].todo[1] /\ 1 \in DOMAIN sess[t].todo
        BY <4>1, TailItems
      <4> QED
        BY <3>3, <4>2 DEF ReturnsInv, Flushed
    <3> QED
      BY <2>1, <2>2, <3>1, <3>2, <3>3, StepCases
  <2>7. \A k \in DOMAIN sess'[t].todo : Fitting(sess'[t].todo[k])
    <3>1. CASE sess'[t].todo = sess[t].todo
      BY <3>1 DEF ReturnsInv
    <3>2. CASE sess[t].todo # <<>> /\ sess'[t].todo = Tail(sess[t].todo)
      <4>1. sess[t].todo \in Seq(Posted)
        BY <2>2 DEF Typed, Session
      <4>2. \A k \in DOMAIN Tail(sess[t].todo) :
               k + 1 \in DOMAIN sess[t].todo /\ Tail(sess[t].todo)[k] = sess[t].todo[k + 1]
        BY <3>2, <4>1, TailItems
      <4> QED
        BY <3>2, <4>2 DEF ReturnsInv
    <3>3. CASE sess'[t] = Idle
      <4>1. Idle.todo = <<>>
        BY DEF Idle
      <4> QED
        BY <3>3, <4>1
    <3>4. ASSUME NEW s \in Sales, Submit(t, "single", <<s>>)
          PROVE  \A k \in DOMAIN sess'[t].todo : Fitting(sess'[t].todo[k])
      <4>1. sess'[t].todo = <<s>>
        BY <2>2, <3>4 DEF Submit, Typed, Idle
      <4>2. <<s>> \in Seq(Sale)
        BY SalesAssumption
      <4> QED
        BY <4>1, <4>2, PostedFits
    <3>5. ASSUME NEW b \in Batches, Submit(t, "batch", b)
          PROVE  \A k \in DOMAIN sess'[t].todo : Fitting(sess'[t].todo[k])
      <4>1. sess'[t].todo = b
        BY <2>2, <3>5 DEF Submit, Typed, Idle
      <4>2. b \in Seq(Sale)
        BY SalesAssumption
      <4> QED
        BY <4>1, <4>2, PostedFits
    <3>6. ASSUME NEW o \in Ids, NEW r \in ReturnIds, NEW items \in Returned, LoadReturn(t, o, r, items)
          PROVE  \A k \in DOMAIN sess'[t].todo : Fitting(sess'[t].todo[k])
      <4>1. PICK x : x = [id |-> r, lines |-> ReturnLines(items), of |-> o]
        OBVIOUS
      <4>2. sess'[t].todo = <<x>>
        BY <2>2, <3>6, <4>1 DEF LoadReturn, Typed, Idle
      <4>3. Fitting(x)
        BY <3>6, <4>1, NegatedFits DEF Fitting
      <4> QED
        BY <4>2, <4>3
    <3>7. Rejected(t) \/ Skipped(t) => sess'[t].todo = Tail(sess[t].todo)
      BY DEF Rejected, Skipped, PassedOver
    <3>8. Taken(t) => sess'[t].todo = sess[t].todo
      BY DEF Taken
    <3>9. Flushed(t) => sess'[t].todo = Tail(sess[t].todo)
      BY DEF Flushed
    <3>10. CASE Load(t) \/ Flush(t) \/ DeadlockVictim(t)
      <4>1. sess[t].todo # <<>>
        BY <2>2, <3>10 DEF Load, Flush, DeadlockVictim
      <4>2. sess'[t] = Idle \/ Rejected(t) \/ Skipped(t) \/ Taken(t) \/ Flushed(t)
        BY <2>2, <3>10, <4>1, SkipDoes, RejectDoes, DeductDoes, FlushDoes
           DEF Load, RejectMissing, DeadlockVictim
      <4> QED
        BY <3>1, <3>2, <3>3, <3>7, <3>8, <3>9, <4>1, <4>2
    <3>11. CASE Commit(t) \/ Crash(t)
      BY <2>2, <3>3, <3>11 DEF Commit, Crash, Typed
    <3> QED
      BY <2>1, <3>4, <3>5, <3>6, <3>10, <3>11
  <2>8. \A u \in Threads : /\ \A x \in sess'[u].txns : Fitting(x)
                           /\ \A k \in DOMAIN sess'[u].todo : Fitting(sess'[u].todo[k])
    BY <2>3, <2>6, <2>7 DEF Others, ReturnsInv
  <2>9. \A u \in Threads : /\ \A x \in sess'[u].txns : Fitting(x)'
                           /\ \A k \in DOMAIN sess'[u].todo : Fitting(sess[u].todo[k])'
    <3>1. SUFFICES ASSUME NEW u \in Threads
                   PROVE  /\ \A x \in sess'[u].txns : Fitting(x)'
                          /\ \A k \in DOMAIN sess'[u].todo : Fitting(sess[u].todo[k])'
      OBVIOUS
    <3>2. PICK todo : todo = sess'[u].todo
      OBVIOUS
    <3>3. \A k \in DOMAIN todo : Fitting(todo[k])'
      BY <2>4, <2>8, <3>2
    <3> QED
      BY <2>4, <2>8, <3>2, <3>3 DEF Fitting
  <2> QED
    BY <2>5, <2>9 DEF ReturnsInv
<1> QED
  BY <1>1, <1>2

(* Up to the changes that commits overwrite, the stock of every product is its opening      *)
(* stock less every line recorded, and no batch accounts for more items than it was asked   *)
(* to process (process_single_transaction, process_batch_transactions).                     *)
THEOREM StockKept == Spec => []StockInv
BY SalesInvariant, TypesFollow, PTL

(* An id that the response to a batch will not report as an error is recorded when the      *)
(* batch has committed, whoever else sells, crashes or deadlocks with it.                   *)
THEOREM BatchesTold == Spec => []UnreportedIsRecorded
BY SalesInvariant, UnreportedFollows, PTL

(* The sessions of the code implement the log of SaleLog: every sale is recorded at once,   *)
(* in whole, once per id and for ever, with exactly what it takes from the stock.           *)
THEOREM SalesRefineTheLog == Spec => ImplementsSaleLog
BY SalesInvariant, InitMaps, StepMaps, PTL DEF Spec, ImplementsSaleLog, Log!Spec

(* Whatever requests wait for each other, one that is under way never waits for nothing:    *)
(* it, or one it waits for directly or through others, can go on or is one of a circle that *)
(* PostgreSQL's detector breaks.                                                            *)
THEOREM SalesMove == Spec => []NobodyIsStuck
<1>1. Init => AtRest /\ Stocked
  BY StockedInit DEF Init, AtRest
<1>2. SalesInv /\ AtRest /\ Stocked /\ [Next]_vars => AtRest' /\ Stocked'
  BY AtRestKept, StockedKept
<1> QED
  BY <1>1, <1>2, SalesInvariant, NobodyStuck, PTL DEF Spec

(* A request that moves has less to do, whatever is rejected, skipped, rolled back or       *)
(* committed: with SalesMove, what a request waits for comes to an end (the loop of         *)
(* process_batch_transactions).                                                             *)
THEOREM SalesEndUp == Spec => [][Shortens]_vars
<1>1. SalesInv /\ [Next]_vars => [Shortens]_vars
  BY SalesShorten
<1> QED
  BY <1>1, SalesInvariant, PTL DEF Spec

(* Each single return takes back of a product at most what one line of the sale it is of,   *)
(* which is recorded, says (process_return_transaction).  The run sales_over_return shows   *)
(* that several returns, or lines, may together take back more.                             *)
THEOREM EachReturnIsWithin == Spec => []EachReturnWithin
<1>1. Init => ReturnsInv
  <2> SUFFICES ASSUME Init PROVE ReturnsInv
    OBVIOUS
  <2>1. \A t \in Threads : sess[t].txns = {} /\ sess[t].todo = <<>>
    BY DEF Init, Idle
  <2>2. \A i \in ReturnIds : ~Recorded(i)
    BY DEF Init, Recorded, Ids
  <2> QED
    BY <2>1, <2>2 DEF ReturnsInv, EachReturnWithin
<1>2. SalesInv /\ ReturnsInv /\ [Next]_vars => ReturnsInv'
  BY ReturnsStep
<1>3. ReturnsInv => EachReturnWithin
  BY DEF ReturnsInv
<1> QED
  BY <1>1, <1>2, <1>3, SalesInvariant, PTL DEF Spec
=============================================================================
