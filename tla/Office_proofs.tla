---------------------------- MODULE Office_proofs ----------------------------
(***************************************************************************)
(* Proofs about the services of the back office, for any number of         *)
(* threads, sales, rows, groups, codes, tokens and failures.               *)
(*                                                                         *)
(* Staff sessions.  The inductive invariant adds to the type and to the    *)
(* count of open sessions that a request nothing overlapped is the only    *)
(* one there is, and that a start of that kind holds every open session.   *)
(*                                                                         *)
(* Chains.  ChainsExplained counts; the invariant says it without          *)
(* counting, that two groups of an owner which are not strays are one.  A  *)
(* look-up goes on only when it sees no group, so the row an insert adds   *)
(* is a stray unless it is the only one.                                   *)
(*                                                                         *)
(* Signing in.  A thread that is to issue a token stands for the one it    *)
(* will issue, and a token is fresh when it is issued.  Of one-time codes  *)
(* the invariant says where a lone request is and what it relies on there. *)
(*                                                                         *)
(* API calls.  What a run holds back between its commit and its delete is  *)
(* a term of the sum; the sums are those of Sums.                          *)
(*                                                                         *)
(* GST filing.  Rows of sales only grow, so a list made after a count has  *)
(* what was counted.  With one session at a time each place in a           *)
(* compilation, a filing and an e-invoice says how row, file and invoice   *)
(* then stand.                                                             *)
(*                                                                         *)
(* Tax figures.  The scale is a product over the rates, so every rate      *)
(* divides it and exact figures are integers that add up to the price; a   *)
(* rounded one is within half a scale of its exact one.                    *)
(*                                                                         *)
(* Types.  Each service keeps its foreign keys and bounds; a request that  *)
(* is to make a code or a token has room for it.                           *)
(*                                                                         *)
(* The office drives one service at a time, and is shown to implement the  *)
(* specification of each.                                                  *)
(***************************************************************************)
EXTENDS MCOffice, Sums

-----------------------------------------------------------------------------
(* Staff sessions. *)

Undisturbed(t) ==
  staffReq[t] # Idle /\ staffReq[t].alone =>
    /\ \A u \in Threads : u # t => staffReq[u] = Idle
    /\ staffReq[t].op \in {"look", "start"} => Open \subseteq staffReq[t].found

StaffInv == TypeOK /\ OpenSessionsExplained /\ \A t \in Threads : Undisturbed(t)

-----------------------------------------------------------------------------
(* Staff sessions: what the steps do to the rows. *)

\* The open sessions are finitely many.
LEMMA OpenFinite ==
  ASSUME TypeOK
  PROVE  IsFiniteSet(Open) /\ Cardinality(Open) \in Nat
<1>1. Open \subseteq 1 .. Len(staff) /\ Len(staff) \in Nat
  BY DEF TypeOK, Open
<1>2. IsFiniteSet(1 .. Len(staff))
  BY <1>1, FS_Interval
<1> QED
  BY <1>1, <1>2, FS_Subset, FS_CardinalityType

\* Closing keeps the rows and their type.
LEMMA CloseTyped ==
  ASSUME NEW given \in Seq(Session), NEW found
  PROVE  /\ Close(given, found) \in Seq(Session)
         /\ Len(Close(given, found)) = Len(given)
         /\ DOMAIN Close(given, found) = DOMAIN given
         /\ \A n \in DOMAIN given : Close(given, found)[n].status = "OPEN" <=>
                                     given[n].status = "OPEN" /\ n \notin found
<1>1. \A n \in DOMAIN given : given[n] \in Session
  OBVIOUS
<1>2. \A n \in DOMAIN given : Close(given, found)[n] \in Session
  BY <1>1 DEF Close, Session
<1>3. Close(given, found) \in Seq(Session) /\ Len(Close(given, found)) = Len(given)
  BY <1>2 DEF Close
<1> QED
  BY <1>1, <1>3 DEF Close, Session

\* A committed start leaves what it did not find, and its own session.
LEMMA StartOpens ==
  ASSUME TypeOK, NEW t \in Threads, CommitStart(t)
  PROVE  /\ staff' \in Seq(Session)
         /\ Len(staff') = Len(staff) + 1
         /\ Open' = (Open \ staffReq[t].found) \cup {Len(staff) + 1}
<1> DEFINE new == [status |-> "OPEN", target |-> staffReq[t].new]
           given == Close(staff, staffReq[t].found)
<1>1. new \in Session /\ new.status = "OPEN"
  BY DEF TypeOK, Request, Session
<1>2. /\ given \in Seq(Session) /\ Len(given) = Len(staff)
      /\ \A n \in 1 .. Len(staff) : given[n].status = "OPEN" <=>
                                      staff[n].status = "OPEN" /\ n \notin staffReq[t].found
  BY CloseTyped DEF TypeOK
<1>3. staff' = Append(given, new)
  BY DEF CommitStart
<1> HIDE DEF new, given
<1>4. /\ staff' \in Seq(Session) /\ Len(staff') = Len(staff) + 1
      /\ staff'[Len(staff) + 1] = new
      /\ \A n \in 1 .. Len(staff) : staff'[n] = given[n]
  BY <1>1, <1>2, <1>3
<1>5. Open' = {n \in 1 .. Len(staff) + 1 : staff'[n].status = "OPEN"}
  BY <1>4 DEF Open
<1>6. Open = {n \in 1 .. Len(staff) : staff[n].status = "OPEN"} /\ Len(staff) \in Nat
  BY DEF Open, TypeOK
<1> QED
  BY <1>1, <1>2, <1>4, <1>5, <1>6

LEMMA EndCloses ==
  ASSUME TypeOK, NEW t \in Threads, CommitEnd(t)
  PROVE  /\ staff' \in Seq(Session)
         /\ Len(staff') = Len(staff)
         /\ Open' \subseteq Open
  BY CloseTyped DEF TypeOK, CommitEnd, Open

-----------------------------------------------------------------------------
(* Staff sessions: the type. *)

Steps(t) ==
  \/ FindOpen(t) \/ FlushClosed(t) \/ CommitStart(t) \/ FindToEnd(t) \/ CommitEnd(t)
  \/ FindToSell(t) \/ CommitSale(t) \/ Lose(t)

LEMMA IdleTyped == Idle \in Request /\ Idle.op = "none" /\ Idle.found = {}
  BY DEF Idle, Asks, Request

\* What a request is when it begins.
LEMMA AskTyped ==
  ASSUME TypeOK, NEW op \in {"look", "end", "sell"}, NEW f \in SUBSET Open
  PROVE  /\ Asks(op, f) \in Request /\ Asks(op, f) # Idle /\ Asks(op, f).alone
         /\ Asks(op, f).op = op /\ Asks(op, f).found = f
         /\ f \subseteq DOMAIN staff
<1>1. f \subseteq DOMAIN staff /\ f \in SUBSET Nat
  BY DEF TypeOK, Open
<1>2. Asks(op, f).op # Idle.op
  BY DEF Idle, Asks
<1> QED
  BY <1>1, <1>2 DEF Request, Asks

LEMMA BeginTyped ==
  ASSUME TypeOK, NEW t \in Threads, NEW r \in Request, r.found \subseteq DOMAIN staff, Begin(t, r)
  PROVE  TypeOK'
<1>1. staffReq' \in [Threads -> Request]
  BY DEF TypeOK, Begin, Request
<1>2. \A u \in Threads : staffReq'[u].found = IF u = t THEN r.found ELSE staffReq[u].found
  BY DEF TypeOK, Begin, Request
<1> QED
  BY <1>1, <1>2 DEF TypeOK, Begin

LEMMA EndTyped ==
  ASSUME TypeOK, NEW t \in Threads, End(t), staff' \in Seq(Session), Len(staff') >= Len(staff)
  PROVE  /\ staffReq' \in [Threads -> Request]
         /\ \A u \in Threads : staffReq'[u].found \subseteq DOMAIN staff'
         /\ DOMAIN staff \subseteq DOMAIN staff'
<1>1. DOMAIN staff \subseteq DOMAIN staff'
  BY DEF TypeOK
<1>2. staffReq' \in [Threads -> Request]
  BY IdleTyped DEF TypeOK, End
<1>3. \A u \in Threads : staffReq'[u].found = IF u = t THEN {} ELSE staffReq[u].found
  BY IdleTyped DEF TypeOK, End
<1> QED
  BY <1>1, <1>2, <1>3 DEF TypeOK

LEMMA TypeStep ==
  ASSUME TypeOK, [Next]_vars
  PROVE  TypeOK'
<1>1. CASE UNCHANGED vars
  BY <1>1 DEF TypeOK, vars
<1>2. CASE SetTarget
  BY <1>2 DEF TypeOK, SetTarget
<1>3. ASSUME NEW t \in Threads, Steps(t) PROVE TypeOK'
  <2>1. CASE FindOpen(t)
    BY <2>1, AskTyped, BeginTyped DEF FindOpen
  <2>2. CASE FlushClosed(t)
    BY <2>2 DEF FlushClosed, TypeOK, Request
  <2>3. CASE CommitStart(t)
    <3>1. raced' \in Nat
      BY <2>3 DEF CommitStart, TypeOK
    <3>2. booked' \in Seq(DOMAIN staff \cup {None}) /\ target' = target /\ End(t)
      BY <2>3 DEF CommitStart, TypeOK
    <3>3. staff' \in Seq(Session) /\ Len(staff') >= Len(staff)
      BY <2>3, StartOpens DEF TypeOK
    <3>4. booked' \in Seq(DOMAIN staff' \cup {None})
      BY <3>2, <3>3, EndTyped
    <3> QED
      BY <3>1, <3>2, <3>3, <3>4, EndTyped DEF TypeOK
  <2>4. CASE FindToEnd(t)
    BY <2>4, AskTyped, BeginTyped DEF FindToEnd
  <2>5. CASE CommitEnd(t)
    <3>1. /\ staff' \in Seq(Session) /\ Len(staff') = Len(staff)
          /\ UNCHANGED <<target, booked, raced>> /\ End(t)
      BY <2>5, EndCloses DEF CommitEnd
    <3>2. DOMAIN staff' = DOMAIN staff
      BY <3>1 DEF TypeOK
    <3> QED
      BY <3>1, <3>2, EndTyped DEF TypeOK
  <2>6. CASE FindToSell(t)
    <3>1. PICK f \in SUBSET Open : Begin(t, Asks("sell", f))
      BY <2>6 DEF FindToSell
    <3> QED
      BY <3>1, AskTyped, BeginTyped
  <2>7. CASE CommitSale(t)
    <3>1. staffReq[t].found \subseteq DOMAIN staff
      BY DEF TypeOK
    <3>2. PICK n \in DOMAIN staff \cup {None} : booked' = Append(booked, n)
      BY <2>7, <3>1 DEF CommitSale
    <3>3. /\ End(t) /\ UNCHANGED <<staff, target, raced>>
          /\ staff' \in Seq(Session) /\ Len(staff') >= Len(staff)
      BY <2>7 DEF CommitSale, TypeOK
    <3>4. booked' \in Seq(DOMAIN staff' \cup {None})
      BY <3>2, <3>3 DEF TypeOK
    <3> QED
      BY <3>3, <3>4, EndTyped DEF TypeOK
  <2>8. CASE Lose(t)
    <3>1. /\ End(t) /\ UNCHANGED <<staff, target, booked, raced>>
          /\ staff' \in Seq(Session) /\ Len(staff') >= Len(staff)
      BY <2>8 DEF Lose, TypeOK
    <3> QED
      BY <3>1, EndTyped DEF TypeOK
  <2> QED
    BY <1>3, <2>1, <2>2, <2>3, <2>4, <2>5, <2>6, <2>7, <2>8 DEF Steps
<1> QED
  BY <1>1, <1>2, <1>3 DEF Next, Steps

-----------------------------------------------------------------------------
(* Staff sessions: the number of open ones. *)

LEMMA OpenStep ==
  ASSUME TypeOK, OpenSessionsExplained, [Next]_vars
  PROVE  OpenSessionsExplained'
<1>1. CASE UNCHANGED <<staff, raced>>
  BY <1>1 DEF OpenSessionsExplained, Open
<1>2. ASSUME NEW t \in Threads, CommitStart(t) PROVE OpenSessionsExplained'
  <2> DEFINE left == Open \ staffReq[t].found
  <2>1. IsFiniteSet(left) /\ Cardinality(left) \in Nat /\ Cardinality(left) <= Cardinality(Open)
    <3>1. IsFiniteSet(left) /\ Cardinality(left) <= Cardinality(Open)
      BY OpenFinite, FS_Subset
    <3> QED
      BY <3>1, FS_CardinalityType
  <2>2. Cardinality(Open') <= Cardinality(left) + 1 /\ Cardinality(Open') \in Nat
    <3>1. Open' = left \cup {Len(staff) + 1}
      BY <1>2, StartOpens
    <3> HIDE DEF left
    <3>2. /\ IsFiniteSet(left \cup {Len(staff) + 1})
          /\ Cardinality(left \cup {Len(staff) + 1}) =
               IF Len(staff) + 1 \in left THEN Cardinality(left) ELSE Cardinality(left) + 1
      BY <2>1, FS_AddElement
    <3>3. Cardinality(left \cup {Len(staff) + 1}) \in Nat
      BY <3>2, FS_CardinalityType
    <3> QED
      BY <2>1, <3>1, <3>2, <3>3
  <2>3. CASE Open \subseteq staffReq[t].found
    <3>1. left = {} /\ raced' = raced
      BY <1>2, <2>3 DEF CommitStart, TypeOK
    <3>2. Cardinality(left) = 0
      BY <3>1, FS_EmptySet
    <3> QED
      BY <2>2, <3>1, <3>2 DEF OpenSessionsExplained, TypeOK
  <2>4. CASE ~ (Open \subseteq staffReq[t].found)
    <3>1. raced' = raced + 1
      BY <1>2, <2>4 DEF CommitStart
    <3> HIDE DEF left
    <3> QED
      BY <2>1, <2>2, <3>1, OpenFinite DEF OpenSessionsExplained, TypeOK
  <2> QED
    BY <2>3, <2>4
<1>3. ASSUME NEW t \in Threads, CommitEnd(t) PROVE OpenSessionsExplained'
  <2>1. Open' \subseteq Open /\ raced' = raced
    BY <1>3, EndCloses DEF CommitEnd
  <2>2. IsFiniteSet(Open') /\ Cardinality(Open') <= Cardinality(Open)
    BY <2>1, OpenFinite, FS_Subset
  <2>3. Cardinality(Open') \in Nat
    BY <2>2, FS_CardinalityType
  <2> QED
    BY <2>1, <2>2, <2>3, OpenFinite DEF OpenSessionsExplained, TypeOK
<1> QED
  BY <1>1, <1>2, <1>3 DEF Next, vars, SetTarget, FindOpen, FlushClosed, FindToEnd, FindToSell,
     CommitSale, Lose, Begin

-----------------------------------------------------------------------------
(* Staff sessions: requests that nothing overlaps. *)

\* A request that begins knows whether it is alone, and the others learn of it.
LEMMA BeginUndisturbed ==
  ASSUME TypeOK, NEW t \in Threads, NEW r \in Request, Begin(t, r), r # Idle, r.alone,
         r.op \in {"look", "start"} => Open \subseteq r.found,
         \A u \in Threads : Undisturbed(u)
  PROVE  \A u \in Threads : Undisturbed(u)'
<1> SUFFICES ASSUME NEW u \in Threads, staffReq'[u] # Idle, staffReq'[u].alone
             PROVE  Undisturbed(u)'
  BY DEF Undisturbed
<1>1. Open' = Open
  BY DEF Begin, Open
<1>2. CASE u = t
  <2>1. \A v \in Threads : staffReq[v] = Idle
    BY <1>2 DEF Begin, TypeOK, Request
  <2>2. \A v \in Threads : v # t => staffReq'[v] = Idle
    BY <2>1 DEF Begin, Idle
  <2>3. staffReq'[t].found = r.found /\ staffReq'[t].op = r.op
    BY DEF Begin, TypeOK, Request
  <2> QED
    BY <1>1, <1>2, <2>2, <2>3 DEF Undisturbed
<1>3. CASE u # t
  <2>1. staffReq[u] = Idle
    BY <1>3 DEF Begin, TypeOK, Request
  <2>2. staffReq'[u] = Idle
    BY <1>3, <2>1 DEF Begin, Idle
  <2> QED
    BY <2>2
<1> QED
  BY <1>2, <1>3

\* A request that ends leaves no other alone with sessions it has not seen.
LEMMA EndUndisturbed ==
  ASSUME TypeOK, NEW t \in Threads, End(t), staffReq[t] # Idle,
         \A u \in Threads : Undisturbed(u)
  PROVE  \A u \in Threads : Undisturbed(u)'
<1> SUFFICES ASSUME NEW u \in Threads, staffReq'[u] # Idle, staffReq'[u].alone
             PROVE  FALSE
  BY DEF Undisturbed
<1>1. u # t /\ staffReq[u] = staffReq'[u]
  BY DEF End, TypeOK
<1> QED
  BY <1>1 DEF Undisturbed

LEMMA AloneStep ==
  ASSUME TypeOK, \A t \in Threads : Undisturbed(t), [Next]_vars
  PROVE  \A t \in Threads : Undisturbed(t)'
<1>1. CASE UNCHANGED <<staff, staffReq>>
  BY <1>1 DEF Undisturbed, Open
<1>2. ASSUME NEW t \in Threads, Steps(t) PROVE \A u \in Threads : Undisturbed(u)'
  <2>1. CASE FindOpen(t)
    BY <2>1, AskTyped, BeginUndisturbed DEF FindOpen
  <2>2. CASE FlushClosed(t)
    <3> SUFFICES ASSUME NEW u \in Threads, staffReq'[u] # Idle, staffReq'[u].alone
                 PROVE  Undisturbed(u)'
      BY DEF Undisturbed
    <3>1. Open' = Open
      BY <2>2 DEF FlushClosed, Open
    <3>2. staffReq[t] # Idle /\ staffReq[t].op = "look"
      BY <2>2, IdleTyped DEF FlushClosed
    <3>3. staffReq'[t].found = staffReq[t].found /\ staffReq'[t].alone = staffReq[t].alone
      BY <2>2 DEF FlushClosed, TypeOK, Request
    <3>4. \A v \in Threads : v # t => staffReq'[v] = staffReq[v]
      BY <2>2 DEF FlushClosed, TypeOK
    <3>5. CASE u = t
      BY <3>1, <3>2, <3>3, <3>4, <3>5 DEF Undisturbed
    <3>6. CASE u # t
      <4>1. staffReq[u] # Idle /\ staffReq[u].alone
        BY <3>4, <3>6
      <4> QED
        BY <3>2, <3>6, <4>1 DEF Undisturbed
    <3> QED
      BY <3>5, <3>6
  <2>3. CASE CommitStart(t) \/ CommitEnd(t) \/ CommitSale(t) \/ Lose(t)
    <3>1. End(t) /\ staffReq[t] # Idle
      BY <2>3, IdleTyped DEF CommitStart, CommitEnd, CommitSale, Lose
    <3> QED
      BY <3>1, EndUndisturbed
  <2>4. CASE FindToEnd(t) \/ FindToSell(t)
    <3>1. CASE FindToEnd(t)
      BY <3>1, AskTyped, BeginUndisturbed DEF FindToEnd
    <3>2. CASE FindToSell(t)
      <4>1. PICK f \in SUBSET Open : Begin(t, Asks("sell", f))
        BY <3>2 DEF FindToSell
      <4> QED
        BY <4>1, AskTyped, BeginUndisturbed
    <3> QED
      BY <2>4, <3>1, <3>2
  <2> QED
    BY <1>2, <2>1, <2>2, <2>3, <2>4 DEF Steps
<1> QED
  BY <1>1, <1>2 DEF Next, Steps, vars, SetTarget

-----------------------------------------------------------------------------
(* Staff sessions: the invariant. *)

LEMMA StaffInit == Init => StaffInv
<1> SUFFICES ASSUME Init PROVE StaffInv
  OBVIOUS
<1>1. TypeOK
  BY IdleTyped DEF Init, TypeOK
<1>2. Open = {}
  BY DEF Init, Open
<1>3. OpenSessionsExplained
  BY <1>2, FS_EmptySet DEF OpenSessionsExplained, Init
<1>4. \A t \in Threads : Undisturbed(t)
  BY DEF Init, Undisturbed
<1> QED
  BY <1>1, <1>3, <1>4 DEF StaffInv

LEMMA StaffStep == StaffInv /\ [Next]_vars => StaffInv'
  BY TypeStep, OpenStep, AloneStep DEF StaffInv

(* However starts, ends, sales and failures of a member of staff mix, each session open   *)
(* beside another is one that a start could not see when it looked (start_session,        *)
(* staff_performance/routes.py).                                                          *)
THEOREM SessionsCounted == Spec => []OpenSessionsExplained
<1>1. StaffInv => OpenSessionsExplained
  BY DEF StaffInv
<1> QED
  BY <1>1, StaffInit, StaffStep, PTL DEF Spec

(* A start that nothing overlaps closes everything others have left open                  *)
(* (start_session, staff_performance/routes.py).                                          *)
THEOREM StartsHeal == Spec => StartHeals
<1>1. StaffInv /\ [Next]_vars =>
        [\A t \in Threads :
           staff' # staff /\ staffReq[t].op = "start" /\ staffReq'[t] = Idle /\ staffReq[t].alone =>
             Cardinality(Open') = 1]_vars
  <2> SUFFICES ASSUME StaffInv, [Next]_vars, NEW t \in Threads, staff' # staff,
                      staffReq[t].op = "start", staffReq'[t] = Idle, staffReq[t].alone
               PROVE  Cardinality(Open') = 1
    OBVIOUS
  <2>0. staffReq[t] # Idle
    BY IdleTyped
  <2>1. /\ staffReq[t] # Idle
        /\ \A u \in Threads : u # t => staffReq[u] = Idle
        /\ Open \subseteq staffReq[t].found
    BY <2>0 DEF StaffInv, Undisturbed
  <2>2. PICK u \in Threads : CommitStart(u) \/ CommitEnd(u)
    BY DEF Next, vars, SetTarget, FindOpen, FlushClosed, FindToEnd, FindToSell, CommitSale, Lose, Begin
  <2>3. u = t
    BY <2>1, <2>2, IdleTyped DEF CommitStart, CommitEnd
  <2>4. CommitStart(t)
    BY <2>2, <2>3 DEF CommitEnd
  <2>5. Open' = {Len(staff) + 1}
    BY <2>1, <2>4, StartOpens DEF StaffInv
  <2> QED
    BY <2>5, FS_Singleton
<1> QED
  BY <1>1, StaffInit, StaffStep, PTL DEF Spec, StartHeals

-----------------------------------------------------------------------------
(* Counting is the same wherever it is written. *)

LEMMA Counts ==
  ASSUME NEW S
  PROVE  /\ Chains!Cardinality(S) = Cardinality(S)
         /\ Signing!Cardinality(S) = Cardinality(S)
         /\ Gst!Cardinality(S) = Cardinality(S)
  BY DEF Chains!Cardinality, Signing!Cardinality, Gst!Cardinality, Cardinality

-----------------------------------------------------------------------------
(* Chains. *)

ChainTables ==
  /\ owner \in [Groups -> Owners \cup {None}]
  /\ token \in [Owners -> Groups \cup {None}]
  /\ chainReq \in [Threads -> Chains!Request]

Blind == \A t \in Threads : chainReq[t].seen = {}

OneGroup ==
  \A o \in Owners : \A g, h \in Groups :
    owner[g] = o /\ owner[h] = o /\ g \notin strays /\ h \notin strays => g = h

OneChain ==
  \A s \in Stores : \A g, h \in Groups :
    /\ <<g, s>> \in members /\ <<h, s>> \in members
    /\ <<g, s>> \notin strayMembers /\ <<h, s>> \notin strayMembers
    => g = h

ChainInv == ChainTables /\ Blind /\ OneGroup /\ OneChain

-----------------------------------------------------------------------------
(* Chains: requests. *)

LEMMA ChainIdle == Chains!Idle \in Chains!Request /\ Chains!Idle.op = "none" /\ Chains!Idle.seen = {}
  BY DEF Chains!Idle, Chains!Asks, Chains!Request

LEMMA BeginBlind ==
  ASSUME ChainTables, Blind, NEW t \in Threads, NEW r \in Chains!Request, r.seen = {}, Chains!Begin(t, r)
  PROVE  chainReq' \in [Threads -> Chains!Request] /\ Blind'
  BY DEF ChainTables, Blind, Chains!Begin

LEMMA EndBlind ==
  ASSUME ChainTables, Blind, NEW t \in Threads, Chains!End(t)
  PROVE  chainReq' \in [Threads -> Chains!Request] /\ Blind'
  BY ChainIdle DEF ChainTables, Blind, Chains!End

-----------------------------------------------------------------------------
(* Chains: the steps. *)

LEMMA GroupStep ==
  ASSUME None \notin Owners, ChainInv, NEW t \in Threads, Chains!LookForGroup(t) \/ Chains!CreateGroup(t)
  PROVE  ChainInv'
<1>1. CASE Chains!LookForGroup(t)
  <2>1. PICK o \in Owners : Chains!Owned(o) = {} /\ Chains!Begin(t, Chains!Asks("group", o, None, None, Chains!Owned(o)))
    BY <1>1 DEF Chains!LookForGroup
  <2> DEFINE r == Chains!Asks("group", o, None, None, Chains!Owned(o))
  <2>2. r \in Chains!Request /\ r.seen = {}
    BY <2>1 DEF Chains!Asks, Chains!Request
  <2>3. Chains!Begin(t, r)
    BY <2>1
  <2> HIDE DEF r
  <2>4. chainReq' \in [Threads -> Chains!Request] /\ Blind'
    BY <2>2, <2>3, BeginBlind DEF ChainInv
  <2> QED
    BY <1>1, <2>4 DEF Chains!LookForGroup, ChainInv, ChainTables, OneGroup, OneChain
<1>2. CASE Chains!CreateGroup(t)
  <2> DEFINE by == chainReq[t].by
  <2>1. PICK n \in Groups : /\ owner[n] = None
                            /\ owner' = [owner EXCEPT ![n] = by]
                            /\ strays' = strays \cup Chains!Stray(n, Chains!Owned(by), chainReq[t].seen)
    BY <1>2 DEF Chains!CreateGroup
  <2>2. by \in Owners \cup {None} /\ chainReq[t].seen = {}
    BY DEF ChainInv, ChainTables, Blind, Chains!Request
  <2>3. Chains!Owned(by) # {} => n \in strays'
    BY <2>1, <2>2 DEF Chains!Stray
  <2>4. /\ owner' \in [Groups -> Owners \cup {None}]
        /\ owner'[n] = by
        /\ \A g \in Groups : g # n => owner'[g] = owner[g]
    BY <2>1, <2>2 DEF ChainInv, ChainTables
  <2>5. strays \subseteq strays'
    BY <2>1
  <2>6. OneGroup'
    <3> SUFFICES ASSUME NEW o \in Owners, NEW g \in Groups, NEW h \in Groups,
                        owner'[g] = o, owner'[h] = o, g \notin strays', h \notin strays'
                 PROVE  g = h
      BY DEF OneGroup
    <3>1. CASE g # n /\ h # n
      BY <3>1, <2>4, <2>5 DEF ChainInv, OneGroup
    <3>2. CASE g = n \/ h = n
      <4>1. by = o /\ Chains!Owned(o) = {}
        BY <3>2, <2>3, <2>4
      <4> QED
        BY <4>1, <2>4 DEF Chains!Owned
    <3> QED
      BY <3>1, <3>2
  <2>7. chainReq' \in [Threads -> Chains!Request] /\ Blind'
    BY <1>2, EndBlind DEF Chains!CreateGroup, ChainInv
  <2> QED
    BY <1>2, <2>4, <2>6, <2>7 DEF Chains!CreateGroup, ChainInv, ChainTables, OneChain
<1> QED
  BY <1>1, <1>2

LEMMA MemberStep ==
  ASSUME ChainInv, NEW t \in Threads, Chains!LookForMember(t) \/ Chains!AddStore(t)
  PROVE  ChainInv'
<1>1. CASE Chains!LookForMember(t)
  <2>1. PICK o \in Owners, s \in Stores :
               /\ token[o] # None /\ Chains!GroupsOf(s) = {}
               /\ Chains!Begin(t, Chains!Asks("member", o, token[o], s, Chains!GroupsOf(s)))
    BY <1>1 DEF Chains!LookForMember
  <2> DEFINE r == Chains!Asks("member", o, token[o], s, Chains!GroupsOf(s))
  <2>2. token[o] \in Groups \cup {None}
    BY DEF ChainInv, ChainTables
  <2>3. r \in Chains!Request /\ r.seen = {}
    BY <2>1, <2>2 DEF Chains!Asks, Chains!Request
  <2>4. Chains!Begin(t, r)
    BY <2>1
  <2> HIDE DEF r
  <2>5. chainReq' \in [Threads -> Chains!Request] /\ Blind'
    BY <2>3, <2>4, BeginBlind DEF ChainInv
  <2> QED
    BY <1>1, <2>5 DEF Chains!LookForMember, ChainInv, ChainTables, OneGroup, OneChain
<1>2. CASE Chains!AddStore(t)
  <2> DEFINE n == chainReq[t].group
             u == chainReq[t].store
  <2>1. /\ chainReq[t].op = "member"
        /\ members' = members \cup {<<n, u>>}
        /\ strayMembers' = strayMembers \cup Chains!Stray(<<n, u>>, Chains!GroupsOf(u), chainReq[t].seen)
    BY <1>2 DEF Chains!AddStore
  <2>2. chainReq[t].seen = {}
    BY DEF ChainInv, Blind
  <2>3. Chains!GroupsOf(u) # {} => <<n, u>> \in strayMembers'
    BY <2>1, <2>2 DEF Chains!Stray
  <2>4. OneChain'
    <3> SUFFICES ASSUME NEW s \in Stores, NEW g \in Groups, NEW h \in Groups,
                        <<g, s>> \in members', <<h, s>> \in members',
                        <<g, s>> \notin strayMembers', <<h, s>> \notin strayMembers'
                 PROVE  g = h
      BY DEF OneChain
    <3>1. strayMembers \subseteq strayMembers'
      BY <2>1
    <3>2. CASE s = u /\ (g = n \/ h = n)
      <4>1. Chains!GroupsOf(u) = {}
        BY <3>2, <2>3
      <4>2. <<g, s>> \notin members /\ <<h, s>> \notin members
        BY <3>2, <4>1 DEF Chains!GroupsOf
      <4> QED
        BY <4>2, <2>1
    <3>3. CASE ~(s = u /\ (g = n \/ h = n))
      <4>1. <<g, s>> \in members /\ <<h, s>> \in members
        BY <3>3, <2>1
      <4> QED
        BY <4>1, <3>1 DEF ChainInv, OneChain
    <3> QED
      BY <3>2, <3>3
  <2>5. chainReq' \in [Threads -> Chains!Request] /\ Blind'
    BY <1>2, EndBlind DEF Chains!AddStore, ChainInv
  <2> QED
    BY <1>2, <2>4, <2>5 DEF Chains!AddStore, ChainInv, ChainTables, OneGroup
<1> QED
  BY <1>1, <1>2

LEMMA RemoveStep ==
  ASSUME ChainInv, NEW o \in Owners, Chains!RemoveStore(o)
  PROVE  ChainInv'
<1>1. PICK s \in Stores : /\ members' = members \ {<<token[o], s>>}
                          /\ strayMembers' = strayMembers \ {<<token[o], s>>}
  BY DEF Chains!RemoveStore
<1>2. \A row : row \in members' /\ row \notin strayMembers' => row \in members /\ row \notin strayMembers
  BY <1>1
<1>3. OneChain'
  BY <1>2 DEF ChainInv, OneChain
<1> QED
  BY <1>3 DEF Chains!RemoveStore, ChainInv, ChainTables, Blind, OneGroup

LEMMA OwnerStep ==
  ASSUME ChainInv, NEW o \in Owners, Chains!Login(o) \/ Chains!CreateTransfer(o) \/ Chains!ConfirmTransfer(o)
  PROVE  ChainInv'
<1>1. CASE Chains!Login(o)
  <2>1. token' \in [Owners -> Groups \cup {None}]
    BY <1>1 DEF Chains!Login, ChainInv, ChainTables, Chains!Owned
  <2> QED
    BY <1>1, <2>1 DEF Chains!Login, ChainInv, ChainTables, Blind, OneGroup, OneChain
<1>2. CASE Chains!CreateTransfer(o)
  BY <1>2 DEF Chains!CreateTransfer, ChainInv, ChainTables, Blind, OneGroup, OneChain
<1>3. CASE Chains!ConfirmTransfer(o)
  BY <1>3 DEF Chains!ConfirmTransfer, ChainInv, ChainTables, Blind, OneGroup, OneChain
<1> QED
  BY <1>1, <1>2, <1>3

LEMMA ChainLoses ==
  ASSUME ChainInv, NEW t \in Threads, Chains!Lose(t)
  PROVE  ChainInv'
<1>1. chainReq' \in [Threads -> Chains!Request] /\ Blind'
  BY EndBlind DEF Chains!Lose, ChainInv
<1> QED
  BY <1>1 DEF Chains!Lose, ChainInv, ChainTables, OneGroup, OneChain

LEMMA ChainInvInductive ==
  ASSUME None \notin Owners
  PROVE  (Chains!Init => ChainInv) /\ (ChainInv /\ [Chains!Next]_(Chains!vars) => ChainInv')
<1>1. Chains!Init => ChainInv
  BY ChainIdle DEF Chains!Init, ChainInv, ChainTables, Blind, OneGroup, OneChain
<1>2. ASSUME ChainInv, [Chains!Next]_(Chains!vars) PROVE ChainInv'
  <2>1. CASE UNCHANGED Chains!vars
    BY <1>2, <2>1 DEF Chains!vars, ChainInv, ChainTables, Blind, OneGroup, OneChain
  <2>2. CASE \E o \in Owners : Chains!Login(o) \/ Chains!RemoveStore(o) \/ Chains!CreateTransfer(o) \/ Chains!ConfirmTransfer(o)
    BY <1>2, <2>2, RemoveStep, OwnerStep
  <2>3. CASE \E t \in Threads :
               Chains!LookForGroup(t) \/ Chains!CreateGroup(t) \/ Chains!LookForMember(t) \/ Chains!AddStore(t) \/ Chains!Lose(t)
    BY <1>2, <2>3, GroupStep, MemberStep, ChainLoses
  <2> QED
    BY <1>2, <2>1, <2>2, <2>3 DEF Chains!Next
<1> QED
  BY <1>1, <1>2

-----------------------------------------------------------------------------
(* Chains: what the invariant says of the counts. *)

LEMMA AtMostOne ==
  ASSUME NEW S, \A x, y \in S : x = y
  PROVE  Cardinality(S) <= 1
<1>1. CASE S = {}
  BY <1>1, FS_EmptySet
<1>2. CASE S # {}
  <2>1. PICK x \in S : TRUE
    BY <1>2
  <2>2. S = {x}
    BY <2>1
  <2> QED
    BY <2>2, FS_Singleton
<1> QED
  BY <1>1, <1>2

LEMMA InvExplains == ChainInv => Chains!ChainsExplained
<1> SUFFICES ASSUME ChainInv PROVE Chains!ChainsExplained
  OBVIOUS
<1>1. ASSUME NEW o \in Owners PROVE Cardinality(Chains!Owned(o) \ strays) <= 1
  <2>1. \A g, h \in Chains!Owned(o) \ strays : g = h
    BY DEF ChainInv, OneGroup, Chains!Owned
  <2> QED
    BY <2>1, AtMostOne
<1>2. ASSUME NEW s \in Stores PROVE Cardinality({g \in Chains!GroupsOf(s) : <<g, s>> \notin strayMembers}) <= 1
  <2>1. \A g, h \in {g \in Chains!GroupsOf(s) : <<g, s>> \notin strayMembers} : g = h
    BY DEF ChainInv, OneChain, Chains!GroupsOf
  <2> QED
    BY <2>1, AtMostOne
<1> QED
  BY <1>1, <1>2, Counts DEF Chains!ChainsExplained

(* However requests overlap and fail, a second group of an owner, and a second chain of a   *)
(* store, come from an insert beside one its request could not see (app/chain/routes.py).   *)
THEOREM GroupsExplained ==
  ASSUME None \notin Owners
  PROVE  Chains!Spec => []Chains!ChainsExplained
<1>1. Chains!Init => ChainInv
  BY ChainInvInductive
<1>2. ChainInv /\ [Chains!Next]_(Chains!vars) => ChainInv'
  BY ChainInvInductive
<1>3. ChainInv => Chains!ChainsExplained
  BY InvExplains
<1> QED
  BY <1>1, <1>2, <1>3, PTL DEF Chains!Spec
-----------------------------------------------------------------------------
(* Signing in. *)

Stages == {"none", "insert", "store", "mail", "commit", "use", "activate", "issue", "rotate"}
SignSession == [op : {"none", "register", "resend", "verify", "refresh"}, at : Stages,
            code : Nat \cup {None}, token : Nat \cup {None}]

SignTyped ==
  /\ signing \in [Threads -> SignSession]
  /\ made \in [codes : Nat, tokens : Nat]
  /\ refreshTokens \subseteq 1 .. made.tokens
  /\ inbox \subseteq Nat \cup {None}
  /\ lost \in Nat /\ starts \in Nat /\ extra \in Nat

TokensInv == SignTyped /\ Signing!SessionsExplained

Issuing == {t \in Threads : Signing!At(t, "issue")}

-----------------------------------------------------------------------------
(* Signing in: sets and sessions. *)

LEMMA SignIdle == Signing!Idle \in SignSession /\ Signing!Idle.at = "none"
  BY DEF Signing!Idle, Signing!Asks, SignSession, Stages

LEMMA TokensFinite ==
  ASSUME SignTyped
  PROVE  IsFiniteSet(refreshTokens) /\ Cardinality(refreshTokens) \in Nat
<1>1. IsFiniteSet(1 .. made.tokens)
  BY FS_Interval DEF SignTyped
<1> QED
  BY <1>1, FS_Subset, FS_CardinalityType DEF SignTyped

LEMMA IssuingFinite ==
  ASSUME IsFiniteSet(Threads)
  PROVE  IsFiniteSet(Issuing) /\ Cardinality(Issuing) \in Nat /\ Signing!Entitled = Cardinality(Issuing)
<1>1. Issuing \subseteq Threads
  BY DEF Issuing
<1>2. IsFiniteSet(Issuing)
  BY <1>1, FS_Subset
<1> QED
  BY <1>2, FS_CardinalityType, Counts DEF Issuing, Signing!Entitled

\* A thread that moves enters the issuing ones, leaves them, or neither.
LEMMA SignMoved ==
  ASSUME IsFiniteSet(Threads), SignTyped, NEW t \in Threads, NEW r \in SignSession,
         signing' = [signing EXCEPT ![t] = r]
  PROVE  /\ signing' \in [Threads -> SignSession]
         /\ r.at = "issue" /\ ~Signing!At(t, "issue") => Signing!Entitled' = Signing!Entitled + 1
         /\ r.at # "issue" /\ Signing!At(t, "issue") => Signing!Entitled' = Signing!Entitled - 1
         /\ (r.at = "issue" <=> Signing!At(t, "issue")) => Signing!Entitled' = Signing!Entitled
<1>1. signing' \in [Threads -> SignSession] /\ signing'[t] = r
      /\ \A u \in Threads : u # t => signing'[u] = signing[u]
  BY DEF SignTyped
<1>2. Signing!Entitled' = Cardinality(Issuing')
  BY Counts DEF Signing!Entitled, Issuing
<1>3. r.at = "issue" => Issuing' = Issuing \cup {t}
  BY <1>1 DEF Issuing, Signing!At
<1>4. r.at # "issue" => Issuing' = Issuing \ {t}
  BY <1>1 DEF Issuing, Signing!At
<1>5. t \in Issuing <=> Signing!At(t, "issue")
  BY DEF Issuing
<1>6. t \notin Issuing => Cardinality(Issuing \cup {t}) = Cardinality(Issuing) + 1
  BY IssuingFinite, FS_AddElement
<1>7. t \in Issuing => Cardinality(Issuing \ {t}) = Cardinality(Issuing) - 1
  BY IssuingFinite, FS_RemoveElement
<1>8. t \in Issuing => Issuing \cup {t} = Issuing
  OBVIOUS
<1>9. t \notin Issuing => Issuing \ {t} = Issuing
  OBVIOUS
<1> QED
  BY <1>1, <1>2, <1>3, <1>4, <1>5, <1>6, <1>7, <1>8, <1>9, IssuingFinite

\* The fields that a change of stage or of code leaves in their type.
LEMMA Restaged ==
  ASSUME NEW r \in SignSession, NEW stage \in Stages
  PROVE  [r EXCEPT !.at = stage] \in SignSession /\ [r EXCEPT !.at = stage].at = stage
  BY DEF SignSession

-----------------------------------------------------------------------------
(* Signing in: steps that touch neither a token nor who is to issue one. *)

LEMMA SignQuiet ==
  ASSUME IsFiniteSet(Threads), TokensInv, NEW t \in Threads, NEW r \in SignSession,
         signing' = [signing EXCEPT ![t] = r], r.at # "issue", ~Signing!At(t, "issue"),
         UNCHANGED <<refreshTokens, lost, starts, extra>>,
         made' \in [codes : Nat, tokens : Nat], made'.tokens = made.tokens, inbox' \subseteq Nat \cup {None}
  PROVE  TokensInv'
<1>1. signing' \in [Threads -> SignSession] /\ Signing!Entitled' = Signing!Entitled
  BY SignMoved DEF TokensInv
<1>2. SignTyped'
  BY <1>1 DEF TokensInv, SignTyped
<1> QED
  BY <1>1, <1>2, Counts DEF TokensInv, Signing!SessionsExplained

LEMMA SignBegins ==
  ASSUME IsFiniteSet(Threads), TokensInv, NEW t \in Threads, NEW r \in SignSession, r.at # "issue",
         Signing!Begin(t, r), UNCHANGED <<inbox, refreshTokens, made, starts, extra, lost>>
  PROVE  TokensInv'
<1>1. signing' = [signing EXCEPT ![t] = r] /\ ~Signing!At(t, "issue")
  BY SignIdle DEF Signing!Begin, Signing!At
<1> QED
  BY <1>1, SignQuiet DEF TokensInv, SignTyped

LEMMA SignEnds ==
  ASSUME IsFiniteSet(Threads), TokensInv, NEW t \in Threads, Signing!End(t), ~Signing!At(t, "issue"),
         UNCHANGED <<refreshTokens, made, starts, extra, lost>>, inbox' \subseteq Nat \cup {None}
  PROVE  TokensInv'
  BY SignIdle, SignQuiet DEF Signing!End, TokensInv, SignTyped

LEMMA SignGoes ==
  ASSUME IsFiniteSet(Threads), TokensInv, NEW t \in Threads, NEW stage \in Stages, Signing!GoTo(t, stage),
         stage # "issue", ~Signing!At(t, "issue"),
         UNCHANGED <<refreshTokens, made, starts, extra, lost>>, inbox' \subseteq Nat \cup {None}
  PROVE  TokensInv'
<1> DEFINE r == [signing[t] EXCEPT !.at = stage]
<1>1. signing[t] \in SignSession
  BY DEF TokensInv, SignTyped
<1>2. r \in SignSession /\ r.at = stage
  BY <1>1, Restaged
<1>3. signing' = [signing EXCEPT ![t] = r]
  BY DEF Signing!GoTo
<1> HIDE DEF r
<1> QED
  BY <1>2, <1>3, SignQuiet DEF TokensInv, SignTyped

LEMMA CodeStep ==
  ASSUME IsFiniteSet(Threads), TokensInv, NEW t \in Threads,
         Signing!FindNobody(t) \/ Signing!InsertUser(t) \/ Signing!FindUser(t) \/ Signing!StoreCode(t) \/ Signing!MailCode(t) \/ Signing!CommitUser(t)
  PROVE  TokensInv'
<1>1. CASE Signing!FindNobody(t)
  <2>1. Signing!Asks("register", "insert", None, None) \in SignSession
    BY DEF Signing!Asks, SignSession, Stages
  <2>2. Signing!Asks("register", "insert", None, None).at # "issue"
    BY DEF Signing!Asks
  <2> QED
    BY <1>1, <2>1, <2>2, SignBegins DEF Signing!FindNobody
<1>2. CASE Signing!InsertUser(t)
  <2>1. ~Signing!At(t, "issue") /\ inbox' \subseteq Nat \cup {None} /\ "store" \in Stages
    BY <1>2 DEF Signing!InsertUser, Signing!At, Stages, TokensInv, SignTyped
  <2> QED
    BY <1>2, <2>1, SignGoes, SignEnds DEF Signing!InsertUser
<1>3. CASE Signing!FindUser(t)
  <2>1. Signing!Asks("resend", "store", None, None) \in SignSession
    BY DEF Signing!Asks, SignSession, Stages
  <2>2. Signing!Asks("resend", "store", None, None).at # "issue"
    BY DEF Signing!Asks
  <2> QED
    BY <1>3, <2>1, <2>2, SignBegins DEF Signing!FindUser
<1>4. CASE Signing!StoreCode(t)
  <2> DEFINE n == made.codes + 1
             r == [signing[t] EXCEPT !.at = "mail", !.code = n]
  <2>1. signing[t] \in SignSession /\ n \in Nat
    BY DEF TokensInv, SignTyped
  <2>2. r \in SignSession /\ r.at = "mail"
    BY <2>1 DEF SignSession, Stages
  <2>3. signing' = [signing EXCEPT ![t] = r] /\ ~Signing!At(t, "issue")
    BY <1>4 DEF Signing!StoreCode, Signing!At
  <2>4. made' \in [codes : Nat, tokens : Nat] /\ made'.tokens = made.tokens
    BY <1>4, <2>1 DEF Signing!StoreCode, TokensInv, SignTyped
  <2>5. inbox' \subseteq Nat \cup {None} /\ UNCHANGED <<refreshTokens, lost, starts, extra>>
    BY <1>4 DEF Signing!StoreCode, TokensInv, SignTyped
  <2> HIDE DEF r, n
  <2> QED
    BY <2>2, <2>3, <2>4, <2>5, SignQuiet
<1>5. CASE Signing!MailCode(t)
  <2>1. ~Signing!At(t, "issue") /\ "commit" \in Stages
    BY <1>5 DEF Signing!MailCode, Signing!At, Stages
  <2>2. signing[t].code \in Nat \cup {None} /\ inbox \subseteq Nat \cup {None}
    BY DEF TokensInv, SignTyped, SignSession
  <2>3. inbox' \subseteq Nat \cup {None}
    BY <1>5, <2>2 DEF Signing!MailCode
  <2> QED
    BY <1>5, <2>1, <2>3, SignGoes, SignEnds DEF Signing!MailCode
<1>6. CASE Signing!CommitUser(t)
  BY <1>6, SignEnds DEF Signing!CommitUser, Signing!At, TokensInv, SignTyped
<1> QED
  BY <1>1, <1>2, <1>3, <1>4, <1>5, <1>6

-----------------------------------------------------------------------------
(* Signing in: steps that start or end a chain of tokens, or carry it on. *)

LEMMA VerifyStep ==
  ASSUME IsFiniteSet(Threads), TokensInv, NEW t \in Threads,
         Signing!CheckCode(t) \/ Signing!UseCode(t) \/ Signing!Activate(t) \/ Signing!FindToken(t)
  PROVE  TokensInv'
<1> USE DEF TokensInv
<1>1. CASE Signing!CheckCode(t)
  <2>1. PICK c \in inbox : c = code /\ Signing!Begin(t, Signing!Asks("verify", "use", c, None))
    BY <1>1 DEF Signing!CheckCode
  <2>2. Signing!Asks("verify", "use", c, None) \in SignSession
    BY <2>1 DEF Signing!Asks, SignSession, Stages, SignTyped
  <2>3. Signing!Asks("verify", "use", c, None).at # "issue"
    BY DEF Signing!Asks
  <2> QED
    BY <1>1, <2>1, <2>2, <2>3, SignBegins DEF Signing!CheckCode
<1>2. CASE Signing!UseCode(t)
  <2>1. ~Signing!At(t, "issue") /\ "activate" \in Stages /\ inbox' \subseteq Nat \cup {None}
    BY <1>2 DEF Signing!UseCode, Signing!At, Stages, SignTyped
  <2> QED
    BY <1>2, <2>1, SignGoes, SignEnds DEF Signing!UseCode
<1>3. CASE Signing!Activate(t)
  <2>1. ~Signing!At(t, "issue") /\ inbox' \subseteq Nat \cup {None} /\ UNCHANGED <<refreshTokens, made, extra, lost>>
    BY <1>3 DEF Signing!Activate, Signing!At, SignTyped
  <2>2. CASE user = None
    BY <1>3, <2>1, <2>2, SignEnds DEF Signing!Activate
  <2>3. CASE user # None
    <3> DEFINE r == [signing[t] EXCEPT !.at = "issue"]
    <3>1. signing[t] \in SignSession /\ "issue" \in Stages
      BY DEF SignTyped, Stages
    <3>2. r \in SignSession /\ r.at = "issue"
      BY <3>1, Restaged
    <3>3. signing' = [signing EXCEPT ![t] = r] /\ starts' = starts + 1
      BY <1>3, <2>3 DEF Signing!Activate, Signing!GoTo
    <3> HIDE DEF r
    <3>4. signing' \in [Threads -> SignSession] /\ Signing!Entitled' = Signing!Entitled + 1
      BY <2>1, <3>2, <3>3, SignMoved
    <3>5. SignTyped'
      BY <2>1, <3>3, <3>4 DEF SignTyped
    <3> QED
      BY <2>1, <3>3, <3>4, <3>5, TokensFinite, IssuingFinite, Counts DEF Signing!SessionsExplained, SignTyped
  <2> QED
    BY <2>2, <2>3
<1>4. CASE Signing!FindToken(t)
  <2>1. PICK n \in refreshTokens : Signing!Begin(t, Signing!Asks("refresh", "rotate", None, n))
    BY <1>4 DEF Signing!FindToken
  <2>2. n \in Nat
    BY DEF SignTyped
  <2>3. Signing!Asks("refresh", "rotate", None, n) \in SignSession
    BY <2>2 DEF Signing!Asks, SignSession, Stages
  <2>4. Signing!Asks("refresh", "rotate", None, n).at # "issue"
    BY DEF Signing!Asks
  <2> QED
    BY <1>4, <2>1, <2>3, <2>4, SignBegins DEF Signing!FindToken
<1> QED
  BY <1>1, <1>2, <1>3, <1>4

\* The new token is above all earlier ones.
LEMMA IssueStep ==
  ASSUME IsFiniteSet(Threads), TokensInv, NEW t \in Threads, Signing!IssueToken(t)
  PROVE  TokensInv'
<1> DEFINE m == made.tokens
           n == m + 1
<1>1. /\ signing' = [signing EXCEPT ![t] = Signing!Idle] /\ Signing!At(t, "issue")
      /\ UNCHANGED <<inbox, starts, extra>>
  BY DEF Signing!IssueToken, Signing!End
<1>2. signing' \in [Threads -> SignSession] /\ Signing!Entitled' = Signing!Entitled - 1
  BY <1>1, SignMoved, SignIdle DEF TokensInv
<1>3. m \in Nat /\ refreshTokens \subseteq 1 .. m
  BY DEF TokensInv, SignTyped
<1>4. made' \in [codes : Nat, tokens : Nat] /\ made'.tokens = n
  BY <1>3 DEF Signing!IssueToken, TokensInv, SignTyped
<1>5. \/ refreshTokens' = refreshTokens \cup {n} /\ lost' = lost
      \/ refreshTokens' = refreshTokens /\ lost' = lost + 1
  BY DEF Signing!IssueToken
<1> HIDE DEF m
<1>6. n \notin refreshTokens /\ refreshTokens \cup {n} \subseteq 1 .. n /\ refreshTokens \subseteq 1 .. n
  BY <1>3
<1>7. Cardinality(refreshTokens \cup {n}) = Cardinality(refreshTokens) + 1
  BY <1>6, TokensFinite, FS_AddElement DEF TokensInv
<1> HIDE DEF n
<1>8. refreshTokens' \subseteq 1 .. n /\ lost' \in Nat
  BY <1>5, <1>6 DEF TokensInv, SignTyped
<1>9. SignTyped'
  BY <1>1, <1>2, <1>4, <1>8 DEF TokensInv, SignTyped
<1>10. Cardinality(refreshTokens) \in Nat /\ Signing!Entitled \in Nat
  BY TokensFinite, IssuingFinite DEF TokensInv
<1>11. lost \in Nat /\ starts \in Nat /\ extra \in Nat
  BY DEF TokensInv, SignTyped
<1>12. Cardinality(refreshTokens') \in Int /\ Cardinality(refreshTokens') + lost' = Cardinality(refreshTokens) + lost + 1
  <2>1. CASE refreshTokens' = refreshTokens \cup {n} /\ lost' = lost
    BY <1>7, <1>10, <1>11, <2>1
  <2>2. CASE refreshTokens' = refreshTokens /\ lost' = lost + 1
    BY <1>10, <1>11, <2>2
  <2> QED
    BY <1>5, <2>1, <2>2
<1>13. Signing!SessionsExplained'
  BY <1>1, <1>2, <1>8, <1>10, <1>11, <1>12, Counts DEF TokensInv, Signing!SessionsExplained
<1> QED
  BY <1>9, <1>13 DEF TokensInv

LEMMA RotateStep ==
  ASSUME IsFiniteSet(Threads), TokensInv, NEW t \in Threads, Signing!Rotate(t)
  PROVE  TokensInv'
<1> DEFINE old == signing[t].token
           r == [signing[t] EXCEPT !.at = "issue"]
<1>1. signing[t] \in SignSession /\ "issue" \in Stages /\ extra \in Nat
  BY DEF TokensInv, SignTyped, Stages
<1>2. r \in SignSession /\ r.at = "issue"
  BY <1>1, Restaged
<1>3. /\ signing' = [signing EXCEPT ![t] = r] /\ ~Signing!At(t, "issue")
      /\ UNCHANGED <<inbox, made, starts, lost>>
  BY DEF Signing!Rotate, Signing!GoTo, Signing!At
<1>4. \/ old \in refreshTokens /\ refreshTokens' = refreshTokens \ {old} /\ extra' = extra
      \/ refreshTokens' = refreshTokens /\ extra' = extra + 1
  <2>1. CASE old \in refreshTokens
    BY <1>1, <2>1 DEF Signing!Rotate
  <2>2. CASE old \notin refreshTokens
    <3>1. refreshTokens \ {old} = refreshTokens
      BY <2>2
    <3> QED
      BY <1>1, <2>2, <3>1 DEF Signing!Rotate
  <2> QED
    BY <2>1, <2>2
<1>5. old \in refreshTokens => Cardinality(refreshTokens \ {old}) = Cardinality(refreshTokens) - 1
  BY TokensFinite, FS_RemoveElement DEF TokensInv
<1> HIDE DEF r, old
<1>6. signing' \in [Threads -> SignSession] /\ Signing!Entitled' = Signing!Entitled + 1
  BY <1>2, <1>3, SignMoved DEF TokensInv
<1>7. refreshTokens' \subseteq refreshTokens /\ extra' \in Nat
  BY <1>1, <1>4
<1>8. SignTyped'
  BY <1>3, <1>6, <1>7 DEF TokensInv, SignTyped
<1>9. Cardinality(refreshTokens) \in Nat /\ Signing!Entitled \in Nat
  BY TokensFinite, IssuingFinite DEF TokensInv
<1>10. Cardinality(refreshTokens') \in Int /\ Cardinality(refreshTokens') + 1 + extra = Cardinality(refreshTokens) + extra'
  <2>1. CASE old \in refreshTokens /\ refreshTokens' = refreshTokens \ {old} /\ extra' = extra
    BY <1>1, <1>5, <1>9, <2>1
  <2>2. CASE refreshTokens' = refreshTokens /\ extra' = extra + 1
    BY <1>1, <1>9, <2>2
  <2> QED
    BY <1>4, <2>1, <2>2
<1>11. Signing!SessionsExplained'
  BY <1>1, <1>3, <1>6, <1>7, <1>9, <1>10, Counts DEF TokensInv, Signing!SessionsExplained, SignTyped
<1> QED
  BY <1>8, <1>11 DEF TokensInv

LEMMA LossStep ==
  ASSUME IsFiniteSet(Threads), TokensInv
  PROVE  /\ Signing!DropToken => TokensInv'
         /\ \A t \in Threads : Signing!Crash(t) => TokensInv'
<1>1. ASSUME Signing!DropToken PROVE TokensInv'
  <2>1. PICK n \in refreshTokens : refreshTokens' = refreshTokens \ {n}
    BY <1>1 DEF Signing!DropToken
  <2>2. /\ Cardinality(refreshTokens') = Cardinality(refreshTokens) - 1
        /\ lost' = lost + 1
        /\ UNCHANGED <<signing, made, inbox, starts, extra>>
    BY <1>1, <2>1, TokensFinite, FS_RemoveElement DEF Signing!DropToken, TokensInv
  <2>3. SignTyped' /\ Signing!Entitled' = Signing!Entitled
    BY <2>1, <2>2, Counts DEF TokensInv, SignTyped, Signing!Entitled, Signing!At
  <2> QED
    BY <2>2, <2>3, TokensFinite, IssuingFinite, Counts DEF TokensInv, Signing!SessionsExplained, SignTyped
<1>2. ASSUME NEW t \in Threads, Signing!Crash(t) PROVE TokensInv'
  <2>1. /\ signing' = [signing EXCEPT ![t] = Signing!Idle]
        /\ UNCHANGED <<inbox, refreshTokens, made, starts, extra>>
    BY <1>2 DEF Signing!Crash, Signing!End
  <2>2. /\ signing' \in [Threads -> SignSession]
        /\ Signing!At(t, "issue") => Signing!Entitled' = Signing!Entitled - 1
        /\ ~Signing!At(t, "issue") => Signing!Entitled' = Signing!Entitled
    BY <2>1, SignMoved, SignIdle DEF TokensInv
  <2>3. lost' = lost + (IF Signing!At(t, "issue") THEN 1 ELSE 0)
    BY <1>2 DEF Signing!Crash
  <2>4. SignTyped'
    BY <2>1, <2>2, <2>3 DEF TokensInv, SignTyped
  <2> QED
    BY <2>1, <2>2, <2>3, <2>4, TokensFinite, IssuingFinite, Counts DEF TokensInv, Signing!SessionsExplained, SignTyped
<1> QED
  BY <1>1, <1>2

-----------------------------------------------------------------------------
(* Signing in: the invariant of the tokens. *)

LEMMA SignStill ==
  ASSUME TokensInv,
         UNCHANGED <<signing, made, refreshTokens, inbox, lost, starts, extra>>
  PROVE  TokensInv'
  BY DEF TokensInv, SignTyped, Signing!SessionsExplained, Signing!Entitled, Signing!At

LEMMA SignInit ==
  ASSUME IsFiniteSet(Threads), Signing!Init
  PROVE  TokensInv
<1>1. SignTyped
  BY SignIdle DEF Signing!Init, SignTyped
<1>2. Issuing = {}
  BY SignIdle DEF Signing!Init, Issuing, Signing!At
<1>3. Cardinality(refreshTokens) = 0 /\ Signing!Entitled = 0
  BY <1>2, IssuingFinite, FS_EmptySet DEF Signing!Init
<1> QED
  BY <1>1, <1>3, Counts DEF TokensInv, Signing!SessionsExplained, Signing!Init

LEMMA SignStep ==
  ASSUME IsFiniteSet(Threads), TokensInv, [Signing!Next]_(Signing!vars)
  PROVE  TokensInv'
<1>1. CASE Signing!Next
  <2>1. CASE Signing!ExpireCode
    BY <2>1, SignStill DEF Signing!ExpireCode
  <2>2. CASE Signing!DropToken
    BY <2>2, LossStep
  <2>3. ASSUME NEW t \in Threads,
               \/ Signing!FindNobody(t) \/ Signing!InsertUser(t) \/ Signing!FindUser(t) \/ Signing!StoreCode(t) \/ Signing!MailCode(t)
               \/ Signing!CommitUser(t)
        PROVE  TokensInv'
    BY <2>3, CodeStep
  <2>4. ASSUME NEW t \in Threads,
               Signing!CheckCode(t) \/ Signing!UseCode(t) \/ Signing!Activate(t) \/ Signing!FindToken(t)
        PROVE  TokensInv'
    BY <2>4, VerifyStep
  <2>5. ASSUME NEW t \in Threads, Signing!IssueToken(t) \/ Signing!Rotate(t) \/ Signing!Crash(t)
        PROVE  TokensInv'
    BY <2>5, IssueStep, RotateStep, LossStep
  <2>6. ASSUME NEW t \in Threads, Signing!Refuse(t)
        PROVE  TokensInv'
    BY <2>6, SignStill DEF Signing!Refuse, Signing!vars
  <2> QED
    BY <1>1, <2>1, <2>2, <2>3, <2>4, <2>5, <2>6 DEF Signing!Next
<1>2. CASE UNCHANGED Signing!vars
  BY <1>2, SignStill DEF Signing!vars
<1> QED
  BY <1>1, <1>2

(* However refreshes race, whatever Redis, the mail server or a thread does: the refresh   *)
(* tokens of a person, and those threads are about to issue, are the activations and the   *)
(* refreshes that took a token which was gone or stayed, less those logged out or lost.    *)
THEOREM TokensExplained ==
  ASSUME IsFiniteSet(Threads)
  PROVE  Signing!Spec => []Signing!SessionsExplained
<1>1. Signing!Init => TokensInv
  BY SignInit
<1>2. TokensInv /\ [Signing!Next]_(Signing!vars) => TokensInv'
  BY SignStep
<1>3. TokensInv => Signing!SessionsExplained
  BY DEF TokensInv
<1> QED
  BY <1>1, <1>2, <1>3, PTL DEF Signing!Spec

-----------------------------------------------------------------------------
(* API calls. *)

Job == [at : {"none", "row", "delete", "commit"}, count : Nat, row : Nat \cup {None}, old : Nat,
        deleted : Nat]

UsageTyped ==
  /\ hash \in Nat /\ records \in Seq(Nat) /\ job \in [Threads -> Job]
  /\ \A w \in Threads : /\ job[w].row # None => job[w].row \in DOMAIN records
                        /\ job[w].at # "commit" => job[w].deleted = 0
  /\ calls \in Nat /\ gone \in Nat /\ twice \in Nat /\ stale \in Int

UsageInv == UsageTyped /\ Usage!CallsExplained

(* What the hash, the records and the runs hold, in the terms of Sums. *)
Deleted == [w \in Threads |-> job[w].deleted]
Recorded == Total(records, DOMAIN records)
InHand == Total(Deleted, Threads)

LEMMA SumsAreTotals ==
  ASSUME NEW f, NEW S
  PROVE  Usage!Sum(f, S) = Total(f, S)
  BY DEF Usage!Sum, Usage!FoldSet, Usage!MapThenFoldSet, Total, MapThenSumSet, MapThenFoldSet

LEMMA CallsAre == Usage!CallsExplained <=> calls = hash + Recorded + InHand + gone - twice + stale
  BY SumsAreTotals DEF Usage!CallsExplained, Recorded, InHand, Deleted

LEMMA UsageSums ==
  ASSUME IsFiniteSet(Threads), UsageTyped
  PROVE  Recorded \in Int /\ InHand \in Int
<1>1. IsFiniteSet(DOMAIN records) /\ \A i \in DOMAIN records : records[i] \in Int
  <2>1. DOMAIN records = 1 .. Len(records) /\ Len(records) \in Int
    BY DEF UsageTyped
  <2> QED
    BY <2>1, FS_Interval DEF UsageTyped
<1>2. \A w \in Threads : Deleted[w] \in Int
  BY DEF Deleted, UsageTyped, Job
<1> QED
  BY <1>1, <1>2, TotalInt DEF Recorded, InHand

\* One run's part in hand changes by what it deleted.
LEMMA InHandMoves ==
  ASSUME IsFiniteSet(Threads), UsageTyped, NEW w \in Threads, NEW j \in Job,
         job' = [job EXCEPT ![w] = j]
  PROVE  /\ job' \in [Threads -> Job]
         /\ job'[w] = j /\ \A v \in Threads : v # w => job'[v] = job[v]
         /\ InHand' = InHand + (j.deleted - job[w].deleted)
<1>1. /\ job' \in [Threads -> Job]
      /\ job'[w] = j /\ \A v \in Threads : v # w => job'[v] = job[v]
  BY DEF UsageTyped
<1> DEFINE k == [v \in Threads |-> job'[v].deleted]
<1>2. PutAt(Deleted, Threads, k, Threads, w)
  <2>1. \A v \in Threads : Deleted[v] \in Int /\ k[v] \in Int
    BY <1>1 DEF Deleted, UsageTyped, Job
  <2>2. \A v \in Threads : v # w => k[v] = Deleted[v]
    BY <1>1 DEF Deleted
  <2>3. Threads = Threads \cup {w}
    OBVIOUS
  <2> QED
    BY <2>1, <2>2, <2>3 DEF PutAt
<1>3. k[w] = j.deleted /\ Was(Deleted, Threads, w) = job[w].deleted
  BY <1>1 DEF Was, Deleted
<1>4. InHand' = Total(k, Threads)
  BY DEF InHand, Deleted
<1> HIDE DEF k
<1> QED
  BY <1>1, <1>2, <1>3, <1>4, TotalPut DEF InHand

LEMMA NoJob == Usage!Idle \in Job /\ Usage!Idle.at = "none" /\ Usage!Idle.row = None /\ Usage!Idle.deleted = 0
  BY DEF Usage!Idle, Job

\* Steps that leave the records alone.
LEMMA RunMoves ==
  ASSUME IsFiniteSet(Threads), UsageInv, NEW w \in Threads, NEW j \in Job,
         job' = [job EXCEPT ![w] = j],
         j.row # None => j.row \in DOMAIN records, j.at # "commit" => j.deleted = 0,
         UNCHANGED <<records, calls, twice, stale>>, hash' \in Nat, gone' \in Nat,
         hash' + j.deleted + gone' = hash + job[w].deleted + gone
  PROVE  UsageInv'
<1>1. UsageTyped'
  BY InHandMoves DEF UsageInv, UsageTyped
<1>2. Recorded' = Recorded
  BY DEF Recorded
<1>3. InHand' = InHand + (j.deleted - job[w].deleted)
  BY InHandMoves DEF UsageInv
<1>4. calls = hash + Recorded + InHand + gone - twice + stale
  BY CallsAre DEF UsageInv
<1>5. /\ calls \in Int /\ hash \in Int /\ gone \in Int /\ twice \in Int /\ stale \in Int
      /\ j.deleted \in Int /\ job[w].deleted \in Int /\ Recorded \in Int /\ InHand \in Int
  BY UsageSums DEF UsageInv, UsageTyped, Job
<1>6. calls' = hash' + Recorded' + InHand' + gone' - twice' + stale'
  <2>1. /\ calls' = calls /\ twice' = twice /\ stale' = stale /\ hash' \in Int /\ gone' \in Int
        /\ hash' + j.deleted + gone' = hash + job[w].deleted + gone
    OBVIOUS
  <2> QED
    BY ONLY <1>2, <1>3, <1>4, <1>5, <2>1
<1>7. Usage!CallsExplained'
  BY <1>6, SumsAreTotals DEF Usage!CallsExplained, Recorded, InHand, Deleted
<1> QED
  BY <1>1, <1>7 DEF UsageInv

LEMMA UsageReads ==
  ASSUME IsFiniteSet(Threads), UsageInv, NEW w \in Threads,
         Usage!ReadHash(w) \/ Usage!FindRecord(w) \/ Usage!DeleteHash(w) \/ Usage!Fail(w)
  PROVE  UsageInv'
<1>0. /\ job[w] \in Job /\ hash \in Nat /\ gone \in Nat
      /\ job[w].row # None => job[w].row \in DOMAIN records
      /\ job[w].at # "commit" => job[w].deleted = 0
      /\ \A n \in DOMAIN records : n \in Nat /\ records[n] \in Nat
  BY DEF UsageInv, UsageTyped
<1>1. CASE Usage!ReadHash(w)
  <2> DEFINE j == [Usage!Idle EXCEPT !.at = "row", !.count = hash]
  <2>1. j \in Job /\ j.row = None /\ j.deleted = 0
    BY <1>0 DEF Job, Usage!Idle
  <2>2. job' = [job EXCEPT ![w] = j] /\ job[w].deleted = 0
    BY <1>1, NoJob DEF Usage!ReadHash
  <2> HIDE DEF j
  <2>3. /\ UNCHANGED <<records, calls, twice, stale>> /\ hash' \in Nat /\ gone' \in Nat
        /\ hash' + j.deleted + gone' = hash + job[w].deleted + gone
    BY <1>0, <1>1, <2>1, <2>2 DEF Usage!ReadHash
  <2> QED
    BY <2>1, <2>2, <2>3, RunMoves
<1>2. CASE Usage!FindRecord(w)
  <2>1. PICK j \in Job : /\ job' = [job EXCEPT ![w] = j]
                         /\ j.row # None => j.row \in DOMAIN records
                         /\ j.at = "delete" /\ j.deleted = job[w].deleted
    <3>1. CASE \E n \in DOMAIN records :
                 job' = [job EXCEPT ![w] = [@ EXCEPT !.at = "delete", !.row = n, !.old = records[n]]]
      <4>1. PICK n \in DOMAIN records :
                 job' = [job EXCEPT ![w] = [@ EXCEPT !.at = "delete", !.row = n, !.old = records[n]]]
        BY <3>1
      <4> DEFINE j == [job[w] EXCEPT !.at = "delete", !.row = n, !.old = records[n]]
      <4>2. j \in Job /\ j.row = n /\ j.at = "delete" /\ j.deleted = job[w].deleted
        BY <1>0 DEF Job
      <4>3. job' = [job EXCEPT ![w] = j]
        BY <4>1
      <4> HIDE DEF j
      <4> QED
        BY <4>2, <4>3
    <3>2. CASE job' = [job EXCEPT ![w].at = "delete"]
      <4> DEFINE j == [job[w] EXCEPT !.at = "delete"]
      <4>1. j \in Job /\ j.row = job[w].row /\ j.at = "delete" /\ j.deleted = job[w].deleted
        BY <1>0 DEF Job
      <4>2. job' = [job EXCEPT ![w] = j]
        BY <3>2
      <4> HIDE DEF j
      <4> QED
        BY <1>0, <4>1, <4>2
    <3> QED
      BY <1>2, <3>1, <3>2 DEF Usage!FindRecord
  <2>2. job[w].at = "row" /\ UNCHANGED <<hash, records, calls, gone, twice, stale>>
    BY <1>2 DEF Usage!FindRecord
  <2>3. job[w].deleted = 0
    BY <1>0, <2>2
  <2> QED
    BY <1>0, <2>1, <2>2, <2>3, RunMoves
<1>3. CASE Usage!DeleteHash(w)
  <2> DEFINE j == [job[w] EXCEPT !.at = "commit", !.deleted = hash]
  <2>1. j \in Job /\ j.row = job[w].row /\ j.at = "commit" /\ j.deleted = hash
    BY <1>0 DEF Job
  <2>2. /\ job' = [job EXCEPT ![w] = j] /\ job[w].at = "delete" /\ hash' = 0
        /\ UNCHANGED <<records, calls, gone, twice, stale>>
    BY <1>3 DEF Usage!DeleteHash
  <2> HIDE DEF j
  <2>3. hash' \in Nat /\ gone' \in Nat /\ hash' + j.deleted + gone' = hash + job[w].deleted + gone
    BY <1>0, <2>1, <2>2
  <2> QED
    BY <1>0, <2>1, <2>2, <2>3, RunMoves
<1>4. CASE Usage!Fail(w)
  <2> DEFINE j == Usage!Idle
  <2>1. /\ job' = [job EXCEPT ![w] = j] /\ gone' = gone + job[w].deleted
        /\ UNCHANGED <<hash, records, calls, twice, stale>>
    BY <1>4 DEF Usage!Fail
  <2>2. j \in Job /\ j.row = None /\ j.deleted = 0
    BY NoJob
  <2> HIDE DEF j
  <2>3. job[w].deleted \in Nat
    BY <1>0 DEF Job
  <2>4. hash' \in Nat /\ gone' \in Nat /\ hash' + j.deleted + gone' = hash + job[w].deleted + gone
    BY <1>0, <2>1, <2>2, <2>3
  <2> QED
    BY <2>1, <2>2, <2>4, RunMoves
<1> QED
  BY <1>1, <1>2, <1>3, <1>4

LEMMA Excess ==
  ASSUME NEW x \in Nat, NEW y \in Nat
  PROVE  /\ Usage!Max({0, x - y}) \in Nat /\ Usage!Max({0, y - x}) \in Nat
         /\ Usage!Max({0, x - y}) - Usage!Max({0, y - x}) = x - y
<1>1. ASSUME NEW z \in Int PROVE Usage!Max({0, z}) = IF z > 0 THEN z ELSE 0
  <2>1. \E m \in {0, z} : \A n \in {0, z} : m >= n
    OBVIOUS
  <2>2. Usage!Max({0, z}) \in {0, z} /\ \A n \in {0, z} : Usage!Max({0, z}) >= n
    BY <2>1 DEF Usage!Max
  <2> QED
    BY <2>2
<1>2. x - y \in Int /\ y - x \in Int
  OBVIOUS
<1> QED
  BY <1>1, <1>2

LEMMA RecordPut ==
  ASSUME NEW s \in Seq(Nat), NEW n \in DOMAIN s, NEW c \in Nat
  PROVE  /\ [s EXCEPT ![n] = c] \in Seq(Nat) /\ DOMAIN [s EXCEPT ![n] = c] = DOMAIN s
         /\ [s EXCEPT ![n] = c][n] = c
         /\ \A i \in DOMAIN s : i # n => [s EXCEPT ![n] = c][i] = s[i]
  OBVIOUS

LEMMA UsageCommits ==
  ASSUME IsFiniteSet(Threads), UsageInv, NEW w \in Threads, Usage!Commit(w)
  PROVE  UsageInv'
<1> DEFINE j == job[w]
           n == IF j.row = None THEN Len(records) + 1 ELSE j.row
           c == IF j.row = None THEN j.count ELSE j.old + j.count
           b == Was(records, DOMAIN records, n)
           over == Usage!Max({0, j.deleted - j.count})
           more == Usage!Max({0, j.count - j.deleted})
<1>1. /\ j \in Job
      /\ j.row # None => j.row \in DOMAIN records
      /\ records \in Seq(Nat) /\ gone \in Nat /\ twice \in Nat /\ stale \in Int /\ hash \in Nat
      /\ calls \in Nat /\ DOMAIN records = 1 .. Len(records) /\ Len(records) \in Nat
  BY DEF UsageInv, UsageTyped
<1>2. j.count \in Nat /\ j.old \in Nat /\ j.deleted \in Nat
  <2> HIDE DEF j
  <2> QED
    BY <1>1 DEF Job
<1>3. over \in Nat /\ more \in Nat /\ over - more = j.deleted - j.count
  <2> HIDE DEF j
  <2> QED
    BY <1>2, Excess
<1>4. /\ gone' = gone + over /\ twice' = twice + more
      /\ job' = [job EXCEPT ![w] = Usage!Idle] /\ UNCHANGED <<hash, calls>>
  BY DEF Usage!Commit
<1>5. /\ c \in Nat /\ records' \in Seq(Nat) /\ records'[n] = c
      /\ DOMAIN records' = DOMAIN records \cup {n}
      /\ \A i \in DOMAIN records : i # n => records'[i] = records[i]
  <2>1. CASE j.row = None
    <3>1. records' = Append(records, j.count)
      BY <2>1 DEF Usage!Commit
    <3>2. /\ records' \in Seq(Nat) /\ DOMAIN records' = 1 .. Len(records) + 1
          /\ records'[Len(records) + 1] = j.count
          /\ \A i \in 1 .. Len(records) : records'[i] = records[i]
      BY <1>1, <1>2, <3>1
    <3>3. 1 .. Len(records) + 1 = (1 .. Len(records)) \cup {Len(records) + 1}
      BY <1>1
    <3> HIDE DEF j
    <3> QED
      BY <1>1, <1>2, <2>1, <3>2, <3>3
  <2>2. CASE j.row # None
    <3>1. records' = [records EXCEPT ![j.row] = j.old + j.count]
      BY <2>2 DEF Usage!Commit
    <3>2. n = j.row /\ c = j.old + j.count /\ n \in DOMAIN records /\ c \in Nat
      BY <1>1, <1>2, <2>2
    <3>3. DOMAIN records \cup {n} = DOMAIN records
      BY <3>2
    <3>4. records' = [records EXCEPT ![n] = c]
      BY <3>1, <3>2
    <3> HIDE DEF n, c
    <3> QED
      BY <1>1, <3>2, <3>3, <3>4, RecordPut
  <2> QED
    BY <2>1, <2>2
<1>6. b \in Int /\ stale' = stale + (b - (c - j.count))
  <2>1. CASE j.row = None
    <3>1. n \notin DOMAIN records /\ stale' = stale
      BY <1>1, <2>1 DEF Usage!Commit
    <3> HIDE DEF j
    <3> QED
      BY <1>1, <1>2, <2>1, <3>1 DEF Was
  <2>2. CASE j.row # None
    <3>1. stale' = stale + (records[j.row] - j.old)
      BY <2>2 DEF Usage!Commit
    <3>2. n = j.row /\ n \in DOMAIN records
      BY <1>1, <2>2
    <3>3. records[j.row] \in Nat /\ b = records[j.row]
      <4> HIDE DEF n, j
      <4> QED
        BY <1>1, <3>2 DEF Was
    <3> HIDE DEF j
    <3> QED
      BY <1>1, <1>2, <2>2, <3>1, <3>3
  <2> QED
    BY <2>1, <2>2
<1>7. Recorded' = Recorded + (c - b)
  <2>1. IsFiniteSet(DOMAIN records) /\ \A i \in DOMAIN records : records[i] \in Int
    <3>1. IsFiniteSet(1 .. Len(records))
      BY <1>1, FS_Interval
    <3> QED
      BY ONLY <1>1, <3>1
  <2>2. PutAt(records, DOMAIN records, records', DOMAIN records', n)
    <3> HIDE DEF n, c
    <3> QED
      BY <1>5, <2>1 DEF PutAt
  <2>3. Total(records', DOMAIN records') = Total(records, DOMAIN records) + (records'[n] - b)
    <3> HIDE DEF n
    <3> QED
      BY <2>2, TotalPut
  <2> HIDE DEF n, c, b
  <2> QED
    BY <1>5, <2>3 DEF Recorded
<1>8. /\ job' \in [Threads -> Job] /\ job'[w] = Usage!Idle
      /\ \A v \in Threads : v # w => job'[v] = job[v]
      /\ InHand' = InHand + (Usage!Idle.deleted - j.deleted)
  BY <1>4, NoJob, InHandMoves DEF UsageInv
<1> HIDE DEF n, c, b, over, more
<1>9. UsageTyped'
  <2>1. gone' \in Nat /\ twice' \in Nat /\ stale' \in Int
    BY <1>1, <1>2, <1>3, <1>4, <1>5, <1>6
  <2>2. \A v \in Threads : /\ job'[v].row # None => job'[v].row \in DOMAIN records'
                           /\ job'[v].at # "commit" => job'[v].deleted = 0
    BY <1>5, <1>8, NoJob DEF UsageInv, UsageTyped
  <2> QED
    BY <1>1, <1>4, <1>5, <1>8, <2>1, <2>2 DEF UsageTyped
<1>10. calls' = hash' + Recorded' + InHand' + gone' - twice' + stale'
  <2>1. calls = hash + Recorded + InHand + gone - twice + stale
    BY CallsAre DEF UsageInv
  <2>2. Recorded \in Int /\ InHand \in Int
    BY UsageSums DEF UsageInv
  <2>3. InHand' = InHand - j.deleted
    BY <1>2, <1>8, <2>2, NoJob
  <2>4. calls' = calls /\ hash' = hash /\ gone' = gone + over /\ twice' = twice + more
    BY <1>4
  <2>5. /\ calls \in Int /\ hash \in Int /\ gone \in Int /\ twice \in Int /\ stale \in Int
        /\ b \in Int /\ c \in Int /\ over \in Int /\ more \in Int /\ j.count \in Int /\ j.deleted \in Int
    <3> HIDE DEF j
    <3> QED
      BY <1>1, <1>2, <1>3, <1>5, <1>6
  <2>6. over - more = j.deleted - j.count /\ stale' = stale + (b - (c - j.count))
        /\ Recorded' = Recorded + (c - b)
    BY <1>3, <1>6, <1>7
  <2> HIDE DEF j
  <2>7. \A r, t, p, q, m \in Int : (r + (p - q)) + (t + (q - (p - m))) = (r + t) + m
    OBVIOUS
  <2>8. \A i, g, t, o, m, p, d \in Int :
          o - m = d - p => (i - d) + (g + o) - (t + m) = (i + g - t) - p
    OBVIOUS
  <2>9. Recorded' + stale' = (Recorded + stale) + j.count
    BY ONLY <2>2, <2>5, <2>6, <2>7
  <2>10. InHand' + gone' - twice' = (InHand + gone - twice) - j.count
    BY ONLY <2>2, <2>3, <2>4, <2>5, <2>6, <2>8
  <2>11. Recorded' \in Int /\ stale' \in Int /\ InHand' \in Int /\ gone' \in Int /\ twice' \in Int
    BY ONLY <2>2, <2>3, <2>4, <2>5, <2>6
  <2>12. \A h, r, i, gt, s \in Int : h + r + i + gt + s = h + (r + s) + (i + gt)
    OBVIOUS
  <2>13. \A i, g, t \in Int : i + g - t = i + (g - t) /\ g - t \in Int
    OBVIOUS
  <2>14. /\ hash + Recorded' + InHand' + (gone' - twice') + stale'
             = hash + (Recorded' + stale') + (InHand' + (gone' - twice'))
         /\ hash + Recorded + InHand + (gone - twice) + stale
             = hash + (Recorded + stale) + (InHand + (gone - twice))
    BY ONLY <2>2, <2>5, <2>11, <2>12, <2>13
  <2>15. \A h, rs, ig, m \in Int : h + (rs + m) + (ig - m) = h + rs + ig
    OBVIOUS
  <2>16. hash + (Recorded' + stale') + (InHand' + (gone' - twice'))
           = hash + (Recorded + stale) + (InHand + (gone - twice))
    BY ONLY <2>2, <2>5, <2>9, <2>10, <2>13, <2>15
  <2> QED
    BY ONLY <2>1, <2>4, <2>14, <2>16
<1>11. Usage!CallsExplained'
  BY <1>10, SumsAreTotals DEF Usage!CallsExplained, Recorded, InHand, Deleted
<1> QED
  BY <1>9, <1>11 DEF UsageInv

LEMMA UsageStep ==
  ASSUME IsFiniteSet(Threads), UsageInv, [Usage!Next]_(Usage!vars)
  PROVE  UsageInv'
<1>1. CASE UNCHANGED Usage!vars \/ \E w \in Threads : Usage!NoHash(w)
  <2>1. UNCHANGED Usage!vars
    BY <1>1 DEF Usage!NoHash
  <2> QED
    BY <2>1, SumsAreTotals DEF Usage!vars, UsageInv, UsageTyped, Usage!CallsExplained
<1>2. CASE Usage!Call
  <2>1. UsageTyped' /\ UNCHANGED <<records, job, gone, twice, stale>> /\ hash' = hash + 1 /\ calls' = calls + 1
    BY <1>2 DEF Usage!Call, UsageInv, UsageTyped
  <2>2. Recorded' = Recorded /\ InHand' = InHand /\ Recorded \in Int /\ InHand \in Int
    BY <2>1, UsageSums DEF Recorded, InHand, Deleted, UsageInv
  <2>3. calls = hash + Recorded + InHand + gone - twice + stale
    BY CallsAre DEF UsageInv
  <2>4. calls' = hash' + Recorded' + InHand' + gone' - twice' + stale'
    BY <2>1, <2>2, <2>3 DEF UsageInv, UsageTyped
  <2>5. Usage!CallsExplained'
    BY <2>4, SumsAreTotals DEF Usage!CallsExplained, Recorded, InHand, Deleted
  <2> QED
    BY <2>1, <2>5 DEF UsageInv
<1> QED
  BY <1>1, <1>2, UsageReads, UsageCommits DEF Usage!Next

LEMMA UsageStart ==
  ASSUME IsFiniteSet(Threads), Usage!Init
  PROVE  UsageInv
<1>1. UsageTyped
  BY NoJob DEF Usage!Init, UsageTyped
<1>2. Recorded = 0
  <2>1. records = <<>> /\ DOMAIN records = {}
    BY DEF Usage!Init
  <2> QED
    BY <2>1, FS_EmptySet, TotalStep DEF Recorded
<1>3. InHand = 0
  <2>1. \A w \in Threads : Deleted[w] = [v \in Threads |-> 0][w]
    BY NoJob DEF Usage!Init, Deleted
  <2>2. InHand = Total([v \in Threads |-> 0], Threads)
    BY <2>1, TotalSame DEF InHand
  <2> QED
    BY <2>2, TotalZero
<1> QED
  BY <1>1, <1>2, <1>3, CallsAre DEF UsageInv, Usage!Init

(* However calls, runs of sync_api_usage and failures interleave: every call is in the     *)
(* hash, in a record or in the hands of a run, but for those that a delete, a failure, a   *)
(* second run or an overwritten record account for (sync_api_usage, tasks.py).             *)
THEOREM CallsCounted ==
  ASSUME IsFiniteSet(Threads)
  PROVE  Usage!Spec => []Usage!CallsExplained
<1>1. Usage!Init => UsageInv
  BY UsageStart
<1>2. UsageInv /\ [Usage!Next]_(Usage!vars) => UsageInv'
  BY UsageStep
<1>3. UsageInv => Usage!CallsExplained
  BY DEF UsageInv
<1> QED
  BY <1>1, <1>2, <1>3, PTL DEF Usage!Spec

-----------------------------------------------------------------------------
(* Signing in: one-time codes, one request at a time. *)

SignOne ==
  ~crowded => \A t, u \in Threads : signing[t] # Signing!Idle /\ signing[u] # Signing!Idle => t = u

\* What the newest code is, and who may still be without an account.
Newest == code = made.codes \/ made.codes \in spent \cup {0}

\* What a request relies on at its place.
Proceeds(t, r) ==
  /\ r.at = "insert" => r.op = "register"
  /\ r.at \in {"store", "mail"} => r.op \in {"register", "resend"}
  /\ r.op = "register" => r.at \in {"insert", "store", "mail", "commit"}
  /\ r.op = "register" /\ r.at \in {"store", "mail"} => adding = t
  /\ r.op = "resend" => user # None
  /\ r.at = "use" => code \in {None, r.code}

CodesInv ==
  ~crowded /\ faults = 0 =>
    /\ Newest
    /\ code # None /\ (\A t \in Threads : signing[t].op # "register") => user # None
    /\ \A t \in Threads : Proceeds(t, signing[t])

CodeInv == SignTyped /\ faults \in Nat /\ SignOne /\ CodesInv

LEMMA SignIdles ==
  /\ Signing!Idle.op = "none" /\ Signing!Idle.at = "none" /\ Signing!Idle \in SignSession
  /\ \A t : Proceeds(t, Signing!Idle) /\ Proceeds(t, Signing!Idle)'
<1>1. Signing!Idle.op = "none" /\ Signing!Idle.at = "none" /\ Signing!Idle \in SignSession
  BY SignIdle DEF Signing!Idle, Signing!Asks
<1>2. \A t : Proceeds(t, Signing!Idle) /\ Proceeds(t, Signing!Idle)'
  BY <1>1 DEF Proceeds
<1> QED
  BY <1>1, <1>2

\* A thread moves, or a request begins: what that makes of the others.
Moves(t, r) ==
  /\ signing' = [signing EXCEPT ![t] = r] /\ r \in SignSession
  /\ \/ signing[t] # Signing!Idle /\ crowded' = crowded
     \/ crowded' = (crowded \/ \E u \in Threads : signing[u] # Signing!Idle)

LEMMA MovesAlone ==
  ASSUME SignTyped, SignOne, NEW t \in Threads, NEW r, Moves(t, r)
  PROVE  /\ signing'[t] = r
         /\ ~crowded' => /\ ~crowded
                         /\ \A u \in Threads : u # t => signing[u] = Signing!Idle /\ signing'[u] = Signing!Idle
<1>1. signing'[t] = r /\ \A u \in Threads : u # t => signing'[u] = signing[u]
  BY DEF SignTyped, Moves
<1>2. ASSUME ~crowded'
      PROVE  ~crowded /\ \A u \in Threads : u # t => signing[u] = Signing!Idle
  <2>1. CASE signing[t] # Signing!Idle /\ crowded' = crowded
    BY <1>2, <2>1 DEF SignOne
  <2>2. CASE crowded' = (crowded \/ \E u \in Threads : signing[u] # Signing!Idle)
    BY <1>2, <2>2
  <2> QED
    BY <2>1, <2>2 DEF Moves
<1> QED
  BY <1>1, <1>2

\* It is enough that the thread that moved finds what it relies on.
LEMMA MovesWell ==
  ASSUME CodeInv, SignTyped', NEW t \in Threads, NEW r, Moves(t, r), faults' \in Nat,
         ~crowded' /\ faults' = 0 =>
           /\ Newest'
           /\ code' # None /\ r.op # "register" => user' # None
           /\ Proceeds(t, r)'
  PROVE  CodeInv'
<1>1. /\ signing'[t] = r
      /\ ~crowded' => \A u \in Threads : u # t => signing'[u] = Signing!Idle
  BY MovesAlone DEF CodeInv
<1>2. SignOne'
  BY <1>1 DEF SignOne, Signing!Idle, Signing!Asks
<1>3. ASSUME ~crowded', faults' = 0
      PROVE  /\ Newest'
             /\ code' # None /\ (\A u \in Threads : signing'[u].op # "register") => user' # None
             /\ \A u \in Threads : Proceeds(u, signing[u])'
  <2>1. ASSUME NEW u \in Threads PROVE Proceeds(u, signing[u])'
    <3>1. CASE u = t
      BY <1>1, <1>3, <3>1 DEF Proceeds
    <3>2. CASE u # t
      <4>1. signing'[u] = Signing!Idle
        BY <1>1, <1>3, <3>2
      <4> QED
        BY <4>1, SignIdles DEF Proceeds
    <3> QED
      BY <3>1, <3>2
  <2> QED
    BY <1>1, <1>3, <2>1
<1>4. CodesInv'
  BY <1>3 DEF CodesInv
<1> QED
  BY <1>2, <1>4 DEF CodeInv

(* The actions, one after another. *)

\* A request at some place.
LEMMA Stands ==
  ASSUME CodeInv, NEW t \in Threads, NEW stage, signing[t].at = stage, stage # "none"
  PROVE  signing[t] # Signing!Idle /\ signing[t] \in SignSession
  BY SignIdles DEF CodeInv, SignTyped

LEMMA FindsNobody ==
  ASSUME CodeInv, SignTyped', NEW t \in Threads, Signing!FindNobody(t)
  PROVE  CodeInv'
<1> DEFINE r == Signing!Asks("register", "insert", None, None)
<1>1. r \in SignSession /\ r.op = "register" /\ r.at = "insert"
  BY DEF Signing!Asks, SignSession, Stages
<1>2. Moves(t, r) /\ UNCHANGED <<user, adding, code, made, faults, spent>> /\ signing[t] = Signing!Idle
  BY <1>1 DEF Signing!FindNobody, Signing!Begin, Moves
<1> HIDE DEF r
<1>3. ~crowded' /\ faults' = 0 => Newest' /\ (code' # None /\ r.op # "register" => user' # None) /\ Proceeds(t, r)'
  BY <1>1, <1>2, MovesAlone DEF CodeInv, CodesInv, Newest, Proceeds
<1> QED
  BY <1>2, <1>3, MovesWell DEF CodeInv

LEMMA FindsUser ==
  ASSUME CodeInv, SignTyped', NEW t \in Threads, Signing!FindUser(t)
  PROVE  CodeInv'
<1> DEFINE r == Signing!Asks("resend", "store", None, None)
<1>1. r \in SignSession /\ r.op = "resend" /\ r.at = "store"
  BY DEF Signing!Asks, SignSession, Stages
<1>2. /\ Moves(t, r) /\ UNCHANGED <<user, adding, code, made, faults, spent>> /\ signing[t] = Signing!Idle
      /\ user # None
  BY <1>1 DEF Signing!FindUser, Signing!Begin, Moves
<1> HIDE DEF r
<1>3. ~crowded' /\ faults' = 0 => Newest' /\ (code' # None /\ r.op # "register" => user' # None) /\ Proceeds(t, r)'
  BY <1>1, <1>2, MovesAlone DEF CodeInv, CodesInv, Newest, Proceeds
<1> QED
  BY <1>2, <1>3, MovesWell DEF CodeInv

\* Before a check or a refresh nobody is registering: a code means an account.
LEMMA NobodyRegisters ==
  ASSUME CodeInv, NEW t \in Threads, NEW r, Moves(t, r), signing[t].op # "register",
         ~crowded', faults = 0, code # None
  PROVE  user # None
<1>1. \A u \in Threads : signing[u].op # "register"
  BY MovesAlone, SignIdles DEF CodeInv
<1> QED
  BY <1>1, MovesAlone DEF CodeInv, CodesInv

LEMMA ChecksCode ==
  ASSUME CodeInv, SignTyped', NEW t \in Threads, Signing!CheckCode(t)
  PROVE  CodeInv'
<1>1. PICK c \in inbox : c = code /\ Signing!Begin(t, Signing!Asks("verify", "use", c, None))
  BY DEF Signing!CheckCode
<1> DEFINE r == Signing!Asks("verify", "use", c, None)
<1>2. r \in SignSession /\ r.op = "verify" /\ r.at = "use" /\ r.code = c
  BY <1>1 DEF CodeInv, SignTyped, Signing!Asks, SignSession, Stages
<1>3. Moves(t, r) /\ UNCHANGED <<user, adding, code, made, faults, spent>> /\ signing[t] = Signing!Idle
  BY <1>1, <1>2 DEF Signing!CheckCode, Signing!Begin, Moves
<1> HIDE DEF r
<1>4. ~crowded' /\ faults' = 0 => Newest' /\ (code' # None /\ r.op # "register" => user' # None) /\ Proceeds(t, r)'
  BY <1>1, <1>2, <1>3, MovesAlone, NobodyRegisters, SignIdles DEF CodeInv, CodesInv, Newest, Proceeds
<1> QED
  BY <1>3, <1>4, MovesWell DEF CodeInv

LEMMA FindsToken ==
  ASSUME CodeInv, SignTyped', NEW t \in Threads, Signing!FindToken(t)
  PROVE  CodeInv'
<1>1. PICK n \in refreshTokens : Signing!Begin(t, Signing!Asks("refresh", "rotate", None, n))
  BY DEF Signing!FindToken
<1> DEFINE r == Signing!Asks("refresh", "rotate", None, n)
<1>2. n \in Nat
  BY DEF CodeInv, SignTyped
<1>3. r \in SignSession /\ r.op = "refresh" /\ r.at = "rotate"
  BY <1>2 DEF Signing!Asks, SignSession, Stages
<1>4. Moves(t, r) /\ UNCHANGED <<user, adding, code, made, faults, spent>> /\ signing[t] = Signing!Idle
  BY <1>1, <1>3 DEF Signing!FindToken, Signing!Begin, Moves
<1> HIDE DEF r
<1>5. ~crowded' /\ faults' = 0 => Newest' /\ (code' # None /\ r.op # "register" => user' # None) /\ Proceeds(t, r)'
  BY <1>3, <1>4, MovesAlone, NobodyRegisters, SignIdles DEF CodeInv, CodesInv, Newest, Proceeds
<1> QED
  BY <1>4, <1>5, MovesWell DEF CodeInv

LEMMA EndsMove ==
  ASSUME CodeInv, NEW t \in Threads, signing[t] # Signing!Idle, Signing!End(t)
  PROVE  Moves(t, Signing!Idle)
  BY SignIdles DEF Signing!End, Moves

LEMMA GoesMove ==
  ASSUME CodeInv, NEW t \in Threads, NEW stage \in Stages, signing[t] # Signing!Idle, Signing!GoTo(t, stage),
         NEW r, r = [signing[t] EXCEPT !.at = stage]
  PROVE  Moves(t, r) /\ r.at = stage /\ r.op = signing[t].op /\ r.code = signing[t].code
<1>1. signing[t] \in SignSession
  BY DEF CodeInv, SignTyped
<1>2. r \in SignSession /\ r.at = stage /\ r.op = signing[t].op /\ r.code = signing[t].code
  BY <1>1 DEF SignSession
<1> QED
  BY <1>2 DEF Signing!GoTo, Moves

LEMMA InsertsUser ==
  ASSUME CodeInv, SignTyped', NEW t \in Threads, Signing!InsertUser(t)
  PROVE  CodeInv'
<1>1. /\ UNCHANGED <<user, code, made, faults, spent>> /\ signing[t].at = "insert"
      /\ signing[t] # Signing!Idle /\ faults' \in Nat
  BY Stands DEF Signing!InsertUser, Signing!At, CodeInv
<1>2. CASE user = None
  <2>0. PICK r : r = [signing[t] EXCEPT !.at = "store"]
    OBVIOUS
  <2>1. adding' = t /\ Signing!GoTo(t, "store")
    BY <1>2 DEF Signing!InsertUser
  <2>2. Moves(t, r) /\ r.at = "store" /\ r.op = signing[t].op
    BY <1>1, <2>0, <2>1, GoesMove DEF Stages
  <2>3. ~crowded' /\ faults' = 0 => Newest' /\ (code' # None /\ r.op # "register" => user' # None) /\ Proceeds(t, r)'
    BY <1>1, <2>1, <2>2, MovesAlone DEF CodeInv, CodesInv, Newest, Proceeds
  <2> QED
    BY <1>1, <2>2, <2>3, MovesWell
<1>3. CASE user # None
  <2>1. Moves(t, Signing!Idle)
    BY <1>1, <1>3, EndsMove DEF Signing!InsertUser
  <2>2. ~crowded' /\ faults' = 0 => Newest' /\ (code' # None /\ Signing!Idle.op # "register" => user' # None)
    BY <1>1, <1>3, <2>1, MovesAlone DEF CodeInv, CodesInv, Newest
  <2> QED
    BY <1>1, <2>1, <2>2, MovesWell, SignIdles
<1> QED
  BY <1>2, <1>3

LEMMA StoresCode ==
  ASSUME None \notin Nat, CodeInv, SignTyped', NEW t \in Threads, Signing!StoreCode(t)
  PROVE  CodeInv'
<1>0. PICK n : n = made.codes + 1
  OBVIOUS
<1>1. /\ made' = [made EXCEPT !.codes = n] /\ signing[t].at = "store" /\ UNCHANGED <<user, adding, spent, crowded>>
      /\ signing' = [signing EXCEPT ![t].at = "mail", ![t].code = n]
      /\ (faults' = faults /\ code' = n) \/ faults' = faults + 1
  BY <1>0 DEF Signing!StoreCode, Signing!At, Signing!Works, Signing!Fails
<1>2. n \in Nat /\ made'.codes = n /\ faults \in Nat
  BY <1>0, <1>1 DEF CodeInv, SignTyped
<1>3. signing[t] # Signing!Idle /\ signing[t] \in SignSession
  BY <1>1, Stands
<1>4. PICK r : r = [signing[t] EXCEPT !.at = "mail", !.code = n]
  OBVIOUS
<1>5. signing' = [signing EXCEPT ![t] = r]
  BY <1>1, <1>3, <1>4
<1>6. r \in SignSession /\ r.at = "mail" /\ r.op = signing[t].op
  BY <1>2, <1>3, <1>4 DEF SignSession, Stages
<1>7. Moves(t, r)
  BY <1>1, <1>3, <1>5, <1>6 DEF Moves
<1>8. faults' \in Nat /\ (faults' = 0 => faults = 0 /\ code' = n)
  BY <1>1, <1>2
<1>9. ~crowded' /\ faults' = 0 => Newest' /\ (code' # None /\ r.op # "register" => user' # None) /\ Proceeds(t, r)'
  BY <1>1, <1>2, <1>6, <1>7, <1>8, MovesAlone DEF CodeInv, CodesInv, Newest, Proceeds
<1> QED
  BY <1>7, <1>8, <1>9, MovesWell

LEMMA MailsCode ==
  ASSUME CodeInv, SignTyped', NEW t \in Threads, Signing!MailCode(t)
  PROVE  CodeInv'
<1>1. signing[t].at = "mail" /\ signing[t] # Signing!Idle /\ UNCHANGED <<user, code, made, spent>> /\ faults \in Nat
  BY Stands DEF Signing!MailCode, Signing!At, CodeInv
<1>2. CASE faults' = faults /\ adding = t /\ adding' = adding /\ Signing!GoTo(t, "commit")
  <2>0. PICK r : r = [signing[t] EXCEPT !.at = "commit"]
    OBVIOUS
  <2>1. Moves(t, r) /\ r.at = "commit" /\ r.op = signing[t].op
    BY <1>1, <1>2, <2>0, GoesMove DEF Stages
  <2>2. ~crowded' /\ faults' = 0 => Newest' /\ (code' # None /\ r.op # "register" => user' # None) /\ Proceeds(t, r)'
    BY <1>1, <1>2, <2>1, MovesAlone DEF CodeInv, CodesInv, Newest, Proceeds
  <2> QED
    BY <1>1, <1>2, <2>1, <2>2, MovesWell
<1>3. CASE faults' = faults /\ adding # t /\ Signing!End(t)
  <2>1. Moves(t, Signing!Idle)
    BY <1>1, <1>3, EndsMove
  <2>2. ~crowded' /\ faults' = 0 => Newest' /\ user' # None
    BY <1>1, <1>3, <2>1, MovesAlone DEF CodeInv, CodesInv, Newest, Proceeds
  <2> QED
    BY <1>1, <1>3, <2>1, <2>2, MovesWell, SignIdles
<1>4. CASE faults' = faults + 1 /\ Signing!End(t)
  <2>1. Moves(t, Signing!Idle) /\ faults' # 0 /\ faults' \in Nat
    BY <1>1, <1>4, EndsMove
  <2> QED
    BY <2>1, MovesWell
<1> QED
  BY <1>2, <1>3, <1>4 DEF Signing!MailCode, Signing!Works, Signing!Fails

LEMMA CommitsUser ==
  ASSUME None \notin {"inactive", "active"}, CodeInv, SignTyped', NEW t \in Threads, Signing!CommitUser(t)
  PROVE  CodeInv'
<1>1. signing[t].at = "commit" /\ signing[t] # Signing!Idle /\ UNCHANGED <<code, made, spent, faults>> /\ user' # None
  BY Stands DEF Signing!CommitUser, Signing!At
<1>2. Moves(t, Signing!Idle)
  BY <1>1, EndsMove DEF Signing!CommitUser
<1>3. ~crowded' /\ faults' = 0 => Newest'
  BY <1>1, <1>2, MovesAlone DEF CodeInv, CodesInv, Newest
<1> QED
  BY <1>1, <1>2, <1>3, MovesWell, SignIdles DEF CodeInv

LEMMA UsesCode ==
  ASSUME None \notin Nat, CodeInv, SignTyped', NEW t \in Threads, Signing!UseCode(t)
  PROVE  CodeInv'
<1>1. /\ signing[t].at = "use" /\ signing[t] # Signing!Idle /\ UNCHANGED <<user, adding, made>> /\ faults \in Nat
      /\ made.codes \in Nat
  BY Stands DEF Signing!UseCode, Signing!At, CodeInv, SignTyped
<1>2. CASE faults' = faults /\ code' = None /\ spent' = spent \cup {signing[t].code} /\ Signing!GoTo(t, "activate")
  <2>0. PICK r : r = [signing[t] EXCEPT !.at = "activate"]
    OBVIOUS
  <2>1. Moves(t, r) /\ r.at = "activate" /\ r.op = signing[t].op
    BY <1>1, <1>2, <2>0, GoesMove DEF Stages
  <2>2. ~crowded' /\ faults' = 0 => /\ Newest /\ Proceeds(t, signing[t])
                                   /\ code \in {None, signing[t].code}
    BY <1>1, <1>2, <2>1, MovesAlone DEF CodeInv, CodesInv, Proceeds
  <2>3. ~crowded' /\ faults' = 0 => Newest' /\ Proceeds(t, r)'
    BY <1>1, <1>2, <2>1, <2>2 DEF Newest, Proceeds
  <2> QED
    BY <1>1, <1>2, <2>1, <2>3, MovesWell
<1>3. CASE faults' = faults + 1 /\ Signing!End(t)
  <2>1. Moves(t, Signing!Idle) /\ faults' # 0 /\ faults' \in Nat
    BY <1>1, <1>3, EndsMove
  <2> QED
    BY <2>1, MovesWell
<1> QED
  BY <1>2, <1>3 DEF Signing!UseCode, Signing!Works, Signing!Fails

LEMMA Activates ==
  ASSUME None \notin {"inactive", "active"}, CodeInv, SignTyped', NEW t \in Threads, Signing!Activate(t)
  PROVE  CodeInv'
<1>1. /\ signing[t].at = "activate" /\ signing[t] # Signing!Idle /\ UNCHANGED <<adding, code, made, faults, spent>>
      /\ faults' \in Nat
  BY Stands DEF Signing!Activate, Signing!At, CodeInv
<1>2. CASE user = None
  <2>1. Moves(t, Signing!Idle) /\ user' = user
    BY <1>1, <1>2, EndsMove DEF Signing!Activate
  <2>2. ~crowded' /\ faults' = 0 => signing[t].op # "register"
    BY <1>1, <2>1, MovesAlone DEF CodeInv, CodesInv, Proceeds
  <2>3. ~crowded' /\ faults' = 0 => Newest' /\ (code' # None => user' # None)
    BY <1>1, <2>1, <2>2, MovesAlone, NobodyRegisters DEF CodeInv, CodesInv, Newest
  <2> QED
    BY <1>1, <2>1, <2>3, MovesWell, SignIdles
<1>3. CASE user # None
  <2>0. PICK r : r = [signing[t] EXCEPT !.at = "issue"]
    OBVIOUS
  <2>1. Signing!GoTo(t, "issue") /\ user' = "active"
    BY <1>3 DEF Signing!Activate
  <2>2. Moves(t, r) /\ r.at = "issue" /\ r.op = signing[t].op
    BY <1>1, <2>0, <2>1, GoesMove DEF Stages
  <2>3. ~crowded' /\ faults' = 0 => Newest' /\ (code' # None /\ r.op # "register" => user' # None) /\ Proceeds(t, r)'
    BY <1>1, <2>1, <2>2, MovesAlone DEF CodeInv, CodesInv, Newest, Proceeds
  <2> QED
    BY <1>1, <2>2, <2>3, MovesWell
<1> QED
  BY <1>2, <1>3

LEMMA IssuesToken ==
  ASSUME CodeInv, SignTyped', NEW t \in Threads, Signing!IssueToken(t)
  PROVE  CodeInv'
<1>1. /\ signing[t].at = "issue" /\ signing[t] # Signing!Idle /\ UNCHANGED <<user, adding, code, spent>>
      /\ Signing!End(t) /\ made' = [made EXCEPT !.tokens = made.tokens + 1] /\ faults \in Nat
      /\ faults' = faults \/ faults' = faults + 1
  BY Stands DEF Signing!IssueToken, Signing!At, Signing!Works, Signing!Fails, CodeInv
<1>2. made'.codes = made.codes
  BY <1>1 DEF CodeInv, SignTyped
<1>3. Moves(t, Signing!Idle)
  BY <1>1, EndsMove
<1>4. faults' \in Nat /\ (faults' = 0 => faults = 0)
  BY <1>1
<1>5. ~crowded' /\ faults' = 0 => signing[t].op # "register"
  BY <1>1, <1>3, <1>4, MovesAlone DEF CodeInv, CodesInv, Proceeds
<1>6. ~crowded' /\ faults' = 0 => Newest' /\ (code' # None => user' # None)
  BY <1>1, <1>2, <1>3, <1>4, <1>5, MovesAlone, NobodyRegisters DEF CodeInv, CodesInv, Newest
<1> QED
  BY <1>3, <1>4, <1>6, MovesWell, SignIdles

LEMMA RotatesToken ==
  ASSUME CodeInv, SignTyped', NEW t \in Threads, Signing!Rotate(t)
  PROVE  CodeInv'
<1>1. /\ signing[t].at = "rotate" /\ signing[t] # Signing!Idle /\ UNCHANGED <<user, adding, code, made, spent>>
      /\ Signing!GoTo(t, "issue") /\ faults \in Nat
      /\ faults' = faults \/ faults' = faults + 1
  BY Stands DEF Signing!Rotate, Signing!At, Signing!Works, Signing!Fails, CodeInv
<1>2. PICK r : r = [signing[t] EXCEPT !.at = "issue"]
  OBVIOUS
<1>3. Moves(t, r) /\ r.at = "issue" /\ r.op = signing[t].op
  BY <1>1, <1>2, GoesMove DEF Stages
<1>4. faults' \in Nat /\ (faults' = 0 => faults = 0)
  BY <1>1
<1>5. ~crowded' /\ faults' = 0 => signing[t].op # "register"
  BY <1>1, <1>3, <1>4, MovesAlone DEF CodeInv, CodesInv, Proceeds
<1>6. ~crowded' /\ faults' = 0 => Newest' /\ (code' # None => user' # None)
  BY <1>1, <1>3, <1>4, <1>5, MovesAlone, NobodyRegisters DEF CodeInv, CodesInv, Newest
<1>7. ~crowded' /\ faults' = 0 => Proceeds(t, r)'
  BY <1>1, <1>3, <1>4, <1>5, MovesAlone DEF CodeInv, CodesInv, Proceeds
<1> QED
  BY <1>3, <1>4, <1>6, <1>7, MovesWell

LEMMA CodeExpires ==
  ASSUME None \notin Nat, CodeInv, SignTyped', Signing!ExpireCode
  PROVE  CodeInv'
<1>1. /\ code # None /\ code' = None /\ spent' = spent \cup {code}
      /\ UNCHANGED <<user, adding, signing, made, faults, crowded>>
  BY DEF Signing!ExpireCode
<1>2. SignOne' /\ faults' \in Nat
  BY <1>1 DEF CodeInv, SignOne
<1>3. CodesInv'
  BY <1>1 DEF CodeInv, CodesInv, Newest, Proceeds
<1> QED
  BY <1>2, <1>3 DEF CodeInv

LEMMA SignCrashes ==
  ASSUME CodeInv, SignTyped', NEW t \in Threads, Signing!Crash(t)
  PROVE  CodeInv'
<1>1. Moves(t, Signing!Idle) /\ faults' = faults + 1
  BY EndsMove DEF Signing!Crash, Signing!Fails
<1>2. faults' \in Nat /\ faults' # 0
  BY <1>1 DEF CodeInv
<1> QED
  BY <1>1, <1>2, MovesWell

LEMMA CodesStep ==
  ASSUME IsFiniteSet(Threads), None \notin Nat, None \notin {"inactive", "active"}, TokensInv, CodeInv,
         [Signing!Next]_(Signing!vars)
  PROVE  TokensInv' /\ CodeInv'
<1>1. TokensInv' /\ SignTyped'
  BY SignStep DEF TokensInv
<1>2. CASE UNCHANGED <<user, adding, code, signing, made, faults, spent, crowded>>
  BY <1>1, <1>2 DEF CodeInv, SignOne, CodesInv, Newest, Proceeds
<1>3. ASSUME NEW t \in Threads,
             \/ Signing!FindNobody(t) \/ Signing!InsertUser(t) \/ Signing!FindUser(t) \/ Signing!StoreCode(t)
             \/ Signing!MailCode(t) \/ Signing!CommitUser(t) \/ Signing!CheckCode(t) \/ Signing!UseCode(t)
             \/ Signing!Activate(t) \/ Signing!IssueToken(t) \/ Signing!FindToken(t) \/ Signing!Rotate(t)
             \/ Signing!Crash(t)
      PROVE  CodeInv'
  BY <1>1, <1>3, FindsNobody, InsertsUser, FindsUser, StoresCode, MailsCode, CommitsUser, ChecksCode, UsesCode,
     Activates, IssuesToken, FindsToken, RotatesToken, SignCrashes
<1>4. CASE Signing!ExpireCode
  BY <1>1, <1>4, CodeExpires
<1>5. CASE Signing!DropToken \/ (\E t \in Threads : Signing!Refuse(t)) \/ UNCHANGED Signing!vars
  BY <1>2, <1>5 DEF Signing!DropToken, Signing!Refuse, Signing!vars
<1> QED
  BY <1>1, <1>3, <1>4, <1>5 DEF Signing!Next

LEMMA CodesStart ==
  ASSUME None \notin Nat, Signing!Init
  PROVE  CodeInv
<1>1. SignTyped
  BY SignIdle DEF Signing!Init, SignTyped
<1>2. /\ code = None /\ made.codes = 0 /\ faults = 0
      /\ \A t \in Threads : signing[t] = Signing!Idle
  BY DEF Signing!Init
<1>3. \A t \in Threads : Proceeds(t, signing[t])
  BY <1>2, SignIdles
<1> QED
  BY <1>1, <1>2, <1>3 DEF CodeInv, SignOne, CodesInv, Newest

(* One request at a time and nothing failing, the newest code works until it is used or   *)
(* runs out, and whoever uses it has an account (generate_otp, verify_otp,                 *)
(* app/auth/utils.py).                                                                     *)
THEOREM CodesWork ==
  ASSUME IsFiniteSet(Threads), None \notin Nat, None \notin {"inactive", "active"}
  PROVE  Signing!Spec => []Signing!SerialCodesWork
<1>1. Signing!Init => TokensInv /\ CodeInv
  BY SignInit, CodesStart
<1>2. TokensInv /\ CodeInv /\ [Signing!Next]_(Signing!vars) => (TokensInv /\ CodeInv)'
  BY CodesStep
<1>3. CodeInv => Signing!SerialCodesWork
  BY DEF CodeInv, CodesInv, Newest, Signing!SerialCodesWork, Signing!Busy
<1> QED
  BY <1>1, <1>2, <1>3, PTL DEF Signing!Spec

-----------------------------------------------------------------------------
(* GST filing: what every session and every row is. *)

GstRow == Configs \cup Gst!Filing \cup Nat \cup {None}

GstSession ==
  [op : {"none", "config", "sale", "compile", "file", "invoice"},
   at : {"end", "row", "list", "file", "insert", "load", "stamp", "draft"},
   sale : Sales \cup {None}, row : GstRow, new : Configs \cup {None},
   counted : SUBSET Sales, listed : SUBSET Sales, file : Gst!File \cup {None}, wrote : BOOLEAN]

GstBooks ==
  /\ filing = None \/ filing \in Gst!Filing
  /\ file = None \/ file \in Gst!File
  /\ rows \subseteq Sales /\ config \in Configs \cup {None}
  /\ invoices \in [Sales -> Seq({"DRAFT", "ACCEPTED"})]

\* A return that was read is still there; a session holds what its next step writes.
Known(r) ==
  /\ r.op \in {"compile", "file"} /\ r.row # None => r.row \in Gst!Filing /\ filing \in Gst!Filing
  /\ r.op = "file" /\ r.at = "load" => r.row # None
  /\ r.op = "file" /\ r.at = "stamp" => r.file \in Gst!File
  /\ r.op \in {"sale", "invoice"} => r.sale \in Sales
  /\ r.op = "invoice" /\ r.at = "end" => r.row \in DOMAIN invoices[r.sale]

\* Sales are only ever added: a list made after a count has all that was counted.
Lists(r) ==
  /\ r.op = "compile" /\ r.at \in {"row", "list"} => r.counted \subseteq rows
  /\ r.op = "compile" /\ r.at = "file" => r.counted \subseteq r.listed
  /\ r.op = "file" /\ r.at = "stamp" => r.file.counted \subseteq r.file.listed

GstTyped == GstBooks /\ sess \in [Threads -> GstSession] /\ \A t \in Threads : Known(sess[t])

GstInv == GstTyped /\ Gst!ListedIfCounted /\ \A t \in Threads : Lists(sess[t])

LEMMA GstIdles ==
  /\ Gst!Idle \in GstSession /\ Gst!Idle.op = "none" /\ Gst!Idle.at = "end" /\ Gst!Idle.wrote = FALSE
  /\ (Known(Gst!Idle) /\ Lists(Gst!Idle))'
<1>1. Gst!Idle \in GstSession /\ Gst!Idle.op = "none" /\ Gst!Idle.at = "end" /\ Gst!Idle.wrote = FALSE
  BY DEF Gst!Idle, GstSession, GstRow
<1> QED
  BY <1>1 DEF Known, Lists

\* What only grows.
Grown ==
  /\ filing \in Gst!Filing => filing' \in Gst!Filing
  /\ rows \subseteq rows'
  /\ \A s \in Sales : DOMAIN invoices[s] \subseteq DOMAIN invoices'[s]

\* A session moves, begins or ends.
GstMoves(t, r) ==
  /\ sess' = [sess EXCEPT ![t] = r] /\ r \in GstSession
  /\ torn => torn'
  /\ \/ sess[t] # Gst!Idle /\ overlapped' = overlapped
     \/ overlapped' = (overlapped \/ \E u \in Threads : sess[u] # Gst!Idle)

\* The others still hold what they held: enough to look at the session that moves.
LEMMA GstMoved ==
  ASSUME GstInv, GstBooks', Grown, Gst!ListedIfCounted', NEW t \in Threads, NEW r, GstMoves(t, r),
         (Known(r) /\ Lists(r))'
  PROVE  GstInv'
<1>1. /\ sess' \in [Threads -> GstSession] /\ sess'[t] = r
      /\ \A u \in Threads : u # t => sess'[u] = sess[u]
  BY DEF GstInv, GstTyped, GstMoves
<1>2. ASSUME NEW u \in Threads, NEW q, q = sess[u]
      PROVE  (Known(q) /\ Lists(q))'
  <2>1. Known(q) /\ Lists(q)
    BY <1>2 DEF GstInv, GstTyped
  <2>2. Known(q)'
    <3>1. q.op \in {"sale", "invoice"} => q.sale \in Sales
      BY <2>1 DEF Known
    <3> QED
      BY <2>1, <3>1 DEF Known, Grown
  <2> QED
    BY <2>1, <2>2 DEF Lists, Grown
<1>3. ASSUME NEW u \in Threads
      PROVE  (Known(sess[u]) /\ Lists(sess[u]))'
  <2>1. PICK q : q = sess'[u]
    OBVIOUS
  <2>2. (Known(q) /\ Lists(q))'
    BY <1>1, <1>2, <2>1
  <2> QED
    BY <2>1, <2>2 DEF Known, Lists
<1> QED
  BY <1>1, <1>3 DEF GstInv, GstTyped

\* A step that leaves the books alone.
GstSame == UNCHANGED <<config, rows, filing, file, invoices>>

LEMMA GstKept ==
  ASSUME GstInv, GstSame
  PROVE  GstBooks' /\ Grown /\ Gst!ListedIfCounted'
  BY DEF GstInv, GstTyped, GstBooks, Grown, Gst!ListedIfCounted, GstSame

LEMMA GstBegins ==
  ASSUME GstInv, NEW t \in Threads, NEW r \in GstSession, Gst!Begin(t, r)
  PROVE  GstMoves(t, r) /\ sess[t] = Gst!Idle /\ torn' = torn
  BY DEF Gst!Begin, GstMoves

LEMMA GstGoes ==
  ASSUME GstInv, NEW t \in Threads, NEW r \in GstSession, sess[t].op # "none", Gst!Go(t, r)
  PROVE  GstMoves(t, r) /\ torn' = torn
  BY GstIdles DEF Gst!Go, GstMoves

LEMMA GstKnows ==
  ASSUME GstInv, NEW t \in Threads
  PROVE  sess[t] \in GstSession /\ Known(sess[t]) /\ Lists(sess[t])
  BY DEF GstInv, GstTyped

-----------------------------------------------------------------------------
(* GST filing, one session at a time and no crash in between. *)

Alone == ~overlapped /\ ~torn

GstOne ==
  ~overlapped => \A t, u \in Threads : sess[t] # Gst!Idle /\ sess[u] # Gst!Idle => t = u

\* The row and the file of the period agree.
Agree ==
  filing # None /\ filing.path =>
    /\ file # None /\ file.counted = filing.counted /\ file.listed = file.counted
    /\ filing.status = "FILED" <=> file.acknowledged

\* What a compilation, a filing and an e-invoice have found and done so far.
Compiling(r) ==
  r.op = "compile" =>
    /\ r.at # "end" => Agree
    /\ r.at \in {"row", "list"} => r.counted = rows
    /\ r.at # "row" => r.row = filing
    /\ r.at = "file" => r.listed = r.counted
    /\ r.at = "end" => r.wrote /\ file = [counted |-> r.counted, listed |-> r.counted, acknowledged |-> FALSE]

Returning(r) ==
  r.op = "file" =>
    /\ ~r.wrote => Agree
    /\ r.row = filing
    /\ r.at = "insert" => filing = None
    /\ r.at # "end" => ~r.wrote
    /\ r.at = "stamp" => filing # None /\ filing.path /\ file # None /\ r.file = file
    /\ r.at = "end" /\ ~r.wrote => filing = None \/ ~filing.path
    /\ r.at = "end" /\ r.wrote =>
         /\ filing # None /\ filing.path
         /\ file # None /\ file.counted = filing.counted /\ file.listed = file.counted /\ file.acknowledged

Billed(s) == invoices[s] \in {<<>>, <<"ACCEPTED">>}

Billing(r) ==
  /\ r.op = "invoice" /\ r.at = "draft" => invoices[r.sale] = <<>>
  /\ r.op = "invoice" /\ r.at = "end" => r.wrote /\ r.row = 1 /\ invoices[r.sale] = <<"DRAFT">>
  /\ \A s \in Sales : (r.op = "invoice" /\ r.at = "end" => s # r.sale) => Billed(s)

Orderly(r) ==
  /\ r.op \notin {"compile", "file"} => Agree
  /\ Compiling(r) /\ Returning(r) /\ Billing(r)

GstSerial ==
  Alone =>
    /\ \A t \in Threads : sess[t] # Gst!Idle => Orderly(sess[t])
    /\ (\A t \in Threads : sess[t] = Gst!Idle) => Orderly(Gst!Idle)

GstAll == GstInv /\ GstOne /\ GstSerial

\* Alone, the session that moves was in order, whether it was there or begins.
LEMMA GstWas ==
  ASSUME GstAll, NEW t \in Threads, NEW r, GstMoves(t, r), Alone'
  PROVE  /\ Alone /\ Orderly(sess[t])
         /\ \A u \in Threads : u # t => sess[u] = Gst!Idle
<1>1. ~overlapped /\ ~torn
  <2>1. ~overlapped' /\ ~torn' /\ (torn => torn')
    BY DEF GstMoves, Alone
  <2>2. overlapped => overlapped'
    BY DEF GstMoves
  <2> QED
    BY <2>1, <2>2
<1>2. \A u \in Threads : u # t => sess[u] = Gst!Idle
  <2>1. CASE sess[t] # Gst!Idle /\ overlapped' = overlapped
    BY <1>1, <2>1 DEF GstAll, GstOne
  <2>2. CASE overlapped' = (overlapped \/ \E u \in Threads : sess[u] # Gst!Idle)
    BY <2>2 DEF Alone
  <2> QED
    BY <2>1, <2>2 DEF GstMoves
<1> QED
  BY <1>1, <1>2 DEF GstAll, GstSerial, Alone

LEMMA GstDoes ==
  ASSUME GstAll, GstBooks', Grown, Gst!ListedIfCounted', NEW t \in Threads, NEW r, GstMoves(t, r),
         (Known(r) /\ Lists(r))', Alone' => Orderly(r)'
  PROVE  GstAll'
<1>1. GstInv'
  BY GstMoved DEF GstAll
<1>2. sess'[t] = r /\ \A u \in Threads : u # t => sess'[u] = sess[u]
  BY DEF GstMoves, GstAll, GstInv, GstTyped
<1>3. overlapped => overlapped'
  BY DEF GstMoves
<1>4. ~overlapped' => \A u \in Threads : u # t => sess'[u] = Gst!Idle
  <2>1. CASE sess[t] # Gst!Idle /\ overlapped' = overlapped
    BY <1>2, <2>1 DEF GstAll, GstOne
  <2>2. CASE overlapped' = (overlapped \/ \E u \in Threads : sess[u] # Gst!Idle)
    BY <1>2, <2>2
  <2> QED
    BY <2>1, <2>2 DEF GstMoves
<1>5. GstOne'
  <2>1. ASSUME ~overlapped', NEW u \in Threads, NEW v \in Threads,
               sess'[u] # Gst!Idle, sess'[v] # Gst!Idle
        PROVE  u = v
    BY <1>4, <2>1
  <2>2. Gst!Idle' = Gst!Idle
    BY DEF Gst!Idle
  <2> QED
    BY <2>1, <2>2 DEF GstOne
<1>6. GstSerial'
  <2>1. Gst!Idle' = Gst!Idle
    BY DEF Gst!Idle
  <2>2. ASSUME Alone' PROVE \A u \in Threads : sess'[u] # Gst!Idle => u = t
    BY <1>4, <2>2 DEF Alone
  <2>3. ASSUME Alone', NEW q, q = r PROVE Orderly(q)'
    BY <2>3
  <2>4. ASSUME Alone', sess'[t] # Gst!Idle PROVE Orderly(sess[t])'
    BY <1>2, <2>4 DEF Orderly, Compiling, Returning, Billing
  <2>5. ASSUME Alone', sess'[t] = Gst!Idle PROVE Orderly(Gst!Idle)'
    <3>1. PICK q : q = Gst!Idle
      OBVIOUS
    <3>2. Orderly(q)'
      BY <1>2, <2>3, <2>5, <3>1
    <3> QED
      BY <2>1, <3>1, <3>2
  <2> QED
    BY <2>1, <2>2, <2>4, <2>5 DEF GstSerial
<1> QED
  BY <1>1, <1>5, <1>6 DEF GstAll

\* A session that ends leaves everything in order.
LEMMA GstEnds ==
  ASSUME GstAll, GstBooks', Grown, Gst!ListedIfCounted', NEW t \in Threads, GstMoves(t, Gst!Idle),
         Alone' => Agree' /\ \A s \in Sales : Billed(s)'
  PROVE  GstAll'
<1>1. Alone' => Orderly(Gst!Idle)'
  BY GstIdles DEF Orderly, Compiling, Returning, Billing
<1> QED
  BY <1>1, GstIdles, GstDoes

(* The actions. *)

LEMMA ReadsConfig ==
  ASSUME GstAll, NEW t \in Threads, Gst!ReadConfig(t)
  PROVE  GstAll'
<1>1. PICK c \in Configs : Gst!Begin(t, [Gst!Idle EXCEPT !.op = "config", !.row = config, !.new = c])
  BY DEF Gst!ReadConfig
<1>2. PICK r : r = [Gst!Idle EXCEPT !.op = "config", !.row = config, !.new = c]
  OBVIOUS
<1>3. r \in GstSession /\ r.op = "config"
  BY <1>2 DEF GstAll, GstInv, GstTyped, GstBooks, Gst!Idle, GstSession, GstRow
<1>4. GstMoves(t, r) /\ sess[t] = Gst!Idle /\ GstSame
  BY <1>1, <1>2, <1>3, GstBegins DEF Gst!ReadConfig, Gst!books, GstAll, GstSame
<1>5. (Known(r) /\ Lists(r))'
  BY <1>3 DEF Known, Lists
<1>6. Alone' => Orderly(r)'
  BY <1>3, <1>4, GstWas, GstIdles DEF Orderly, Agree, Compiling, Returning, Billing, Billed, GstSame
<1> QED
  BY <1>4, <1>5, <1>6, GstKept, GstDoes DEF GstAll

LEMMA PutsConfig ==
  ASSUME GstAll, NEW t \in Threads, Gst!PutConfig(t)
  PROVE  GstAll'
<1>1. /\ sess[t].op = "config" /\ Gst!Go(t, Gst!Idle) /\ UNCHANGED <<rows, filing, file, invoices>>
      /\ config' = sess[t].new \/ config' = config
  BY DEF Gst!PutConfig, Gst!At, Gst!End
<1>2. GstMoves(t, Gst!Idle) /\ sess[t] \in GstSession
  BY <1>1, GstGoes, GstIdles, GstKnows DEF GstAll
<1>3. config' \in Configs \cup {None}
  BY <1>1, <1>2 DEF GstAll, GstInv, GstTyped, GstBooks, GstSession
<1>4. GstBooks' /\ Grown /\ Gst!ListedIfCounted'
  BY <1>1, <1>3 DEF GstAll, GstInv, GstTyped, GstBooks, Grown, Gst!ListedIfCounted
<1>5. Alone' => Agree' /\ \A s \in Sales : Billed(s)'
  BY <1>1, <1>2, GstWas DEF Orderly, Billing, Agree, Billed
<1> QED
  BY <1>2, <1>4, <1>5, GstEnds

LEMMA RingsUp ==
  ASSUME GstAll, NEW t \in Threads, Gst!RingUp(t)
  PROVE  GstAll'
<1>1. PICK s \in Sales : Gst!Begin(t, [Gst!Idle EXCEPT !.op = "sale", !.sale = s, !.row = config])
  BY DEF Gst!RingUp
<1>2. PICK r : r = [Gst!Idle EXCEPT !.op = "sale", !.sale = s, !.row = config]
  OBVIOUS
<1>3. r \in GstSession /\ r.op = "sale" /\ r.sale \in Sales
  BY <1>2 DEF GstAll, GstInv, GstTyped, GstBooks, Gst!Idle, GstSession, GstRow
<1>4. GstMoves(t, r) /\ sess[t] = Gst!Idle /\ GstSame
  BY <1>1, <1>2, <1>3, GstBegins DEF Gst!RingUp, Gst!books, GstAll, GstSame
<1>5. (Known(r) /\ Lists(r))'
  BY <1>3 DEF Known, Lists
<1>6. Alone' => Orderly(r)'
  BY <1>3, <1>4, GstWas, GstIdles DEF Orderly, Agree, Compiling, Returning, Billing, Billed, GstSame
<1> QED
  BY <1>4, <1>5, <1>6, GstKept, GstDoes DEF GstAll

LEMMA RecordsSale ==
  ASSUME GstAll, NEW t \in Threads, Gst!RecordSale(t)
  PROVE  GstAll'
<1>1. /\ sess[t].op = "sale" /\ Gst!Go(t, Gst!Idle) /\ UNCHANGED <<config, filing, file, invoices>>
      /\ rows' = rows \/ rows' = rows \cup {sess[t].sale}
  BY DEF Gst!RecordSale, Gst!At, Gst!End
<1>2. GstMoves(t, Gst!Idle) /\ sess[t].sale \in Sales
  BY <1>1, GstGoes, GstIdles, GstKnows DEF GstAll, Known
<1>3. rows' \subseteq Sales /\ rows \subseteq rows'
  BY <1>1, <1>2 DEF GstAll, GstInv, GstTyped, GstBooks
<1>4. GstBooks' /\ Grown /\ Gst!ListedIfCounted'
  BY <1>1, <1>3 DEF GstAll, GstInv, GstTyped, GstBooks, Grown, Gst!ListedIfCounted
<1>5. Alone' => Agree' /\ \A s \in Sales : Billed(s)'
  BY <1>1, <1>2, GstWas DEF Orderly, Billing, Agree, Billed
<1> QED
  BY <1>2, <1>4, <1>5, GstEnds

LEMMA SumsUp ==
  ASSUME GstAll, NEW t \in Threads, Gst!Sum(t)
  PROVE  GstAll'
<1>1. Gst!Begin(t, [Gst!Idle EXCEPT !.op = "compile", !.at = "row", !.counted = rows]) /\ GstSame
  BY DEF Gst!Sum, Gst!books, GstSame
<1>2. PICK r : r = [Gst!Idle EXCEPT !.op = "compile", !.at = "row", !.counted = rows]
  OBVIOUS
<1>3. r \in GstSession /\ r.op = "compile" /\ r.at = "row" /\ r.counted = rows /\ r.row = None
  BY <1>2 DEF GstAll, GstInv, GstTyped, GstBooks, Gst!Idle, GstSession, GstRow
<1>4. GstMoves(t, r) /\ sess[t] = Gst!Idle
  BY <1>1, <1>2, <1>3, GstBegins DEF GstAll
<1>5. (Known(r) /\ Lists(r))'
  BY <1>1, <1>3 DEF Known, Lists, GstSame
<1>6. Alone' => Orderly(r)'
  BY <1>1, <1>3, <1>4, GstWas, GstIdles DEF Orderly, Agree, Compiling, Returning, Billing, Billed, GstSame
<1> QED
  BY <1>1, <1>4, <1>5, <1>6, GstKept, GstDoes DEF GstAll

LEMMA FindsPeriod ==
  ASSUME GstAll, NEW t \in Threads, Gst!FindPeriod(t)
  PROVE  GstAll'
<1>1. PICK o : o = sess[t]
  OBVIOUS
<1>2. PICK r : r = [o EXCEPT !.at = "list", !.row = filing]
  OBVIOUS
<1>3. o.op = "compile" /\ o.at = "row" /\ Gst!Go(t, r) /\ GstSame
  BY <1>1, <1>2 DEF Gst!FindPeriod, Gst!At, Gst!books, GstSame
<1>4. o \in GstSession /\ Known(o) /\ Lists(o) /\ (filing = None \/ filing \in Gst!Filing)
  BY <1>1, GstKnows DEF GstAll, GstInv, GstTyped, GstBooks
<1>5. /\ r \in GstSession /\ r.op = "compile" /\ r.at = "list" /\ r.row = filing
      /\ r.counted = o.counted /\ r.listed = o.listed /\ r.wrote = o.wrote
  BY <1>2, <1>3, <1>4 DEF GstSession, GstRow
<1>6. GstMoves(t, r)
  BY <1>1, <1>3, <1>5, GstGoes DEF GstAll
<1>7. (Known(r) /\ Lists(r))'
  BY <1>3, <1>4, <1>5 DEF Known, Lists, GstSame
<1>8. Alone' => Orderly(r)'
  BY <1>1, <1>3, <1>5, <1>6, GstWas DEF Orderly, Agree, Compiling, Returning, Billing, Billed, GstSame
<1> QED
  BY <1>3, <1>6, <1>7, <1>8, GstKept, GstDoes DEF GstAll

LEMMA ListsSales ==
  ASSUME GstAll, NEW t \in Threads, Gst!List(t)
  PROVE  GstAll'
<1>1. PICK o : o = sess[t]
  OBVIOUS
<1>2. PICK r : r = [o EXCEPT !.at = "file", !.listed = rows]
  OBVIOUS
<1>3. o.op = "compile" /\ o.at = "list" /\ Gst!Go(t, r) /\ GstSame
  BY <1>1, <1>2 DEF Gst!List, Gst!At, Gst!books, GstSame
<1>4. o \in GstSession /\ Known(o) /\ Lists(o) /\ rows \in SUBSET Sales
  BY <1>1, GstKnows DEF GstAll, GstInv, GstTyped, GstBooks
<1>5. /\ r \in GstSession /\ r.op = "compile" /\ r.at = "file" /\ r.row = o.row
      /\ r.counted = o.counted /\ r.listed = rows /\ r.wrote = o.wrote
  BY <1>2, <1>3, <1>4 DEF GstSession
<1>6. GstMoves(t, r)
  BY <1>1, <1>3, <1>5, GstGoes DEF GstAll
<1>7. (Known(r) /\ Lists(r))'
  BY <1>3, <1>4, <1>5 DEF Known, Lists, GstSame
<1>8. Alone' => Orderly(r)'
  BY <1>1, <1>3, <1>5, <1>6, GstWas DEF Orderly, Agree, Compiling, Returning, Billing, Billed, GstSame
<1> QED
  BY <1>3, <1>6, <1>7, <1>8, GstKept, GstDoes DEF GstAll

LEMMA WritesFile ==
  ASSUME GstAll, NEW t \in Threads, Gst!WriteFile(t)
  PROVE  GstAll'
<1>1. PICK o : o = sess[t]
  OBVIOUS
<1>2. PICK r : r = [o EXCEPT !.at = "end", !.wrote = TRUE]
  OBVIOUS
<1>3. /\ o.op = "compile" /\ o.at = "file" /\ Gst!Go(t, r) /\ UNCHANGED <<config, rows, filing, invoices>>
      /\ file' = [counted |-> o.counted, listed |-> o.listed, acknowledged |-> FALSE]
  BY <1>1, <1>2 DEF Gst!WriteFile, Gst!At
<1>4. o \in GstSession /\ Known(o) /\ Lists(o)
  BY <1>1, GstKnows DEF GstAll
<1>5. /\ r \in GstSession /\ r.op = "compile" /\ r.at = "end" /\ r.row = o.row
      /\ r.counted = o.counted /\ r.listed = o.listed /\ r.wrote
  BY <1>2, <1>3, <1>4 DEF GstSession
<1>6. GstMoves(t, r)
  BY <1>1, <1>3, <1>5, GstGoes DEF GstAll
<1>7. (Known(r) /\ Lists(r))'
  BY <1>3, <1>4, <1>5 DEF Known, Lists
<1>8. file' \in Gst!File /\ file'.counted \subseteq file'.listed
  BY <1>3, <1>4 DEF Gst!File, GstSession, Lists
<1>9. GstBooks' /\ Grown /\ Gst!ListedIfCounted'
  BY <1>3, <1>8 DEF GstAll, GstInv, GstTyped, GstBooks, Grown, Gst!ListedIfCounted
<1>10. Alone' => Orderly(r)'
  BY <1>1, <1>3, <1>5, <1>6, GstWas DEF Orderly, Agree, Compiling, Returning, Billing, Billed
<1> QED
  BY <1>6, <1>7, <1>9, <1>10, GstDoes

\* What the update of a compilation writes: the columns that differ from those it read.
NewFigures(c) == [counted |-> c, status |-> "COMPILED", path |-> TRUE, compiled |-> TRUE]

LEMMA SentColumns ==
  ASSUME NEW read \in Gst!Filing, NEW now \in Gst!Filing, NEW new \in Gst!Filing, NEW sent,
         sent = [f \in DOMAIN new |-> IF new[f] # read[f] THEN new[f] ELSE now[f]]
  PROVE  /\ sent \in Gst!Filing
         /\ new.status = read.status => sent.status = now.status
         /\ read = now => sent = new
<1>1. DOMAIN new = {"counted", "status", "path", "compiled"}
  BY DEF Gst!Filing
<1>2. sent = [f \in {"counted", "status", "path", "compiled"} |-> sent[f]]
  BY <1>1
<1>3. sent = [counted |-> sent.counted, status |-> sent.status, path |-> sent.path, compiled |-> sent.compiled]
  BY <1>2
<1>4. /\ sent.counted \in {new.counted, now.counted} /\ sent.status \in {new.status, now.status}
      /\ sent.path \in {new.path, now.path} /\ sent.compiled \in {new.compiled, now.compiled}
      /\ new.status = read.status => sent.status = now.status
  BY <1>1
<1>5. sent \in Gst!Filing
  BY <1>3, <1>4 DEF Gst!Filing
<1>6. ASSUME read = now PROVE sent = new
  <2>1. new = [f \in DOMAIN new |-> new[f]]
    BY DEF Gst!Filing
  <2>2. sent = [f \in DOMAIN new |-> new[f]]
    BY <1>6
  <2> QED
    BY <2>1, <2>2
<1> QED
  BY <1>4, <1>5, <1>6

LEMMA CompiledIs ==
  ASSUME GstBooks, NEW r \in GstSession, r.op = "compile", Known(r)
  PROVE  /\ Gst!Compiled(r) \in Gst!Filing
         /\ r.row = filing => Gst!Compiled(r) = NewFigures(r.counted)
         /\ /\ filing # None
            /\ r.row = None \/ r.row.status = "COMPILED"
            => Gst!Compiled(r).status = filing.status
<1> DEFINE new == NewFigures(r.counted)
<1>1. new \in Gst!Filing /\ new.status = "COMPILED"
  BY DEF NewFigures, Gst!Filing, GstSession
<1>2. Gst!Compiled(r) = IF r.row = None THEN IF filing = None THEN new ELSE filing
                        ELSE [f \in DOMAIN new |-> IF new[f] # r.row[f] THEN new[f] ELSE filing[f]]
  BY DEF Gst!Compiled, NewFigures
<1> HIDE DEF new
<1>3. CASE r.row = None
  BY <1>1, <1>2, <1>3 DEF GstBooks, new
<1>4. CASE r.row # None
  <2>1. r.row \in Gst!Filing /\ filing \in Gst!Filing
    BY <1>4 DEF Known
  <2>2. PICK sent : sent = [f \in DOMAIN new |-> IF new[f] # r.row[f] THEN new[f] ELSE filing[f]]
    OBVIOUS
  <2>3. Gst!Compiled(r) = sent
    BY <1>2, <1>4, <2>2
  <2> QED
    BY <1>1, <1>4, <2>1, <2>2, <2>3, SentColumns DEF new
<1> QED
  BY <1>3, <1>4

LEMMA CommitsCompiled ==
  ASSUME None \notin Gst!File, GstAll, NEW t \in Threads, Gst!CommitCompiled(t)
  PROVE  GstAll'
<1>1. PICK o : o = sess[t]
  OBVIOUS
<1>2. /\ o.op = "compile" /\ o.at = "end" /\ Gst!Go(t, Gst!Idle) /\ UNCHANGED <<config, rows, file, invoices>>
      /\ filing' = Gst!Compiled(o)
  BY <1>1 DEF Gst!CommitCompiled, Gst!At, Gst!End
<1>3. o \in GstSession /\ Known(o)
  BY <1>1, GstKnows DEF GstAll
<1>4. GstMoves(t, Gst!Idle)
  BY <1>1, <1>2, GstGoes, GstIdles DEF GstAll
<1>5. filing' \in Gst!Filing /\ (o.row = filing => filing' = NewFigures(o.counted))
  BY <1>2, <1>3, CompiledIs DEF GstAll, GstInv, GstTyped
<1>6. GstBooks' /\ Grown /\ Gst!ListedIfCounted'
  BY <1>2, <1>5 DEF GstAll, GstInv, GstTyped, GstBooks, Grown, Gst!ListedIfCounted
<1>7. ASSUME Alone' PROVE Agree' /\ \A s \in Sales : Billed(s)'
  <2>1. Orderly(o)
    BY <1>1, <1>4, <1>7, GstWas
  <2>2. /\ filing' = NewFigures(o.counted)
        /\ file' = [counted |-> o.counted, listed |-> o.counted, acknowledged |-> FALSE]
    BY <1>2, <1>5, <2>1 DEF Orderly, Compiling
  <2>3. file' \in Gst!File
    BY <1>3, <2>2 DEF GstSession, Gst!File
  <2>4. Agree'
    BY <2>2, <2>3 DEF Agree, NewFigures
  <2> QED
    BY <1>2, <2>1, <2>4 DEF Orderly, Billing, Billed
<1> QED
  BY <1>4, <1>6, <1>7, GstEnds

LEMMA FindsReturn ==
  ASSUME GstAll, NEW t \in Threads, Gst!FindReturn(t)
  PROVE  GstAll'
<1>1. PICK r : r = [Gst!Idle EXCEPT !.op = "file", !.row = filing, !.at = IF filing = None THEN "insert" ELSE "load"]
  OBVIOUS
<1>2. Gst!Begin(t, r) /\ GstSame /\ (filing = None \/ filing \in Gst!Filing)
  BY <1>1 DEF Gst!FindReturn, Gst!books, GstSame, GstAll, GstInv, GstTyped, GstBooks
<1>3. /\ r \in GstSession /\ r.op = "file" /\ r.row = filing /\ ~r.wrote
      /\ r.at = IF filing = None THEN "insert" ELSE "load"
  BY <1>1, <1>2 DEF Gst!Idle, GstSession, GstRow
<1>4. GstMoves(t, r) /\ sess[t] = Gst!Idle
  BY <1>2, <1>3, GstBegins DEF GstAll
<1>5. (Known(r) /\ Lists(r))'
  BY <1>2, <1>3 DEF Known, Lists, GstSame
<1>6. Alone' => Orderly(r)'
  BY <1>2, <1>3, <1>4, GstWas, GstIdles DEF Orderly, Agree, Compiling, Returning, Billing, Billed, GstSame
<1> QED
  BY <1>2, <1>4, <1>5, <1>6, GstKept, GstDoes DEF GstAll

LEMMA InsertsReturn ==
  ASSUME GstAll, NEW t \in Threads, Gst!InsertReturn(t)
  PROVE  GstAll'
<1>1. PICK o : o = sess[t]
  OBVIOUS
<1>2. o.op = "file" /\ o.at = "insert" /\ GstSame
  BY <1>1 DEF Gst!InsertReturn, Gst!At, GstSame
<1>3. o \in GstSession /\ Known(o)
  BY <1>1, GstKnows DEF GstAll
<1>4. CASE filing = None
  <2>1. PICK r : r = [o EXCEPT !.at = "end"]
    OBVIOUS
  <2>2. Gst!Go(t, r)
    BY <1>1, <1>4, <2>1 DEF Gst!InsertReturn
  <2>3. r \in GstSession /\ r.op = "file" /\ r.at = "end" /\ r.row = o.row /\ r.wrote = o.wrote
    BY <1>2, <1>3, <2>1 DEF GstSession
  <2>4. GstMoves(t, r)
    BY <1>1, <1>2, <2>2, <2>3, GstGoes DEF GstAll
  <2>5. (Known(r) /\ Lists(r))'
    BY <1>2, <1>3, <2>3 DEF Known, Lists, GstSame
  <2>6. Alone' => Orderly(r)'
    BY <1>1, <1>2, <2>3, <2>4, GstWas DEF Orderly, Agree, Compiling, Returning, Billing, Billed, GstSame
  <2> QED
    BY <1>2, <2>4, <2>5, <2>6, GstKept, GstDoes DEF GstAll
<1>5. CASE filing # None
  <2>1. Gst!Go(t, Gst!Idle)
    BY <1>5 DEF Gst!InsertReturn, Gst!End
  <2>2. GstMoves(t, Gst!Idle)
    BY <1>1, <1>2, <2>1, GstGoes, GstIdles DEF GstAll
  <2>3. Alone' => Agree' /\ \A s \in Sales : Billed(s)'
    BY <1>1, <1>2, <2>2, GstWas DEF Orderly, Agree, Returning, Billing, Billed, GstSame
  <2> QED
    BY <1>2, <2>2, <2>3, GstKept, GstEnds DEF GstAll
<1> QED
  BY <1>4, <1>5

LEMMA LoadsFile ==
  ASSUME GstAll, NEW t \in Threads, Gst!LoadFile(t)
  PROVE  GstAll'
<1>1. PICK o : o = sess[t]
  OBVIOUS
<1>2. o.op = "file" /\ o.at = "load" /\ GstSame
  BY <1>1 DEF Gst!LoadFile, Gst!At, Gst!books, GstSame
<1>3. o \in GstSession /\ Known(o) /\ o.row # None /\ (file = None \/ file \in Gst!File)
  BY <1>1, <1>2, GstKnows DEF GstAll, GstInv, GstTyped, GstBooks, Known
<1>4. CASE o.row.path /\ file # None
  <2>1. PICK r : r = [o EXCEPT !.at = "stamp", !.file = file]
    OBVIOUS
  <2>2. Gst!Go(t, r)
    BY <1>1, <1>4, <2>1 DEF Gst!LoadFile
  <2>3. /\ r \in GstSession /\ r.op = "file" /\ r.at = "stamp" /\ r.row = o.row /\ r.wrote = o.wrote
        /\ r.file = file
    BY <1>2, <1>3, <2>1 DEF GstSession
  <2>4. GstMoves(t, r)
    BY <1>1, <1>2, <2>2, <2>3, GstGoes DEF GstAll
  <2>5. file.counted \subseteq file.listed
    BY <1>4 DEF GstAll, GstInv, Gst!ListedIfCounted
  <2>6. (Known(r) /\ Lists(r))'
    BY <1>2, <1>3, <1>4, <2>3, <2>5 DEF Known, Lists, GstSame
  <2>7. Alone' => Orderly(r)'
    BY <1>1, <1>2, <1>3, <1>4, <2>3, <2>4, GstWas
       DEF Orderly, Agree, Compiling, Returning, Billing, Billed, GstSame
  <2> QED
    BY <1>2, <2>4, <2>6, <2>7, GstKept, GstDoes DEF GstAll
<1>5. CASE ~(o.row.path /\ file # None)
  <2>1. PICK r : r = [o EXCEPT !.at = "end"]
    OBVIOUS
  <2>2. Gst!Go(t, r)
    BY <1>1, <1>5, <2>1 DEF Gst!LoadFile
  <2>3. r \in GstSession /\ r.op = "file" /\ r.at = "end" /\ r.row = o.row /\ r.wrote = o.wrote
    BY <1>2, <1>3, <2>1 DEF GstSession
  <2>4. GstMoves(t, r)
    BY <1>1, <1>2, <2>2, <2>3, GstGoes DEF GstAll
  <2>5. (Known(r) /\ Lists(r))'
    BY <1>2, <1>3, <2>3 DEF Known, Lists, GstSame
  <2>6. ASSUME Alone' PROVE Orderly(r)'
    <3>1. Orderly(o)
      BY <1>1, <2>4, <2>6, GstWas
    <3>2. ~filing.path
      BY <1>2, <1>3, <1>5, <3>1 DEF Orderly, Returning, Agree
    <3> QED
      BY <1>2, <2>3, <3>1, <3>2 DEF Orderly, Agree, Compiling, Returning, Billing, Billed, GstSame
  <2> QED
    BY <1>2, <2>4, <2>5, <2>6, GstKept, GstDoes DEF GstAll
<1> QED
  BY <1>4, <1>5

LEMMA StampsFile ==
  ASSUME None \notin Gst!File, GstAll, NEW t \in Threads, Gst!StampFile(t)
  PROVE  GstAll'
<1>1. PICK o : o = sess[t]
  OBVIOUS
<1>2. PICK r : r = [o EXCEPT !.at = "end", !.wrote = TRUE]
  OBVIOUS
<1>3. /\ o.op = "file" /\ o.at = "stamp" /\ Gst!Go(t, r) /\ UNCHANGED <<config, rows, filing, invoices>>
      /\ file' = [o.file EXCEPT !.acknowledged = TRUE]
  BY <1>1, <1>2 DEF Gst!StampFile, Gst!At
<1>4. o \in GstSession /\ Known(o) /\ Lists(o)
  BY <1>1, GstKnows DEF GstAll
<1>5. r \in GstSession /\ r.op = "file" /\ r.at = "end" /\ r.row = o.row /\ r.wrote
  BY <1>2, <1>3, <1>4 DEF GstSession
<1>6. GstMoves(t, r)
  BY <1>1, <1>3, <1>5, GstGoes DEF GstAll
<1>7. (Known(r) /\ Lists(r))'
  BY <1>3, <1>4, <1>5 DEF Known, Lists
<1>8. /\ file' \in Gst!File /\ file'.counted = o.file.counted /\ file'.listed = o.file.listed
      /\ file'.acknowledged /\ o.file.counted \subseteq o.file.listed
  BY <1>3, <1>4 DEF Gst!File, Lists, Known
<1>9. GstBooks' /\ Grown /\ Gst!ListedIfCounted'
  BY <1>3, <1>8 DEF GstAll, GstInv, GstTyped, GstBooks, Grown, Gst!ListedIfCounted
<1>10. ASSUME Alone' PROVE Orderly(r)'
  <2>1. Orderly(o)
    BY <1>1, <1>6, <1>10, GstWas
  <2>2. /\ filing # None /\ filing.path /\ file # None /\ o.file = file
        /\ file.counted = filing.counted /\ file.listed = file.counted /\ o.row = filing
    BY <1>3, <2>1 DEF Orderly, Returning, Agree
  <2>3. file' # None
    BY <1>8
  <2> QED
    BY <1>3, <1>5, <1>8, <2>1, <2>2, <2>3 DEF Orderly, Agree, Compiling, Returning, Billing, Billed
<1> QED
  BY <1>6, <1>7, <1>9, <1>10, GstDoes

LEMMA FiledIs ==
  ASSUME GstBooks, NEW r \in GstSession, r.op = "file", Known(r)
  PROVE  /\ Gst!Filed(r) \in Gst!Filing
         /\ filing # None /\ filing.status = "FILED" => Gst!Filed(r).status = "FILED"
         /\ r.row = None => ~Gst!Filed(r).path
         /\ r.row # None /\ r.row = filing =>
              /\ Gst!Filed(r).path = filing.path /\ Gst!Filed(r).counted = filing.counted
              /\ Gst!Filed(r).status = "FILED"
<1>1. CASE r.row = None
  <2>1. Gst!Filed(r) = [counted |-> None, status |-> "FILED", path |-> FALSE, compiled |-> TRUE]
    BY <1>1 DEF Gst!Filed
  <2> QED
    BY <1>1, <2>1 DEF Gst!Filing
<1>2. CASE r.row # None
  <2>1. r.row \in Gst!Filing /\ filing \in Gst!Filing
    BY <1>2 DEF Known
  <2>2. Gst!Filed(r) = [filing EXCEPT !.status = IF r.row.status # "FILED" THEN "FILED" ELSE @,
                                      !.compiled = @ \/ ~r.row.compiled]
    BY <1>2 DEF Gst!Filed
  <2> QED
    BY <1>2, <2>1, <2>2 DEF Gst!Filing
<1> QED
  BY <1>1, <1>2

LEMMA CommitsFiled ==
  ASSUME GstAll, NEW t \in Threads, Gst!CommitFiled(t)
  PROVE  GstAll'
<1>1. PICK o : o = sess[t]
  OBVIOUS
<1>2. /\ o.op = "file" /\ o.at = "end" /\ Gst!Go(t, Gst!Idle) /\ UNCHANGED <<config, rows, file, invoices>>
      /\ filing' = Gst!Filed(o)
  BY <1>1 DEF Gst!CommitFiled, Gst!At, Gst!End
<1>3. o \in GstSession /\ Known(o)
  BY <1>1, GstKnows DEF GstAll
<1>4. GstMoves(t, Gst!Idle)
  BY <1>1, <1>2, GstGoes, GstIdles DEF GstAll
<1>5. /\ filing' \in Gst!Filing
      /\ o.row = None => ~filing'.path
      /\ o.row # None /\ o.row = filing => /\ filing'.path = filing.path /\ filing'.counted = filing.counted
                                          /\ filing'.status = "FILED"
  BY <1>2, <1>3, FiledIs DEF GstAll, GstInv, GstTyped
<1>6. GstBooks' /\ Grown /\ Gst!ListedIfCounted'
  BY <1>2, <1>5 DEF GstAll, GstInv, GstTyped, GstBooks, Grown, Gst!ListedIfCounted
<1>7. ASSUME Alone' PROVE Agree' /\ \A s \in Sales : Billed(s)'
  <2>1. Orderly(o)
    BY <1>1, <1>4, <1>7, GstWas
  <2>2. Agree'
    BY <1>2, <1>5, <2>1 DEF Orderly, Returning, Agree
  <2> QED
    BY <1>2, <2>1, <2>2 DEF Orderly, Billing, Billed
<1> QED
  BY <1>4, <1>6, <1>7, GstEnds

LEMMA FindsInvoice ==
  ASSUME GstAll, NEW t \in Threads, Gst!FindInvoice(t)
  PROVE  GstAll'
<1>1. PICK s \in Sales : /\ invoices[s] = <<>> \/ Gst!Contains(invoices[s], "DRAFT")
                        /\ Gst!Begin(t, [Gst!Idle EXCEPT !.op = "invoice", !.at = "draft", !.sale = s])
  BY DEF Gst!FindInvoice
<1>2. PICK r : r = [Gst!Idle EXCEPT !.op = "invoice", !.at = "draft", !.sale = s]
  OBVIOUS
<1>3. Gst!Begin(t, r) /\ GstSame
  BY <1>1, <1>2 DEF Gst!FindInvoice, Gst!books, GstSame
<1>4. r \in GstSession /\ r.op = "invoice" /\ r.at = "draft" /\ r.sale = s
  BY <1>2 DEF Gst!Idle, GstSession, GstRow
<1>5. GstMoves(t, r) /\ sess[t] = Gst!Idle
  BY <1>3, <1>4, GstBegins DEF GstAll
<1>6. (Known(r) /\ Lists(r))'
  BY <1>4 DEF Known, Lists
<1>7. ASSUME Alone' PROVE Orderly(r)'
  <2>1. Orderly(Gst!Idle)
    BY <1>5, <1>7, GstWas
  <2>2. Agree /\ \A x \in Sales : Billed(x)
    BY <2>1, GstIdles DEF Orderly, Billing
  <2>3. invoices[s] # <<"ACCEPTED">>
    BY <1>1 DEF Gst!Contains
  <2>4. invoices[s] = <<>>
    BY <2>2, <2>3 DEF Billed
  <2> QED
    BY <1>3, <1>4, <2>2, <2>4 DEF Orderly, Agree, Compiling, Returning, Billing, Billed, GstSame
<1> QED
  BY <1>3, <1>5, <1>6, <1>7, GstKept, GstDoes DEF GstAll

LEMMA DraftsInvoice ==
  ASSUME GstAll, NEW t \in Threads, Gst!DraftInvoice(t)
  PROVE  GstAll'
<1>1. PICK o : o = sess[t]
  OBVIOUS
<1>2. PICK n : n = Len(invoices[o.sale]) + 1
  OBVIOUS
<1>3. PICK r : r = [o EXCEPT !.at = "end", !.wrote = TRUE, !.row = n]
  OBVIOUS
<1>4. /\ o.op = "invoice" /\ o.at = "draft" /\ Gst!Go(t, r) /\ UNCHANGED <<config, rows, filing, file>>
      /\ invoices' = [invoices EXCEPT ![o.sale] = Append(invoices[o.sale], "DRAFT")]
  BY <1>1, <1>2, <1>3 DEF Gst!DraftInvoice, Gst!At
<1>5. o \in GstSession /\ o.sale \in Sales /\ invoices \in [Sales -> Seq({"DRAFT", "ACCEPTED"})]
  BY <1>1, <1>4, GstKnows DEF GstAll, GstInv, GstTyped, GstBooks, Known
<1>6. /\ n \in Nat /\ n \in DOMAIN Append(invoices[o.sale], "DRAFT")
      /\ Append(invoices[o.sale], "DRAFT") \in Seq({"DRAFT", "ACCEPTED"})
      /\ DOMAIN invoices[o.sale] \subseteq DOMAIN Append(invoices[o.sale], "DRAFT")
  <2>1. PICK q : q = invoices[o.sale]
    OBVIOUS
  <2>2. q \in Seq({"DRAFT", "ACCEPTED"}) /\ n = Len(q) + 1
    BY <1>2, <1>5, <2>1
  <2>3. Append(q, "DRAFT") \in Seq({"DRAFT", "ACCEPTED"}) /\ Len(Append(q, "DRAFT")) = Len(q) + 1
    BY <2>2
  <2> QED
    BY <2>1, <2>2, <2>3
<1>7. /\ r \in GstSession /\ r.op = "invoice" /\ r.at = "end" /\ r.row = n /\ r.sale = o.sale /\ r.wrote
  BY <1>3, <1>4, <1>5, <1>6 DEF GstSession, GstRow
<1>8. GstMoves(t, r)
  BY <1>1, <1>4, <1>7, GstGoes DEF GstAll
<1>9. /\ invoices' \in [Sales -> Seq({"DRAFT", "ACCEPTED"})] /\ invoices'[o.sale] = Append(invoices[o.sale], "DRAFT")
      /\ \A s \in Sales : s # o.sale => invoices'[s] = invoices[s]
  BY <1>4, <1>5, <1>6
<1>10. (Known(r) /\ Lists(r))'
  BY <1>5, <1>6, <1>7, <1>9 DEF Known, Lists
<1>11. GstBooks' /\ Grown /\ Gst!ListedIfCounted'
  BY <1>4, <1>6, <1>9 DEF GstAll, GstInv, GstTyped, GstBooks, Grown, Gst!ListedIfCounted
<1>12. ASSUME Alone' PROVE Orderly(r)'
  <2>1. Orderly(o)
    BY <1>1, <1>8, <1>12, GstWas
  <2>2. invoices[o.sale] = <<>>
    BY <1>4, <2>1 DEF Orderly, Billing
  <2>3. n = 1 /\ invoices'[o.sale] = <<"DRAFT">>
    BY <1>2, <1>9, <2>2
  <2> QED
    BY <1>4, <1>7, <1>9, <2>1, <2>3 DEF Orderly, Agree, Compiling, Returning, Billing, Billed
<1> QED
  BY <1>8, <1>10, <1>11, <1>12, GstDoes

LEMMA AcceptsInvoice ==
  ASSUME GstAll, NEW t \in Threads, Gst!AcceptInvoice(t)
  PROVE  GstAll'
<1>1. PICK o : o = sess[t]
  OBVIOUS
<1>2. PICK q : q = [invoices[o.sale] EXCEPT ![o.row] = "ACCEPTED"]
  OBVIOUS
<1>3. /\ o.op = "invoice" /\ o.at = "end" /\ Gst!Go(t, Gst!Idle) /\ UNCHANGED <<config, rows, filing, file>>
      /\ invoices' = [invoices EXCEPT ![o.sale] = q]
  BY <1>1, <1>2 DEF Gst!AcceptInvoice, Gst!At, Gst!End, Gst!Answer
<1>4. /\ o \in GstSession /\ o.sale \in Sales /\ invoices \in [Sales -> Seq({"DRAFT", "ACCEPTED"})]
      /\ o.row \in DOMAIN invoices[o.sale]
  BY <1>1, <1>3, GstKnows DEF GstAll, GstInv, GstTyped, GstBooks, Known
<1>5. q \in Seq({"DRAFT", "ACCEPTED"}) /\ DOMAIN q = DOMAIN invoices[o.sale]
  BY <1>2, <1>4
<1>6. GstMoves(t, Gst!Idle)
  BY <1>1, <1>3, GstGoes, GstIdles DEF GstAll
<1>7. /\ invoices' \in [Sales -> Seq({"DRAFT", "ACCEPTED"})] /\ invoices'[o.sale] = q
      /\ \A s \in Sales : s # o.sale => invoices'[s] = invoices[s]
  BY <1>3, <1>4, <1>5
<1>8. GstBooks' /\ Grown /\ Gst!ListedIfCounted'
  BY <1>3, <1>4, <1>5, <1>7 DEF GstAll, GstInv, GstTyped, GstBooks, Grown, Gst!ListedIfCounted
<1>9. ASSUME Alone' PROVE Agree' /\ \A s \in Sales : Billed(s)'
  <2>1. Orderly(o)
    BY <1>1, <1>6, <1>9, GstWas
  <2>2. o.row = 1 /\ invoices[o.sale] = <<"DRAFT">>
    BY <1>3, <2>1 DEF Orderly, Billing
  <2>3. q = <<"ACCEPTED">>
    BY <1>2, <2>2
  <2> QED
    BY <1>3, <1>7, <2>1, <2>3 DEF Orderly, Agree, Billing, Billed
<1> QED
  BY <1>6, <1>8, <1>9, GstEnds

\* A session that is cut off with nothing written was in order, and so is what it leaves.
LEMMA GstCrashes ==
  ASSUME GstAll, NEW t \in Threads, Gst!Crash(t)
  PROVE  GstAll'
<1>1. PICK o : o = sess[t]
  OBVIOUS
<1>2. GstSame /\ torn' = (torn \/ o.wrote) /\ GstMoves(t, Gst!Idle)
  BY <1>1, GstIdles DEF Gst!Crash, GstSame, GstMoves
<1>3. o \in GstSession
  BY <1>1, GstKnows DEF GstAll
<1>4. ASSUME Alone' PROVE Agree' /\ \A s \in Sales : Billed(s)'
  <2>1. Orderly(o) /\ ~o.wrote
    BY <1>1, <1>2, <1>4, GstWas DEF Alone
  <2>2. Agree /\ \A s \in Sales : Billed(s)
    BY <1>3, <2>1 DEF Orderly, Compiling, Returning, Billing
  <2> QED
    BY <1>2, <2>2 DEF GstSame, Agree, Billed
<1> QED
  BY <1>2, <1>4, GstKept, GstEnds DEF GstAll

LEMMA GstInit ==
  ASSUME Gst!Init
  PROVE  GstAll
<1>1. /\ config = None /\ rows = {} /\ filing = None /\ file = None
      /\ invoices = [s \in Sales |-> <<>>] /\ sess = [t \in Threads |-> Gst!Idle]
  BY DEF Gst!Init
<1>2. GstTyped
  BY <1>1, GstIdles DEF GstTyped, GstBooks, Known
<1>3. GstInv
  BY <1>1, <1>2, GstIdles DEF GstInv, Gst!ListedIfCounted, Lists
<1>4. Orderly(Gst!Idle)
  BY <1>1, GstIdles DEF Orderly, Agree, Compiling, Returning, Billing, Billed
<1> QED
  BY <1>1, <1>3, <1>4 DEF GstAll, GstOne, GstSerial

LEMMA GstStep ==
  ASSUME None \notin Gst!File, GstAll, [Gst!Next]_(Gst!vars)
  PROVE  GstAll'
<1>1. CASE Gst!Map \/ UNCHANGED Gst!vars
  <2>1. UNCHANGED <<config, rows, filing, inserting, file, invoices, sess, crashes, overlapped, torn>>
    BY <1>1 DEF Gst!Map, Gst!vars
  <2>2. GstInv'
    BY <2>1 DEF GstAll, GstInv, GstTyped, GstBooks, Known, Lists, Gst!ListedIfCounted
  <2>3. GstOne'
    BY <2>1 DEF GstAll, GstOne, Gst!Idle
  <2>4. GstSerial'
    <3>1. \A x : Orderly(x)' <=> Orderly(x)
      BY <2>1 DEF Orderly, Agree, Compiling, Returning, Billing, Billed
    <3>2. Alone' <=> Alone
      BY <2>1 DEF Alone
    <3>3. /\ \A t \in Threads : sess[t] # Gst!Idle => (Orderly(sess[t])' <=> Orderly(sess[t]))
          /\ Orderly(Gst!Idle)' <=> Orderly(Gst!Idle)
      BY <2>1, <3>1 DEF Gst!Idle
    <3> QED
      BY <2>1, <3>2, <3>3 DEF GstAll, GstSerial, Gst!Idle
  <2> QED
    BY <2>2, <2>3, <2>4 DEF GstAll
<1>2. ASSUME NEW t \in Threads,
             \/ Gst!ReadConfig(t) \/ Gst!PutConfig(t) \/ Gst!RingUp(t) \/ Gst!RecordSale(t)
             \/ Gst!Sum(t) \/ Gst!FindPeriod(t) \/ Gst!List(t) \/ Gst!WriteFile(t) \/ Gst!CommitCompiled(t)
             \/ Gst!FindReturn(t) \/ Gst!InsertReturn(t) \/ Gst!LoadFile(t) \/ Gst!StampFile(t)
             \/ Gst!CommitFiled(t)
             \/ Gst!FindInvoice(t) \/ Gst!DraftInvoice(t) \/ Gst!AcceptInvoice(t) \/ Gst!Crash(t)
      PROVE  GstAll'
  BY <1>2, ReadsConfig, PutsConfig, RingsUp, RecordsSale, SumsUp, FindsPeriod, ListsSales, WritesFile,
     CommitsCompiled, FindsReturn, InsertsReturn, LoadsFile, StampsFile, CommitsFiled, FindsInvoice,
     DraftsInvoice, AcceptsInvoice, GstCrashes
<1> QED
  BY <1>1, <1>2 DEF Gst!Next

\* No session open: row and file agree; and a sale has at most one accepted e-invoice.
LEMMA SerialFiling ==
  ASSUME GstAll
  PROVE  Gst!SerialFilingAgrees
<1>1. ASSUME Alone, \A t \in Threads : sess[t] = Gst!Idle
      PROVE  Agree
  BY <1>1, GstIdles DEF GstAll, GstSerial, Orderly
<1> QED
  BY <1>1 DEF Gst!SerialFilingAgrees, Agree, Alone

LEMMA AcceptedOnce ==
  ASSUME NEW s \in Sales, invoices[s] \in {<<>>, <<"DRAFT">>, <<"ACCEPTED">>}
  PROVE  Gst!Accepted(s) <= 1
<1> DEFINE A == {n \in DOMAIN invoices[s] : invoices[s][n] = Gst!Answer}
<1>1. DOMAIN <<>> = {} /\ DOMAIN <<"DRAFT">> = {1} /\ DOMAIN <<"ACCEPTED">> = {1}
  OBVIOUS
<1>2. DOMAIN invoices[s] \subseteq {1}
  BY <1>1
<1>3. A \subseteq {1}
  BY <1>2
<1>4. Gst!Accepted(s) = Cardinality(A)
  BY Counts DEF Gst!Accepted
<1> HIDE DEF A
<1>5. IsFiniteSet({1}) /\ Cardinality({1}) = 1
  BY FS_Singleton
<1>6. Cardinality(A) <= 1
  BY <1>3, <1>5, FS_Subset
<1> QED
  BY <1>4, <1>6

LEMMA SerialInvoices ==
  ASSUME GstAll
  PROVE  Gst!SerialSubmitsOnce
<1>1. ASSUME Alone, NEW s \in Sales
      PROVE  invoices[s] \in {<<>>, <<"DRAFT">>, <<"ACCEPTED">>}
  <2>1. CASE \A t \in Threads : sess[t] = Gst!Idle
    BY <1>1, <2>1, GstIdles DEF GstAll, GstSerial, Orderly, Billing, Billed
  <2>2. ASSUME NEW t \in Threads, sess[t] # Gst!Idle
        PROVE  invoices[s] \in {<<>>, <<"DRAFT">>, <<"ACCEPTED">>}
    <3>1. Billing(sess[t])
      BY <1>1, <2>2 DEF GstAll, GstSerial, Orderly
    <3> QED
      BY <3>1 DEF Billing, Billed
  <2> QED
    BY <2>1, <2>2
<1> QED
  BY <1>1, AcceptedOnce DEF Gst!SerialSubmitsOnce, Alone

\* A step that takes a FILED period back is the commit of a compilation that read it as
\* something else than COMPILED.
LEMMA Reopens ==
  ASSUME GstAll, [Gst!Next]_(Gst!vars),
         filing # None, filing'.status # filing.status, filing.status = "FILED"
  PROVE  \E t \in Threads : /\ sess[t].op = "compile" /\ sess'[t] = Gst!Idle
                           /\ sess[t].row.status # "COMPILED"
<1>1. ASSUME UNCHANGED filing PROVE FALSE
  BY <1>1
<1>2. ASSUME NEW t \in Threads, Gst!CommitFiled(t)
      PROVE  FALSE
  <2>1. sess[t] \in GstSession /\ Known(sess[t])
    BY GstKnows DEF GstAll
  <2>2. Gst!Filed(sess[t]).status = "FILED"
    BY <1>2, <2>1, FiledIs DEF Gst!CommitFiled, Gst!At, GstAll, GstInv, GstTyped
  <2> QED
    BY <1>2, <2>2 DEF Gst!CommitFiled
<1>3. ASSUME NEW t \in Threads, Gst!CommitCompiled(t)
      PROVE  /\ sess[t].op = "compile" /\ sess'[t] = Gst!Idle
             /\ sess[t].row.status # "COMPILED"
  <2>1. sess[t] \in GstSession /\ Known(sess[t])
    BY GstKnows DEF GstAll
  <2>2. sess[t].op = "compile" /\ filing' = Gst!Compiled(sess[t])
    BY <1>3 DEF Gst!CommitCompiled, Gst!At
  <2>3. sess[t].row.status # "COMPILED"
    BY <2>1, <2>2, CompiledIs DEF GstAll, GstInv, GstTyped
  <2>4. sess'[t] = Gst!Idle
    BY <1>3 DEF Gst!CommitCompiled, Gst!End, Gst!Go, GstAll, GstInv, GstTyped
  <2> QED
    BY <2>2, <2>3, <2>4
<1>4. ASSUME NEW t \in Threads,
             \/ Gst!ReadConfig(t) \/ Gst!PutConfig(t) \/ Gst!RingUp(t) \/ Gst!RecordSale(t)
             \/ Gst!Sum(t) \/ Gst!FindPeriod(t) \/ Gst!List(t) \/ Gst!WriteFile(t)
             \/ Gst!FindReturn(t) \/ Gst!InsertReturn(t) \/ Gst!LoadFile(t) \/ Gst!StampFile(t)
             \/ Gst!FindInvoice(t) \/ Gst!DraftInvoice(t) \/ Gst!AcceptInvoice(t) \/ Gst!Crash(t)
      PROVE  UNCHANGED filing
  BY <1>4 DEF Gst!ReadConfig, Gst!PutConfig, Gst!RingUp, Gst!RecordSale, Gst!Sum, Gst!FindPeriod, Gst!List,
     Gst!WriteFile, Gst!FindReturn, Gst!InsertReturn, Gst!LoadFile, Gst!StampFile, Gst!FindInvoice,
     Gst!DraftInvoice, Gst!AcceptInvoice, Gst!Crash, Gst!books
<1>5. CASE Gst!Map \/ UNCHANGED Gst!vars
  BY <1>1, <1>5 DEF Gst!Map, Gst!vars
<1> QED
  BY <1>1, <1>2, <1>3, <1>4, <1>5 DEF Gst!Next

LEMMA GstHolds ==
  ASSUME None \notin Gst!File
  PROVE  Gst!Spec => []GstAll
<1>1. Gst!Init => GstAll
  BY GstInit
<1>2. GstAll /\ [Gst!Next]_(Gst!vars) => GstAll'
  BY GstStep
<1> QED
  BY <1>1, <1>2, PTL DEF Gst!Spec

-----------------------------------------------------------------------------
(* Tax figures. *)

(* What the rates and the totals of lines are: whole percents and paise. *)
TaxInputs == IsFiniteSet(Rates) /\ Rates \subseteq Nat /\ Amounts \subseteq Int /\ Local \in Int

(* Every rate divides the scale into an even number of parts: what a line comes to without *)
(* its tax is exact, and its tax can be halved.                                            *)
LEMMA ScaleDivides ==
  ASSUME TaxInputs
  PROVE  /\ Tax!Scale \in Nat \ {0}
         /\ \E m \in Nat : Tax!Scale = 200 * m
         /\ \A r \in Rates : \E k \in Nat : Tax!Scale = (100 + r) * k
<1> DEFINE S == Rates
           g == [r \in S |-> 100 + r]
           one(h) == h = [s \in SUBSET S |-> IF s = {} THEN 1
                            ELSE (100 + Pick(s)) * h[s \ {Pick(s)}]]
           k == CHOOSE h : one(h)
           m == CHOOSE h : Multiplies(h, g, S)
<1>1. Tax!Scale = 200 * k[S]
  BY DEF Tax!Scale, Tax!MapThenFoldSet, Pick
<1>2. Product(g, S) = m[S]
  BY ProductIs
<1>3. \A s \in SUBSET S : s # {} => g[Pick(s)] = 100 + Pick(s)
  BY PickIn
<1>4. \A h : one(h) <=> Multiplies(h, g, S)
  <2> HIDE DEF g, S
  <2> QED
    BY <1>3 DEF Multiplies
<1>5. k = m
  <2> HIDE DEF one, g, S
  <2> QED
    BY <1>4
<1>6. Tax!Scale = 200 * Product(g, S)
  <2> HIDE DEF k, m, g, S
  <2> QED
    BY <1>1, <1>2, <1>5
<1>7. \A r \in S : g[r] = 100 + r /\ g[r] \in Nat \ {0}
  BY DEF TaxInputs
<1>8. /\ Product(g, S) \in Nat \ {0}
      /\ \A r \in S : \E n \in Nat : Product(g, S) = g[r] * n
  <2> HIDE DEF g, S
  <2>1. IsFiniteSet(S)
    BY DEF TaxInputs, S
  <2> QED
    BY <1>7, <2>1, ProductDivides
<1> HIDE DEF g, k, m
<1>9. ASSUME NEW r \in S PROVE \E n \in Nat : Tax!Scale = (100 + r) * n
  <2>1. PICK n \in Nat : Product(g, S) = (100 + r) * n
    BY <1>7, <1>8
  <2>2. 200 * ((100 + r) * n) = (100 + r) * (200 * n) /\ 200 * n \in Nat
    BY DEF TaxInputs
  <2> QED
    BY <1>6, <2>1, <2>2
<1> QED
  BY <1>6, <1>8, <1>9

(* Rounding moves a figure by half a paisa at most. *)
LEMMA RoundsNear ==
  ASSUME TaxInputs, NEW n \in Int
  PROVE  /\ Tax!RoundHalfEven(n) \in Int
         /\ 2 * (Tax!Scale * Tax!RoundHalfEven(n)) - 2 * n \in -Tax!Scale .. Tax!Scale
<1> DEFINE whole == n \div Tax!Scale
           rest == n % Tax!Scale
<1>1. PICK z : z = Tax!Scale
  OBVIOUS
<1>2. z \in Nat \ {0}
  BY <1>1, ScaleDivides
<1>3. whole \in Int /\ rest \in 0 .. (z - 1) /\ n = z * whole + rest
  BY <1>1, <1>2
<1>4. Tax!RoundHalfEven(n) = whole \/ (Tax!RoundHalfEven(n) = whole + 1 /\ 2 * rest >= z)
  <2>1. ASSUME 2 * rest < z PROVE Tax!RoundHalfEven(n) = whole
    BY <1>1, <2>1 DEF Tax!RoundHalfEven
  <2>2. Tax!RoundHalfEven(n) \in {whole, whole + 1}
    BY DEF Tax!RoundHalfEven
  <2>3. 2 * rest < z \/ 2 * rest >= z
    BY <1>2, <1>3
  <2> HIDE DEF whole, rest
  <2> QED
    BY <2>1, <2>2, <2>3, Zenon
<1>5. Tax!RoundHalfEven(n) = whole => 2 * rest <= z
  <2>1. whole # whole + 1
    BY <1>3
  <2>2. ASSUME 2 * rest > z PROVE Tax!RoundHalfEven(n) = whole + 1
    <3>1. ~(2 * (n % Tax!Scale) < Tax!Scale) /\ 2 * (n % Tax!Scale) # Tax!Scale
      BY <1>1, <1>2, <1>3, <2>2
    <3> QED
      BY <3>1 DEF Tax!RoundHalfEven
  <2> HIDE DEF whole
  <2> QED
    BY <1>2, <1>3, <2>1, <2>2
<1>6. z * (whole + 1) = z * whole + z
  BY <1>2, <1>3
<1> QED
  BY <1>1, <1>2, <1>3, <1>4, <1>5, <1>6

(* What is within half as many scales is within half as many paise. *)
LEMMA InPaise ==
  ASSUME TaxInputs, NEW d \in Int, NEW n \in Nat,
         2 * (Tax!Scale * d) \in -(n * Tax!Scale) .. n * Tax!Scale
  PROVE  2 * d \in -n .. n
<1>1. PICK z : z = Tax!Scale
  OBVIOUS
<1>2. z \in Nat \ {0}
  BY <1>1, ScaleDivides
<1>3. \A x, y \in Nat : x * y \in Nat
  OBVIOUS
<1>4. 2 * (z * d) \in -(n * z) .. n * z
  BY <1>1
<1>5. CASE 2 * d > n
  <2>1. 2 * d - n - 1 \in Nat
    BY <1>5
  <2>2. z * (2 * d - n - 1) \in Nat
    BY <1>2, <1>3, <2>1
  <2>3. z * (2 * d - n - 1) = 2 * (z * d) - n * z - z
    BY <1>2
  <2>4. 2 * (z * d) <= n * z
    BY <1>2, <1>4
  <2>5. z * d \in Int /\ n * z \in Int
    BY <1>2
  <2> QED
    BY <1>2, <2>2, <2>3, <2>4, <2>5
<1>6. CASE 2 * d < -n
  <2>1. -(2 * d) - n - 1 \in Nat
    BY <1>6
  <2>2. z * (-(2 * d) - n - 1) \in Nat
    BY <1>2, <1>3, <2>1
  <2>3. z * (-(2 * d) - n - 1) = -(2 * (z * d)) - n * z - z
    BY <1>2
  <2>4. 2 * (z * d) >= -(n * z)
    BY <1>2, <1>4
  <2>5. z * d \in Int /\ n * z \in Int
    BY <1>2
  <2> QED
    BY <1>2, <2>2, <2>3, <2>4, <2>5
<1> QED
  BY <1>5, <1>6

(* The exact figures add up to the price; the breakdown strays half a paisa a line. *)
TaxInv ==
  /\ method \in {"sale", "IN", "US", "VAT"} /\ count \in Nat /\ due \in Int /\ taxable \in Int
  /\ shares \in [1 .. 2 -> Int] /\ byLine \in [taxable : Int, share : Int]
  /\ method # "US" => taxable + shares[1] + shares[2] = due * Tax!Scale
  /\ method = "sale" =>
       /\ 2 * (Tax!Scale * byLine.taxable) - 2 * taxable \in -(count * Tax!Scale) .. count * Tax!Scale
       /\ 2 * (Tax!Scale * byLine.share) - 2 * shares[1] \in -(count * Tax!Scale) .. count * Tax!Scale

(* A line's figures, kept exactly, add up to its total. *)
LEMMA LineExact ==
  ASSUME TaxInputs, TaxInv, NEW amount \in Amounts, NEW rate \in Rates
  PROVE  /\ Tax!Taxable(amount, rate) \in Int
         /\ Tax!Shares(amount, rate)[1] \in Int /\ Tax!Shares(amount, rate)[2] \in Int
         /\ method # "US" => Tax!Taxable(amount, rate) + Tax!Shares(amount, rate)[1]
                               + Tax!Shares(amount, rate)[2] = amount * Tax!Scale
<1>1. PICK z : z = Tax!Scale
  OBVIOUS
<1>2. /\ z \in Nat \ {0}
      /\ \E m \in Nat : z = 200 * m
      /\ \E k \in Nat : z = (100 + rate) * k
  BY <1>1, ScaleDivides
<1>3. amount \in Int /\ rate \in Nat /\ Local \in Int
  BY DEF TaxInputs
<1>4. PICK net : net = Tax!Taxable(amount, rate)
  OBVIOUS
<1>5. PICK tax : tax = amount * z - net
  OBVIOUS
<1>6. net \in Int /\ tax \in Int /\ net + tax = amount * z
  <2>1. z \div (100 + rate) \in Int
    BY <1>2, <1>3
  <2>2. \A q \in Int : amount * z \in Int /\ 100 * amount * q \in Int
    BY <1>2, <1>3
  <2>3. net \in Int
    BY <1>1, <1>4, <2>1, <2>2 DEF Tax!Taxable
  <2> QED
    BY <1>5, <2>2, <2>3
<1>7. CASE method \in {"sale", "IN"}
  <2>1. Tax!Shares(amount, rate) = [i \in 1 .. 2 |-> tax \div 2]
    BY <1>1, <1>4, <1>5, <1>7 DEF Tax!Shares
  <2>2. \E h \in Int : tax = 2 * h
    <3>1. PICK m \in Nat : z = 200 * m
      BY <1>2
    <3>2. PICK q \in Int : net = 100 * amount * q
      BY <1>1, <1>2, <1>3, <1>4, <1>7 DEF Tax!Taxable
    <3>3. /\ amount * (200 * m) = 2 * (100 * (amount * m))
          /\ 100 * amount * q = 2 * (50 * (amount * q))
          /\ amount * m \in Int /\ amount * q \in Int
      BY <1>3
    <3>4. tax = 2 * (100 * (amount * m) - 50 * (amount * q))
      BY <1>5, <3>1, <3>2, <3>3
    <3>5. 100 * (amount * m) - 50 * (amount * q) \in Int
      BY <3>3
    <3> QED
      BY <3>4, <3>5
  <2>3. tax \div 2 \in Int /\ tax \div 2 + tax \div 2 = tax
    BY <2>2
  <2> QED
    BY <1>1, <1>4, <1>6, <2>1, <2>3
<1>8. CASE method = "US"
  <2>1. Tax!Shares(amount, rate) = <<amount * rate * (z \div 100), amount * Local * (z \div 100)>>
    BY <1>1, <1>8 DEF Tax!Shares
  <2>2. z \div 100 \in Int
    BY <1>2
  <2>3. \A x \in Int : amount * rate * x \in Int /\ amount * Local * x \in Int
    BY <1>3
  <2> QED
    BY <1>4, <1>6, <1>8, <2>1, <2>2, <2>3
<1>9. CASE method = "VAT"
  <2>1. Tax!Shares(amount, rate) = <<tax, 0>>
    BY <1>1, <1>4, <1>5, <1>9 DEF Tax!Shares
  <2> QED
    BY <1>1, <1>4, <1>6, <2>1
<1> QED
  BY <1>7, <1>8, <1>9 DEF TaxInv

LEMMA TaxStep ==
  ASSUME TaxInputs
  PROVE  TaxInv /\ [Tax!Next]_(Tax!vars) => TaxInv'
<1> SUFFICES ASSUME TaxInv, [Tax!Next]_(Tax!vars)
             PROVE  TaxInv'
  OBVIOUS
<1>1. PICK z : z = Tax!Scale
  OBVIOUS
<1>2. z \in Nat \ {0}
  BY <1>1, ScaleDivides
<1>3. ASSUME NEW amount \in Amounts, NEW rate \in Rates, Tax!TakeLine(amount, rate)
      PROVE  TaxInv'
  <2>1. PICK net : net = Tax!Taxable(amount, rate)
    OBVIOUS
  <2>2. PICK parts : parts = Tax!Shares(amount, rate)
    OBVIOUS
  <2>3. /\ net \in Int /\ parts[1] \in Int /\ parts[2] \in Int
        /\ method # "US" => net + parts[1] + parts[2] = amount * z
    BY <1>1, <2>1, <2>2, LineExact
  <2>4. PICK r : r = Tax!RoundHalfEven(net)
    OBVIOUS
  <2>5. PICK q : q = Tax!RoundHalfEven(parts[1])
    OBVIOUS
  <2>6. /\ r \in Int /\ 2 * (z * r) - 2 * net \in -z .. z
        /\ q \in Int /\ 2 * (z * q) - 2 * parts[1] \in -z .. z
    BY <1>1, <2>3, <2>4, <2>5, RoundsNear
  <2>7. /\ count' = count + 1 /\ due' = due + amount /\ taxable' = taxable + net
        /\ shares' = [i \in 1 .. 2 |-> shares[i] + parts[i]]
        /\ byLine' = [taxable |-> byLine.taxable + r, share |-> byLine.share + q]
        /\ method' = method
    BY <1>3, <2>1, <2>2, <2>4, <2>5 DEF Tax!TakeLine, Tax!Take
  <2>8. /\ count' \in Nat /\ due' \in Int /\ taxable' \in Int
        /\ shares' \in [1 .. 2 -> Int] /\ byLine' \in [taxable : Int, share : Int]
        /\ method' \in {"sale", "IN", "US", "VAT"}
    <3>1. amount \in Int
      BY DEF TaxInputs
    <3>2. \A i \in 1 .. 2 : i = 1 \/ i = 2
      OBVIOUS
    <3>3. byLine.taxable \in Int /\ byLine.share \in Int
      BY DEF TaxInv
    <3> QED
      BY <2>3, <2>6, <2>7, <3>1, <3>2, <3>3 DEF TaxInv
  <2>9. shares'[1] = shares[1] + parts[1] /\ shares'[2] = shares[2] + parts[2]
    BY <2>7
  <2>10. method' # "US" => taxable' + shares'[1] + shares'[2] = due' * Tax!Scale
    <3>1. amount \in Int /\ due \in Int /\ taxable \in Int /\ shares[1] \in Int /\ shares[2] \in Int
      BY DEF TaxInputs, TaxInv
    <3>2. (due + amount) * z = due * z + amount * z
      BY <1>2, <3>1
    <3>3. method # "US" => taxable + shares[1] + shares[2] = due * z
      BY <1>1 DEF TaxInv
    <3> HIDE DEF TaxInv
    <3>4. method # "US" => (taxable + net) + (shares[1] + parts[1]) + (shares[2] + parts[2]) = (due + amount) * z
      BY <2>3, <3>1, <3>2, <3>3
    <3> QED
      BY <1>1, <2>7, <2>9, <3>4
  <2>11. method = "sale" =>
           /\ 2 * (z * byLine'.taxable) - 2 * taxable' \in -(count' * z) .. count' * z
           /\ 2 * (z * byLine'.share) - 2 * shares'[1] \in -(count' * z) .. count' * z
    <3>1. ASSUME NEW b \in Int, NEW t \in Int, NEW y \in Int, NEW x \in Int,
                 2 * (z * b) - 2 * t \in -(count * z) .. count * z,
                 2 * (z * y) - 2 * x \in -z .. z
          PROVE  2 * (z * (b + y)) - 2 * (t + x) \in -((count + 1) * z) .. (count + 1) * z
      <4>1. z * (b + y) = z * b + z * y /\ z * b \in Int /\ z * y \in Int
        BY <1>2
      <4>2. count \in Nat /\ (count + 1) * z = count * z + z /\ count * z \in Int
        BY <1>2 DEF TaxInv
      <4> QED
        BY <1>2, <3>1, <4>1, <4>2
    <3>2. /\ byLine.taxable \in Int /\ byLine.share \in Int /\ taxable \in Int /\ shares[1] \in Int
          /\ method = "sale" =>
               /\ 2 * (z * byLine.taxable) - 2 * taxable \in -(count * z) .. count * z
               /\ 2 * (z * byLine.share) - 2 * shares[1] \in -(count * z) .. count * z
      BY <1>1 DEF TaxInv
    <3>3. byLine'.taxable = byLine.taxable + r /\ byLine'.share = byLine.share + q
      BY <2>7
    <3>4. ASSUME method = "sale"
          PROVE  2 * (z * byLine'.taxable) - 2 * taxable' \in -(count' * z) .. count' * z
      BY <2>3, <2>6, <2>7, <3>1, <3>2, <3>3, <3>4
    <3>5. ASSUME method = "sale"
          PROVE  2 * (z * byLine'.share) - 2 * shares'[1] \in -(count' * z) .. count' * z
      BY <2>3, <2>6, <2>7, <2>9, <3>1, <3>2, <3>3, <3>5
    <3> QED
      BY <3>4, <3>5
  <2> QED
    BY <1>1, <2>7, <2>8, <2>10, <2>11 DEF TaxInv
<1>4. CASE Tax!NextBasket
  <2>1. /\ count' = 0 /\ due' = 0 /\ taxable' = 0 /\ shares' = [i \in 1 .. 2 |-> 0]
        /\ byLine' = [taxable |-> 0, share |-> 0] /\ method' \in {"sale", "IN", "US", "VAT"}
    BY <1>4 DEF Tax!NextBasket, Tax!NoShares, Tax!NoLines
  <2>2. 0 * z = 0 /\ z * 0 = 0
    BY <1>2
  <2> QED
    BY <1>1, <2>1, <2>2 DEF TaxInv
<1>5. CASE UNCHANGED Tax!vars
  BY <1>5 DEF Tax!vars, TaxInv
<1> QED
  BY <1>3, <1>4, <1>5 DEF Tax!Next, Tax!AddLine

LEMMA TaxStart ==
  ASSUME TaxInputs
  PROVE  Tax!Init => TaxInv
<1>1. PICK z : z = Tax!Scale
  OBVIOUS
<1>2. z \in Nat \ {0} /\ 0 * z = 0 /\ z * 0 = 0
  BY <1>1, ScaleDivides
<1> QED
  BY <1>1, <1>2 DEF TaxInv, Tax!Init, Tax!NoShares, Tax!NoLines

LEMMA TaxHolds ==
  ASSUME TaxInputs
  PROVE  TaxInv => Tax!FiguresAgree
<1> SUFFICES ASSUME TaxInv
             PROVE  Tax!FiguresAgree
  OBVIOUS
<1>1. PICK z : z = Tax!Scale
  OBVIOUS
<1>2. z \in Nat \ {0}
  BY <1>1, ScaleDivides
<1>3. /\ taxable \in Int /\ shares[1] \in Int /\ shares[2] \in Int /\ due \in Int /\ count \in Nat
      /\ byLine.taxable \in Int /\ byLine.share \in Int
  BY DEF TaxInv
<1>4. PICK t : t = Tax!RoundHalfEven(taxable)
  OBVIOUS
<1>5. PICK one : one = Tax!RoundHalfEven(shares[1])
  OBVIOUS
<1>6. PICK two : two = Tax!RoundHalfEven(shares[2])
  OBVIOUS
<1>7. PICK both : both = Tax!Tax
  OBVIOUS
<1>8. /\ t \in Int /\ 2 * (z * t) - 2 * taxable \in -z .. z
      /\ one \in Int /\ 2 * (z * one) - 2 * shares[1] \in -z .. z
      /\ two \in Int /\ 2 * (z * two) - 2 * shares[2] \in -z .. z
  BY <1>1, <1>3, <1>4, <1>5, <1>6, RoundsNear
<1>9. both \in Int /\ 2 * (z * both) - 2 * (shares[1] + shares[2]) \in -z .. z
  <2>1. shares[1] + shares[2] \in Int
    BY <1>3
  <2> QED
    BY <1>1, <1>7, <2>1, RoundsNear DEF Tax!Tax
<1>10. /\ method # "US" => taxable + shares[1] + shares[2] = due * z
       /\ method = "sale" =>
            /\ 2 * (z * byLine.taxable) - 2 * taxable \in -(count * z) .. count * z
            /\ 2 * (z * byLine.share) - 2 * shares[1] \in -(count * z) .. count * z
  BY <1>1 DEF TaxInv
<1> HIDE DEF TaxInv
<1>11. /\ z * t \in Int /\ z * one \in Int /\ z * two \in Int /\ z * both \in Int
       /\ z * due = due * z /\ z * due \in Int /\ count * z \in Int
       /\ z * byLine.taxable \in Int /\ z * byLine.share \in Int
  BY <1>2, <1>3, <1>8, <1>9
<1>12. ASSUME method # "US" PROVE t + both - due \in -1 .. 1
  <2>1. z * (t + both - due) = z * t + z * both - z * due
    BY <1>2, <1>3, <1>8, <1>9
  <2>2. 2 * (z * (t + both - due)) \in -(2 * z) .. 2 * z
    BY <1>2, <1>3, <1>8, <1>9, <1>10, <1>11, <1>12, <2>1
  <2>3. 2 * (t + both - due) \in -2 .. 2
    <3>1. t + both - due \in Int
      BY <1>3, <1>8, <1>9
    <3> QED
      BY <1>1, <2>2, <3>1, InPaise
  <2> QED
    BY <1>3, <1>8, <1>9, <2>3
<1>13. one + two - both \in -1 .. 1
  <2>1. z * (one + two - both) = z * one + z * two - z * both
    BY <1>2, <1>8, <1>9
  <2>2. 2 * (z * (one + two - both)) \in -(3 * z) .. 3 * z
    BY <1>2, <1>3, <1>8, <1>9, <1>11, <2>1
  <2>3. 2 * (one + two - both) \in -3 .. 3
    <3>1. one + two - both \in Int
      BY <1>8, <1>9
    <3> QED
      BY <1>1, <2>2, <3>1, InPaise
  <2> QED
    BY <1>8, <1>9, <2>3
<1>14. ASSUME method = "sale" PROVE 2 * byLine.taxable - 2 * t \in -(count + 1) .. count + 1
  <2>1. z * (byLine.taxable - t) = z * byLine.taxable - z * t
    BY <1>2, <1>3, <1>8
  <2>2. (count + 1) * z = count * z + z
    BY <1>2, <1>3
  <2>3. 2 * (z * (byLine.taxable - t)) \in -((count + 1) * z) .. (count + 1) * z
    BY <1>2, <1>3, <1>8, <1>10, <1>11, <1>14, <2>1, <2>2
  <2>4. 2 * (byLine.taxable - t) \in -(count + 1) .. count + 1
    <3>1. byLine.taxable - t \in Int /\ count + 1 \in Nat
      BY <1>3, <1>8
    <3> QED
      BY <1>1, <2>3, <3>1, InPaise
  <2> QED
    BY <1>3, <1>8, <2>4
<1>15. ASSUME method = "sale" PROVE 2 * byLine.share - 2 * one \in -(count + 1) .. count + 1
  <2>1. z * (byLine.share - one) = z * byLine.share - z * one
    BY <1>2, <1>3, <1>8
  <2>2. (count + 1) * z = count * z + z
    BY <1>2, <1>3
  <2>3. 2 * (z * (byLine.share - one)) \in -((count + 1) * z) .. (count + 1) * z
    BY <1>2, <1>3, <1>8, <1>10, <1>11, <1>15, <2>1, <2>2
  <2>4. 2 * (byLine.share - one) \in -(count + 1) .. count + 1
    <3>1. byLine.share - one \in Int /\ count + 1 \in Nat
      BY <1>3, <1>8
    <3> QED
      BY <1>1, <2>3, <3>1, InPaise
  <2> QED
    BY <1>3, <1>8, <2>4
<1> QED
  <2>1. method # "US" => Tax!Near(t + both, due, 1)
    BY <1>3, <1>8, <1>9, <1>12 DEF Tax!Near
  <2>2. Tax!Near(one + two, both, 1)
    BY <1>8, <1>9, <1>13 DEF Tax!Near
  <2>3. method = "sale" => Tax!Near(2 * byLine.taxable, 2 * t, count + 1)
    BY <1>14 DEF Tax!Near
  <2>4. method = "sale" => Tax!Near(2 * byLine.share, 2 * one, count + 1)
    BY <1>15 DEF Tax!Near
  <2> QED
    BY <1>4, <1>5, <1>6, <1>7, <2>1, <2>2, <2>3, <2>4, Zenon DEF Tax!FiguresAgree

(* Whatever the amounts and the rates: the rounded figures of a basket agree.             *)
THEOREM BasketsAddUp ==
  ASSUME TaxInputs
  PROVE  Tax!Spec => []Tax!FiguresAgree
<1>1. Tax!Init => TaxInv
  BY TaxStart
<1>2. TaxInv /\ [Tax!Next]_(Tax!vars) => TaxInv'
  BY TaxStep
<1>3. TaxInv => Tax!FiguresAgree
  BY TaxHolds
<1> QED
  BY <1>1, <1>2, <1>3, PTL DEF Tax!Spec

-----------------------------------------------------------------------------
(* The types of the services: what the tables, the bounds and the requests are. *)

(* Chains: a request acts for a group that is there, of the owner whose token it has. *)
Asked(r) ==
  /\ r.op = "group" => r.by \in Owners
  /\ r.op = "member" => r.group \in Groups /\ owner[r.group] # None /\ r.store \in Stores

ChainTyped == Chains!TypeOK /\ \A t \in Threads : Asked(chainReq[t])

\* A group keeps its owner.
Owning ==
  /\ owner' \in [Groups -> Owners \cup {None}]
  /\ \A g \in Groups : owner[g] # None => owner'[g] = owner[g]

LEMMA StillAsked ==
  ASSUME ChainTyped, Owning, NEW t \in Threads, NEW r \in Chains!Request,
         chainReq' = [chainReq EXCEPT ![t] = r], Asked(r)
  PROVE  /\ chainReq' \in [Threads -> Chains!Request]
         /\ \A u \in Threads : Asked(chainReq[u])'
<1>1. /\ chainReq' \in [Threads -> Chains!Request] /\ chainReq'[t] = r
      /\ \A u \in Threads : u # t => chainReq'[u] = chainReq[u]
  BY DEF ChainTyped, Chains!TypeOK
<1>2. ASSUME NEW u \in Threads PROVE Asked(chainReq[u])'
  <2>1. PICK q : q = chainReq'[u] /\ Asked(q)
    BY <1>1 DEF ChainTyped
  <2>2. Asked(q)'
    BY <2>1 DEF Asked, Owning
  <2> QED
    BY <2>1, <2>2 DEF Asked
<1> QED
  BY <1>1, <1>2

LEMMA ChainStillTyped ==
  ASSUME None \notin Owners, ChainTyped, Owning, NEW t \in Threads, NEW r \in Chains!Request,
         chainReq' = [chainReq EXCEPT ![t] = r], Asked(r),
         UNCHANGED <<transfers, token>>, strays' \subseteq Groups,
         members' \subseteq {g \in Groups : owner'[g] # None} \X Stores, strayMembers' \subseteq members'
  PROVE  ChainTyped'
<1>1. chainReq' \in [Threads -> Chains!Request] /\ \A u \in Threads : Asked(chainReq[u])'
  BY StillAsked
<1>2. \A o \in Owners : token'[o] # None => owner'[token'[o]] = o
  BY DEF ChainTyped, Chains!TypeOK, Owning
<1> QED
  BY <1>1, <1>2 DEF ChainTyped, Chains!TypeOK, Owning

LEMMA ChainThreadsTyped ==
  ASSUME None \notin Owners, ChainTyped, NEW t \in Threads,
         \/ Chains!LookForGroup(t) \/ Chains!CreateGroup(t) \/ Chains!LookForMember(t)
         \/ Chains!AddStore(t) \/ Chains!Lose(t)
  PROVE  ChainTyped'
<1>1. /\ Chains!Idle \in Chains!Request /\ Asked(Chains!Idle)
      /\ chainReq[t] \in Chains!Request /\ Asked(chainReq[t])
  BY ChainIdle DEF ChainTyped, Chains!TypeOK, Asked
<1>2. UNCHANGED owner => Owning
  BY DEF Owning, ChainTyped, Chains!TypeOK
<1>3. /\ members \subseteq {g \in Groups : owner[g] # None} \X Stores
      /\ strays \subseteq Groups /\ strayMembers \subseteq members
      /\ owner \in [Groups -> Owners \cup {None}]
  BY DEF ChainTyped, Chains!TypeOK
<1>4. CASE Chains!LookForGroup(t)
  <2>1. PICK o \in Owners : Chains!Begin(t, Chains!Asks("group", o, None, None, Chains!Owned(o)))
    BY <1>4 DEF Chains!LookForGroup
  <2>2. PICK r : r = Chains!Asks("group", o, None, None, Chains!Owned(o))
    OBVIOUS
  <2>3. r \in Chains!Request /\ Asked(r)
    BY <2>2 DEF Chains!Asks, Chains!Request, Chains!Owned, Asked
  <2>4. chainReq' = [chainReq EXCEPT ![t] = r]
    BY <2>1, <2>2 DEF Chains!Begin
  <2>5. UNCHANGED <<owner, members, transfers, token, strays, strayMembers>>
    BY <1>4 DEF Chains!LookForGroup
  <2> QED
    BY <1>2, <1>3, <2>3, <2>4, <2>5, ChainStillTyped
<1>5. CASE Chains!CreateGroup(t)
  <2>1. PICK g \in Groups : /\ owner[g] = None
                            /\ owner' = [owner EXCEPT ![g] = chainReq[t].by]
                            /\ strays' = strays \cup Chains!Stray(g, Chains!Owned(chainReq[t].by), chainReq[t].seen)
    BY <1>5 DEF Chains!CreateGroup
  <2>2. chainReq[t].by \in Owners
    BY <1>1, <1>5 DEF Chains!CreateGroup, Asked
  <2>3. Owning
    BY <1>3, <2>1, <2>2 DEF Owning
  <2>4. chainReq' = [chainReq EXCEPT ![t] = Chains!Idle] /\ UNCHANGED <<members, transfers, token, strayMembers>>
    BY <1>5 DEF Chains!CreateGroup, Chains!End
  <2>5. strays' \subseteq Groups
    BY <1>3, <2>1 DEF Chains!Stray
  <2>6. members' \subseteq {h \in Groups : owner'[h] # None} \X Stores
    BY <1>3, <2>3, <2>4 DEF Owning
  <2> QED
    BY <1>1, <1>3, <2>3, <2>4, <2>5, <2>6, ChainStillTyped
<1>6. CASE Chains!LookForMember(t)
  <2>1. PICK o \in Owners, s \in Stores :
          token[o] # None /\ Chains!Begin(t, Chains!Asks("member", o, token[o], s, Chains!GroupsOf(s)))
    BY <1>6 DEF Chains!LookForMember
  <2>2. PICK r : r = Chains!Asks("member", o, token[o], s, Chains!GroupsOf(s))
    OBVIOUS
  <2>3. token[o] \in Groups /\ owner[token[o]] = o
    BY <2>1 DEF ChainTyped, Chains!TypeOK
  <2>4. r \in Chains!Request /\ Asked(r)
    BY <2>2, <2>3 DEF Chains!Asks, Chains!Request, Chains!GroupsOf, Asked
  <2>5. chainReq' = [chainReq EXCEPT ![t] = r]
    BY <2>1, <2>2 DEF Chains!Begin
  <2>6. UNCHANGED <<owner, members, transfers, token, strays, strayMembers>>
    BY <1>6 DEF Chains!LookForMember
  <2> QED
    BY <1>2, <1>3, <2>4, <2>5, <2>6, ChainStillTyped
<1>7. CASE Chains!AddStore(t)
  <2>1. PICK row : row = <<chainReq[t].group, chainReq[t].store>>
    OBVIOUS
  <2>2. row \in {g \in Groups : owner[g] # None} \X Stores
    BY <1>1, <1>7, <2>1 DEF Chains!AddStore, Asked
  <2>3. members' = members \cup {row} /\ strayMembers' \subseteq strayMembers \cup {row}
    BY <1>7, <2>1 DEF Chains!AddStore, Chains!Stray
  <2>4. chainReq' = [chainReq EXCEPT ![t] = Chains!Idle] /\ UNCHANGED <<owner, transfers, token, strays>>
    BY <1>7 DEF Chains!AddStore, Chains!End
  <2> QED
    BY <1>1, <1>2, <1>3, <2>2, <2>3, <2>4, ChainStillTyped
<1>8. CASE Chains!Lose(t)
  <2>1. /\ chainReq' = [chainReq EXCEPT ![t] = Chains!Idle]
        /\ UNCHANGED <<owner, members, transfers, token, strays, strayMembers>>
    BY <1>8 DEF Chains!Lose, Chains!End
  <2> QED
    BY <1>1, <1>2, <1>3, <2>1, ChainStillTyped
<1> QED
  BY <1>4, <1>5, <1>6, <1>7, <1>8

LEMMA ChainOwnersTyped ==
  ASSUME ChainTyped, NEW o \in Owners,
         Chains!Login(o) \/ Chains!RemoveStore(o) \/ Chains!CreateTransfer(o) \/ Chains!ConfirmTransfer(o)
  PROVE  ChainTyped'
<1> DEFINE T == [group : Groups, from : Stores, to : Stores, status : {"PENDING", "ACTIONED"}]
<1>1. /\ owner \in [Groups -> Owners \cup {None}] /\ token \in [Owners -> Groups \cup {None}]
      /\ transfers \in Seq(T)
      /\ \A u \in Owners : token[u] # None => owner[token[u]] = u
  BY DEF ChainTyped, Chains!TypeOK
<1>2. CASE Chains!Login(o)
  <2>1. PICK g : token' = [token EXCEPT ![o] = g] /\ (g = None \/ g \in Chains!Owned(o))
    BY <1>2 DEF Chains!Login
  <2>2. /\ token' \in [Owners -> Groups \cup {None}]
        /\ \A u \in Owners : token'[u] # None => owner[token'[u]] = u
    BY <1>1, <2>1 DEF Chains!Owned
  <2> QED
    BY <1>2, <2>2 DEF Chains!Login, ChainTyped, Chains!TypeOK, Asked
<1>3. CASE Chains!RemoveStore(o)
  BY <1>3 DEF Chains!RemoveStore, ChainTyped, Chains!TypeOK, Asked
<1>4. CASE Chains!CreateTransfer(o)
  <2>1. PICK s \in Stores, u \in Stores :
          transfers' = Append(transfers, [group |-> token[o], from |-> s, to |-> u, status |-> "PENDING"])
    BY <1>4 DEF Chains!CreateTransfer
  <2>2. token[o] \in Groups
    BY <1>1, <1>4 DEF Chains!CreateTransfer
  <2>3. [group |-> token[o], from |-> s, to |-> u, status |-> "PENDING"] \in T
    BY <2>2
  <2>4. transfers' \in Seq(T)
    BY <1>1, <2>1, <2>3
  <2> QED
    BY <1>4, <2>4 DEF Chains!CreateTransfer, ChainTyped, Chains!TypeOK, Asked
<1>5. CASE Chains!ConfirmTransfer(o)
  <2>1. PICK n \in DOMAIN transfers : transfers' = [transfers EXCEPT ![n].status = "ACTIONED"]
    BY <1>5 DEF Chains!ConfirmTransfer
  <2>2. PICK x : x = [transfers[n] EXCEPT !.status = "ACTIONED"]
    OBVIOUS
  <2>3. transfers' = [transfers EXCEPT ![n] = x]
    BY <2>1, <2>2
  <2> HIDE DEF T
  <2>4. transfers[n] \in T
    BY <1>1, <2>1
  <2>5. x \in T
    BY <2>2, <2>4 DEF T
  <2>6. transfers' \in Seq(T)
    BY <1>1, <2>1, <2>3, <2>5
  <2> QED
    BY <1>5, <2>6 DEF T, Chains!ConfirmTransfer, ChainTyped, Chains!TypeOK, Asked
<1> QED
  BY <1>2, <1>3, <1>4, <1>5

LEMMA ChainTypes ==
  ASSUME None \notin Owners
  PROVE  Chains!Spec => []Chains!TypeOK
<1>1. Chains!Init => ChainTyped
  BY ChainIdle DEF Chains!Init, ChainTyped, Chains!TypeOK, Asked
<1>2. ASSUME ChainTyped, [Chains!Next]_(Chains!vars) PROVE ChainTyped'
  <2>1. CASE UNCHANGED Chains!vars
    BY <1>2, <2>1 DEF Chains!vars, ChainTyped, Chains!TypeOK, Asked
  <2>2. CASE Chains!Next
    BY <1>2, <2>2, ChainThreadsTyped, ChainOwnersTyped DEF Chains!Next
  <2> QED
    BY <1>2, <2>1, <2>2
<1>3. ChainTyped => Chains!TypeOK
  BY DEF ChainTyped
<1> QED
  BY <1>1, <1>2, <1>3, PTL DEF Chains!Spec

(* API calls: what is in the hash was called. *)
UsageBounded == hash \in Nat /\ hash <= calls /\ calls \in 0 .. MaxCalls

LEMMA UsageTypes ==
  ASSUME IsFiniteSet(Threads), MaxCalls \in Nat
  PROVE  Usage!Spec => []Usage!TypeOK
<1>1. Usage!Init => UsageBounded
  BY DEF Usage!Init, UsageBounded
<1>2. ASSUME UsageBounded, [Usage!Next]_(Usage!vars) PROVE UsageBounded'
  <2>1. CASE Usage!Call
    BY <1>2, <2>1 DEF UsageBounded, Usage!Call
  <2>2. ASSUME NEW w \in Threads, Usage!DeleteHash(w) PROVE UsageBounded'
    BY <1>2, <2>2 DEF UsageBounded, Usage!DeleteHash
  <2>3. ASSUME UNCHANGED <<hash, calls>> PROVE UsageBounded'
    BY <1>2, <2>3 DEF UsageBounded
  <2>4. ASSUME NEW w \in Threads,
               Usage!NoHash(w) \/ Usage!ReadHash(w) \/ Usage!FindRecord(w) \/ Usage!Commit(w) \/ Usage!Fail(w)
        PROVE  UNCHANGED <<hash, calls>>
    BY <2>4 DEF Usage!NoHash, Usage!ReadHash, Usage!FindRecord, Usage!Commit, Usage!Fail, Usage!vars
  <2>5. CASE UNCHANGED Usage!vars
    BY <2>3, <2>5 DEF Usage!vars
  <2> QED
    BY <1>2, <2>1, <2>2, <2>3, <2>4, <2>5 DEF Usage!Next
<1>3. Usage!Init => UsageInv
  BY UsageStart
<1>4. UsageInv /\ [Usage!Next]_(Usage!vars) => UsageInv'
  BY UsageStep
<1>5. UsageBounded /\ UsageInv => Usage!TypeOK
  <2>1. UsageInv => \A w \in Threads : job[w].count \in Nat /\ job[w].row \in DOMAIN records \cup {None}
    BY DEF UsageInv, UsageTyped, Job
  <2> QED
    BY <2>1 DEF UsageBounded, UsageInv, UsageTyped, Usage!TypeOK
<1> QED
  BY <1>1, <1>2, <1>3, <1>4, <1>5, PTL DEF Usage!Spec

(* GST filing: the insert in flight, the mappings and the bound on crashes. *)
Mapped ==
  /\ mappings \subseteq Gst!Mapping
  /\ \A m, n \in mappings : m.category = n.category <=> m.code = n.code

GstRest ==
  /\ inserting \in Threads \cup {None} /\ Mapped
  /\ crashes \in 0 .. MaxCrashes /\ overlapped \in BOOLEAN /\ torn \in BOOLEAN

LEMMA MapsApart ==
  ASSUME Mapped, Gst!CreateMapping \/ Gst!UpdateMapping \/ Gst!DeleteMapping
  PROVE  Mapped'
<1>1. CASE Gst!CreateMapping
  <2>1. PICK m \in Gst!Mapping : Gst!Free(m, mappings) /\ mappings' = mappings \cup {m}
    BY <1>1 DEF Gst!CreateMapping
  <2> QED
    BY <2>1 DEF Mapped, Gst!Free
<1>2. CASE Gst!UpdateMapping
  <2>1. PICK m \in mappings, c \in Categories :
          /\ Gst!Free([m EXCEPT !.category = c], mappings \ {m})
          /\ mappings' = (mappings \ {m}) \cup {[m EXCEPT !.category = c]}
    BY <1>2 DEF Gst!UpdateMapping
  <2>2. PICK q : q = [m EXCEPT !.category = c]
    OBVIOUS
  <2>3. q \in Gst!Mapping
    BY <2>1, <2>2 DEF Mapped, Gst!Mapping
  <2>4. \A n \in mappings \ {m} : n.category # q.category /\ n.code # q.code
    BY <2>1, <2>2 DEF Gst!Free
  <2>5. mappings' = (mappings \ {m}) \cup {q}
    BY <2>1, <2>2
  <2> QED
    BY <2>3, <2>4, <2>5 DEF Mapped
<1>3. CASE Gst!DeleteMapping
  BY <1>3 DEF Gst!DeleteMapping, Mapped
<1> QED
  BY <1>1, <1>2, <1>3

LEMMA GstRestStep ==
  ASSUME MaxCrashes \in Nat, GstRest, [Gst!Next]_(Gst!vars)
  PROVE  GstRest'
<1>1. CASE UNCHANGED Gst!vars
  BY <1>1 DEF Gst!vars, GstRest, Mapped
<1>2. CASE Gst!Map
  BY <1>2, MapsApart DEF Gst!Map, GstRest
<1>3. ASSUME UNCHANGED <<inserting, mappings>>, UNCHANGED <<crashes, torn>>,
             \/ UNCHANGED overlapped
             \/ overlapped' = (overlapped \/ \E u \in Threads : sess[u] # Gst!Idle)
      PROVE  GstRest'
  BY <1>3 DEF GstRest, Mapped
<1>4. ASSUME NEW t \in Threads,
             Gst!ReadConfig(t) \/ Gst!RingUp(t) \/ Gst!Sum(t) \/ Gst!FindReturn(t) \/ Gst!FindInvoice(t)
      PROVE  GstRest'
  BY <1>3, <1>4 DEF Gst!ReadConfig, Gst!RingUp, Gst!Sum, Gst!FindReturn, Gst!FindInvoice, Gst!Begin, Gst!books
<1>5. ASSUME NEW t \in Threads,
             \/ Gst!PutConfig(t) \/ Gst!RecordSale(t) \/ Gst!FindPeriod(t) \/ Gst!List(t) \/ Gst!WriteFile(t)
             \/ Gst!CommitCompiled(t) \/ Gst!LoadFile(t) \/ Gst!StampFile(t)
             \/ Gst!DraftInvoice(t) \/ Gst!AcceptInvoice(t)
      PROVE  GstRest'
  BY <1>3, <1>5 DEF Gst!PutConfig, Gst!RecordSale, Gst!FindPeriod, Gst!List, Gst!WriteFile, Gst!CommitCompiled,
     Gst!LoadFile, Gst!StampFile, Gst!DraftInvoice, Gst!AcceptInvoice, Gst!End, Gst!Go, Gst!books
<1>6. ASSUME NEW t \in Threads, Gst!InsertReturn(t) \/ Gst!CommitFiled(t)
      PROVE  GstRest'
  BY <1>6 DEF Gst!InsertReturn, Gst!CommitFiled, Gst!End, Gst!Go, GstRest, Mapped
<1>7. ASSUME NEW t \in Threads, Gst!Crash(t)
      PROVE  GstRest'
  <2>1. /\ inserting' = None \/ inserting' = inserting
        /\ crashes < MaxCrashes /\ crashes' = crashes + 1
        /\ torn' = (torn \/ sess[t].wrote)
        /\ UNCHANGED <<mappings, overlapped>>
    BY <1>7 DEF Gst!Crash
  <2> QED
    BY <2>1 DEF GstRest, Mapped
<1> QED
  BY <1>1, <1>2, <1>4, <1>5, <1>6, <1>7 DEF Gst!Next

LEMMA GstTypes ==
  ASSUME None \notin Gst!File, Configs \subseteq BOOLEAN, MaxCrashes \in Nat
  PROVE  Gst!Spec => []Gst!TypeOK
<1>1. Gst!Init => GstRest
  <2>1. 0 \in 0 .. MaxCrashes
    OBVIOUS
  <2>2. Gst!Init => Mapped
    BY DEF Gst!Init, Mapped
  <2> QED
    BY <2>1, <2>2 DEF Gst!Init, GstRest
<1>2. GstRest /\ [Gst!Next]_(Gst!vars) => GstRest'
  BY GstRestStep
<1>3. GstAll /\ GstRest => Gst!TypeOK
  <2>1. GstAll => \A t \in Threads : sess[t].counted \subseteq Sales /\ sess[t].listed \subseteq Sales
    BY DEF GstAll, GstInv, GstTyped, GstSession
  <2> QED
    BY <2>1 DEF GstAll, GstInv, GstTyped, GstBooks, GstRest, Mapped, Gst!TypeOK
<1> QED
  BY <1>1, <1>2, <1>3, GstHolds, PTL DEF Gst!Spec

(* Signing in: a request that is to make a code or a token has room for it. *)
ToCode == {t \in Threads : signing[t].at \in {"insert", "store"}}
ToIssue == {t \in Threads : signing[t].at \in {"use", "activate", "rotate", "issue"}}
Coding(r) == IF r.at \in {"insert", "store"} THEN 1 ELSE 0
Tokening(r) == IF r.at \in {"use", "activate", "rotate", "issue"} THEN 1 ELSE 0

SignPlain ==
  /\ user \in {None, "inactive", "active"} /\ adding \in Threads \cup {None}
  /\ code \in Signing!CodeIds \cup {None} /\ inbox \subseteq Signing!CodeIds /\ spent \subseteq Signing!CodeIds
  /\ faults \in 0 .. MaxFaults /\ crowded \in BOOLEAN

Holding(r) == r.at \in {"mail", "use"} => r.code \in Signing!CodeIds

SignRoom ==
  /\ made.codes + Cardinality(ToCode) <= MaxCodes
  /\ made.tokens + Cardinality(ToIssue) <= MaxTokens

SignBounds == SignPlain /\ SignRoom /\ \A t \in Threads : Holding(signing[t])

\* A set that differs in one element at most.
LEMMA CountMoves ==
  ASSUME NEW A, NEW B, NEW x, IsFiniteSet(A), B \ {x} = A \ {x}
  PROVE  /\ Cardinality(A) \in Nat /\ Cardinality(B) \in Nat
         /\ x \in B /\ x \notin A => Cardinality(B) = Cardinality(A) + 1
         /\ x \in A /\ x \notin B => Cardinality(B) = Cardinality(A) - 1
         /\ (x \in A <=> x \in B) => Cardinality(B) = Cardinality(A)
<1>1. CASE x \in B /\ x \notin A
  <2>1. B = A \cup {x}
    BY <1>1
  <2> QED
    BY <1>1, <2>1, FS_AddElement, FS_CardinalityType
<1>2. CASE x \in A /\ x \notin B
  <2>1. B = A \ {x}
    BY <1>2
  <2> QED
    BY <1>2, <2>1, FS_RemoveElement, FS_CardinalityType
<1>3. CASE x \in A <=> x \in B
  <2>1. B = A
    BY <1>3
  <2> QED
    BY <1>3, <2>1, FS_CardinalityType
<1> QED
  BY <1>1, <1>2, <1>3

LEMMA RoomMoves ==
  ASSUME IsFiniteSet(Threads), SignTyped, NEW t \in Threads, NEW r \in SignSession,
         signing' = [signing EXCEPT ![t] = r]
  PROVE  /\ Cardinality(ToCode) \in Nat /\ Cardinality(ToIssue) \in Nat
         /\ Cardinality(ToCode') = Cardinality(ToCode) + Coding(r) - Coding(signing[t])
         /\ Cardinality(ToIssue') = Cardinality(ToIssue) + Tokening(r) - Tokening(signing[t])
<1>1. signing'[t] = r /\ \A u \in Threads : u # t => signing'[u] = signing[u]
  BY DEF SignTyped
<1>2. IsFiniteSet(ToCode) /\ IsFiniteSet(ToIssue)
  BY FS_Subset DEF ToCode, ToIssue
<1>3. ToCode' \ {t} = ToCode \ {t} /\ ToIssue' \ {t} = ToIssue \ {t}
  BY <1>1 DEF ToCode, ToIssue
<1>4. /\ t \in ToCode <=> Coding(signing[t]) = 1
      /\ t \in ToCode' <=> Coding(r) = 1
      /\ Coding(r) \in {0, 1} /\ Coding(signing[t]) \in {0, 1}
  BY <1>1 DEF ToCode, Coding
<1>5. /\ t \in ToIssue <=> Tokening(signing[t]) = 1
      /\ t \in ToIssue' <=> Tokening(r) = 1
      /\ Tokening(r) \in {0, 1} /\ Tokening(signing[t]) \in {0, 1}
  BY <1>1 DEF ToIssue, Tokening
<1>6. /\ Cardinality(ToCode) \in Nat
      /\ Cardinality(ToCode') = Cardinality(ToCode) + Coding(r) - Coding(signing[t])
  BY <1>2, <1>3, <1>4, CountMoves
<1>7. /\ Cardinality(ToIssue) \in Nat
      /\ Cardinality(ToIssue') = Cardinality(ToIssue) + Tokening(r) - Tokening(signing[t])
  BY <1>2, <1>3, <1>5, CountMoves
<1> QED
  BY <1>6, <1>7

\* A thread moves and makes room for what it makes, or asked for more room.
LEMMA SignFits ==
  ASSUME IsFiniteSet(Threads), MaxCodes \in Nat, MaxTokens \in Nat,
         SignTyped, SignTyped', SignBounds, SignPlain',
         NEW t \in Threads, NEW r \in SignSession, signing' = [signing EXCEPT ![t] = r], Holding(r),
         \/ made'.codes + Coding(r) <= made.codes + Coding(signing[t])
         \/ Signing!MoreCodes /\ made'.codes = made.codes,
         \/ made'.tokens + Tokening(r) <= made.tokens + Tokening(signing[t])
         \/ Signing!MoreTokens /\ made'.tokens = made.tokens
  PROVE  SignBounds'
<1>1. signing'[t] = r /\ \A u \in Threads : u # t => signing'[u] = signing[u]
  BY DEF SignTyped
<1>2. /\ Signing!MoreCodes => made.codes + Cardinality(ToCode) < MaxCodes
      /\ Signing!MoreTokens => made.tokens + Cardinality(ToIssue) < MaxTokens
  BY Counts DEF Signing!MoreCodes, Signing!MoreTokens, Signing!Pending, ToCode, ToIssue
<1>3. /\ Cardinality(ToCode) \in Nat /\ Cardinality(ToIssue) \in Nat
      /\ Cardinality(ToCode') = Cardinality(ToCode) + Coding(r) - Coding(signing[t])
      /\ Cardinality(ToIssue') = Cardinality(ToIssue) + Tokening(r) - Tokening(signing[t])
  BY RoomMoves
<1>4. /\ Coding(r) \in {0, 1} /\ Coding(signing[t]) \in {0, 1}
      /\ Tokening(r) \in {0, 1} /\ Tokening(signing[t]) \in {0, 1}
  BY DEF Coding, Tokening
<1>5. /\ made.codes \in Nat /\ made'.codes \in Nat /\ made.tokens \in Nat /\ made'.tokens \in Nat
      /\ MaxCodes \in Nat /\ MaxTokens \in Nat
  BY DEF SignTyped
<1>6. made'.codes + Cardinality(ToCode') <= MaxCodes
  BY <1>2, <1>3, <1>4, <1>5 DEF SignBounds, SignRoom
<1>7. made'.tokens + Cardinality(ToIssue') <= MaxTokens
  BY <1>2, <1>3, <1>4, <1>5 DEF SignBounds, SignRoom
<1>8. \A u \in Threads : Holding(signing[u])'
  BY <1>1 DEF SignBounds, Holding
<1> QED
  BY <1>6, <1>7, <1>8 DEF SignBounds, SignRoom

\* What the stages ask for.
LEMMA StagesAsk ==
  ASSUME NEW r
  PROVE  /\ r.at \in {"none", "mail", "commit"} => Coding(r) = 0 /\ Tokening(r) = 0
         /\ r.at \in {"insert", "store"} => Coding(r) = 1 /\ Tokening(r) = 0
         /\ r.at \in {"use", "activate", "rotate", "issue"} => Coding(r) = 0 /\ Tokening(r) = 1
         /\ r.at \notin {"mail", "use"} => Holding(r)
  BY DEF Coding, Tokening, Holding

LEMMA CodesFit ==
  ASSUME IsFiniteSet(Threads), MaxCodes \in Nat, MaxTokens \in Nat, MaxFaults \in Nat,
         SignTyped, SignTyped', SignBounds, NEW t \in Threads,
         \/ Signing!FindNobody(t) \/ Signing!InsertUser(t) \/ Signing!FindUser(t) \/ Signing!StoreCode(t)
         \/ Signing!MailCode(t) \/ Signing!CommitUser(t)
  PROVE  SignBounds'
<1>1. SignPlain /\ Holding(signing[t]) /\ signing[t] \in SignSession /\ made.codes \in Nat /\ made.tokens \in Nat
  BY DEF SignBounds, SignTyped
<1>2. PICK idle : idle = Signing!Idle
  OBVIOUS
<1>3. idle \in SignSession /\ Holding(idle) /\ Coding(idle) = 0 /\ Tokening(idle) = 0
  BY <1>2, SignIdle, StagesAsk
<1>4. CASE Signing!FindNobody(t) \/ Signing!FindUser(t)
  <2>1. PICK r : /\ Signing!Begin(t, r)
                 /\ \/ r = Signing!Asks("register", "insert", None, None)
                    \/ r = Signing!Asks("resend", "store", None, None)
    BY <1>4 DEF Signing!FindNobody, Signing!FindUser
  <2>2. r \in SignSession /\ r.at \in {"insert", "store"}
    BY <2>1 DEF Signing!Asks, SignSession, Stages
  <2>3. signing' = [signing EXCEPT ![t] = r] /\ signing[t].at = "none" /\ crowded' \in BOOLEAN
    BY <2>1, SignIdle DEF Signing!Begin
  <2>4. UNCHANGED <<user, adding, code, inbox, made, faults, spent>> /\ Signing!MoreCodes
    BY <1>4 DEF Signing!FindNobody, Signing!FindUser
  <2>5. SignPlain'
    BY <1>1, <2>3, <2>4 DEF SignPlain
  <2>9. /\ Signing!MoreCodes /\ made'.codes = made.codes
        /\ made'.tokens + Tokening(r) <= made.tokens + Tokening(signing[t])
    BY <1>1, <2>2, <2>3, <2>4, <2>5, StagesAsk
  <2>10. r \in SignSession /\ Holding(r) /\ signing' = [signing EXCEPT ![t] = r] /\ SignPlain'
    BY <1>1, <2>2, <2>3, <2>4, <2>5, StagesAsk
  <2> QED
    BY <2>9, <2>10, SignFits
<1>5. CASE Signing!InsertUser(t)
  <2>1. PICK r : /\ signing' = [signing EXCEPT ![t] = r]
                 /\ r = idle \/ r = [signing[t] EXCEPT !.at = "store"]
    BY <1>2, <1>5 DEF Signing!InsertUser, Signing!GoTo, Signing!End
  <2>2. r \in SignSession /\ r.at \in {"none", "store"}
    BY <1>1, <1>2, <2>1, SignIdle DEF SignSession, Stages
  <2>3. /\ signing[t].at = "insert" /\ (adding' = t \/ adding' = adding)
        /\ UNCHANGED <<user, code, inbox, made, faults, spent, crowded>>
    BY <1>5 DEF Signing!InsertUser, Signing!At, Signing!GoTo, Signing!End
  <2>4. SignPlain'
    BY <1>1, <2>3 DEF SignPlain
  <2>9. /\ made'.codes + Coding(r) <= made.codes + Coding(signing[t])
        /\ made'.tokens + Tokening(r) <= made.tokens + Tokening(signing[t])
    BY <1>1, <2>1, <2>2, <2>3, <2>4, StagesAsk
  <2>10. r \in SignSession /\ Holding(r) /\ signing' = [signing EXCEPT ![t] = r] /\ SignPlain'
    BY <1>1, <2>1, <2>2, <2>3, <2>4, StagesAsk
  <2> QED
    BY <2>9, <2>10, SignFits
<1>6. CASE Signing!StoreCode(t)
  <2>1. PICK n : n = made.codes + 1
    OBVIOUS
  <2>2. PICK r : r = [signing[t] EXCEPT !.at = "mail", !.code = n]
    OBVIOUS
  <2>3. /\ signing[t].at = "store" /\ signing' = [signing EXCEPT ![t] = r]
        /\ made' = [made EXCEPT !.codes = n]
        /\ \/ code' = n /\ faults' = faults
           \/ code' = code /\ faults < MaxFaults /\ faults' = faults + 1
        /\ UNCHANGED <<user, adding, inbox, spent, crowded>>
    BY <1>6, <2>1, <2>2 DEF Signing!StoreCode, Signing!At, Signing!Works, Signing!Fails
  <2>4. n \in Nat /\ r \in SignSession /\ r.at = "mail" /\ r.code = n
    <3>1. n \in Nat /\ "mail" \in Stages
      BY <1>1, <2>1 DEF Stages
    <3> QED
      BY <1>1, <2>2, <3>1 DEF SignSession
  <2>5. made'.codes = n /\ made'.tokens = made.tokens
    BY <2>3 DEF SignTyped
  <2>6. n \in Signing!CodeIds
    <3>1. Coding(signing[t]) = 1 /\ Coding(r) = 0
      BY <2>3, <2>4, StagesAsk
    <3>2. Cardinality(ToCode) \in Nat /\ Cardinality(ToCode) # 0
      <4>1. IsFiniteSet(ToCode) /\ t \in ToCode
        BY <2>3, FS_Subset DEF ToCode
      <4> QED
        BY <4>1, FS_CardinalityType, FS_EmptySet
    <3> QED
      BY <1>1, <2>1, <3>2 DEF Signing!CodeIds, SignBounds, SignRoom
  <2>7. SignPlain'
    BY <1>1, <2>3, <2>6 DEF SignPlain
  <2>8. Holding(r)
    BY <2>4, <2>6 DEF Holding
  <2>9. /\ made'.codes + Coding(r) <= made.codes + Coding(signing[t])
        /\ made'.tokens + Tokening(r) <= made.tokens + Tokening(signing[t])
    BY <1>1, <2>1, <2>3, <2>4, <2>5, <2>7, <2>8, StagesAsk
  <2>10. r \in SignSession /\ Holding(r) /\ signing' = [signing EXCEPT ![t] = r] /\ SignPlain'
    BY <1>1, <2>1, <2>3, <2>4, <2>5, <2>7, <2>8, StagesAsk
  <2> QED
    BY <2>9, <2>10, SignFits
<1>7. CASE Signing!MailCode(t)
  <2>1. PICK r : /\ signing' = [signing EXCEPT ![t] = r]
                 /\ r = idle \/ r = [signing[t] EXCEPT !.at = "commit"]
    BY <1>2, <1>7 DEF Signing!MailCode, Signing!GoTo, Signing!End
  <2>2. r \in SignSession /\ r.at \in {"none", "commit"}
    BY <1>1, <1>2, <2>1, SignIdle DEF SignSession, Stages
  <2>3. /\ signing[t].at = "mail" /\ adding' \in {adding, None}
        /\ inbox' \subseteq inbox \cup {signing[t].code}
        /\ faults' = faults \/ (faults < MaxFaults /\ faults' = faults + 1)
        /\ UNCHANGED <<user, code, made, spent, crowded>>
    BY <1>7 DEF Signing!MailCode, Signing!At, Signing!GoTo, Signing!End, Signing!Works, Signing!Fails
  <2>4. signing[t].code \in Signing!CodeIds
    BY <1>1, <2>3 DEF Holding
  <2>5. SignPlain'
    BY <1>1, <2>3, <2>4 DEF SignPlain
  <2>9. /\ made'.codes + Coding(r) <= made.codes + Coding(signing[t])
        /\ made'.tokens + Tokening(r) <= made.tokens + Tokening(signing[t])
    BY <1>1, <2>1, <2>2, <2>3, <2>5, StagesAsk
  <2>10. r \in SignSession /\ Holding(r) /\ signing' = [signing EXCEPT ![t] = r] /\ SignPlain'
    BY <1>1, <2>1, <2>2, <2>3, <2>5, StagesAsk
  <2> QED
    BY <2>9, <2>10, SignFits
<1>8. CASE Signing!CommitUser(t)
  <2>1. /\ signing' = [signing EXCEPT ![t] = idle] /\ signing[t].at = "commit"
        /\ user' = "inactive" /\ adding' = None
        /\ UNCHANGED <<code, inbox, made, faults, spent, crowded>>
    BY <1>2, <1>8 DEF Signing!CommitUser, Signing!At, Signing!End
  <2>2. SignPlain'
    BY <1>1, <2>1 DEF SignPlain
  <2>9. /\ made'.codes + Coding(idle) <= made.codes + Coding(signing[t])
        /\ made'.tokens + Tokening(idle) <= made.tokens + Tokening(signing[t])
    BY <1>1, <1>3, <2>1, <2>2, StagesAsk
  <2>10. idle \in SignSession /\ Holding(idle) /\ signing' = [signing EXCEPT ![t] = idle] /\ SignPlain'
    BY <1>1, <1>3, <2>1, <2>2
  <2> QED
    BY <2>9, <2>10, SignFits
<1> QED
  BY <1>4, <1>5, <1>6, <1>7, <1>8

LEMMA TokensFit ==
  ASSUME IsFiniteSet(Threads), MaxCodes \in Nat, MaxTokens \in Nat, MaxFaults \in Nat,
         SignTyped, SignTyped', SignBounds, NEW t \in Threads,
         \/ Signing!CheckCode(t) \/ Signing!UseCode(t) \/ Signing!Activate(t) \/ Signing!IssueToken(t)
         \/ Signing!FindToken(t) \/ Signing!Rotate(t) \/ Signing!Crash(t)
  PROVE  SignBounds'
<1>1. SignPlain /\ Holding(signing[t]) /\ signing[t] \in SignSession /\ made.codes \in Nat /\ made.tokens \in Nat
  BY DEF SignBounds, SignTyped
<1>2. PICK idle : idle = Signing!Idle
  OBVIOUS
<1>3. idle \in SignSession /\ Holding(idle) /\ Coding(idle) = 0 /\ Tokening(idle) = 0
  BY <1>2, SignIdle, StagesAsk
<1>4. CASE Signing!CheckCode(t) \/ Signing!FindToken(t)
  <2>1. PICK r : /\ Signing!Begin(t, r)
                 /\ \/ \E c \in inbox : r = Signing!Asks("verify", "use", c, None)
                    \/ \E n \in refreshTokens : r = Signing!Asks("refresh", "rotate", None, n)
    BY <1>4 DEF Signing!CheckCode, Signing!FindToken
  <2>2. \A c \in inbox : c \in Nat /\ c \in Signing!CodeIds
    <3>1. \A c \in Signing!CodeIds : c \in Nat
      BY DEF Signing!CodeIds
    <3> QED
      BY <1>1, <3>1 DEF SignPlain
  <2>3. \A n \in refreshTokens : n \in Nat
    BY DEF SignTyped
  <2>4. r \in SignSession /\ r.at \in {"use", "rotate"} /\ Holding(r)
    <3>1. CASE \E c \in inbox : r = Signing!Asks("verify", "use", c, None)
      BY <2>2, <3>1 DEF Signing!Asks, SignSession, Stages, Holding
    <3>2. CASE \E n \in refreshTokens : r = Signing!Asks("refresh", "rotate", None, n)
      BY <2>3, <3>2 DEF Signing!Asks, SignSession, Stages, Holding
    <3> QED
      BY <2>1, <3>1, <3>2
  <2>5. signing' = [signing EXCEPT ![t] = r] /\ signing[t].at = "none" /\ crowded' \in BOOLEAN
    BY <2>1, SignIdle DEF Signing!Begin
  <2>6. UNCHANGED <<user, adding, code, inbox, made, faults, spent>> /\ Signing!MoreTokens
    BY <1>4 DEF Signing!CheckCode, Signing!FindToken
  <2>7. SignPlain'
    BY <1>1, <2>5, <2>6 DEF SignPlain
  <2>9. /\ made'.codes + Coding(r) <= made.codes + Coding(signing[t])
        /\ Signing!MoreTokens /\ made'.tokens = made.tokens
    BY <1>1, <2>4, <2>5, <2>6, <2>7, StagesAsk
  <2>10. r \in SignSession /\ Holding(r) /\ signing' = [signing EXCEPT ![t] = r] /\ SignPlain'
    BY <1>1, <2>4, <2>5, <2>6, <2>7, StagesAsk
  <2> QED
    BY <2>9, <2>10, SignFits
<1>5. CASE Signing!UseCode(t)
  <2>1. PICK r : /\ signing' = [signing EXCEPT ![t] = r]
                 /\ r = idle \/ r = [signing[t] EXCEPT !.at = "activate"]
    BY <1>2, <1>5 DEF Signing!UseCode, Signing!GoTo, Signing!End
  <2>2. r \in SignSession /\ r.at \in {"none", "activate"}
    BY <1>1, <1>2, <2>1, SignIdle DEF SignSession, Stages
  <2>3. /\ signing[t].at = "use" /\ code' \in {code, None}
        /\ spent' \subseteq spent \cup {signing[t].code}
        /\ faults' = faults \/ (faults < MaxFaults /\ faults' = faults + 1)
        /\ UNCHANGED <<user, adding, inbox, made, crowded>>
    BY <1>5 DEF Signing!UseCode, Signing!At, Signing!GoTo, Signing!End, Signing!Works, Signing!Fails
  <2>4. signing[t].code \in Signing!CodeIds
    BY <1>1, <2>3 DEF Holding
  <2>5. SignPlain'
    BY <1>1, <2>3, <2>4 DEF SignPlain
  <2>9. /\ made'.codes + Coding(r) <= made.codes + Coding(signing[t])
        /\ made'.tokens + Tokening(r) <= made.tokens + Tokening(signing[t])
    BY <1>1, <2>1, <2>2, <2>3, <2>5, StagesAsk
  <2>10. r \in SignSession /\ Holding(r) /\ signing' = [signing EXCEPT ![t] = r] /\ SignPlain'
    BY <1>1, <2>1, <2>2, <2>3, <2>5, StagesAsk
  <2> QED
    BY <2>9, <2>10, SignFits
<1>6. CASE Signing!Activate(t) \/ Signing!Rotate(t)
  <2>1. PICK r : /\ signing' = [signing EXCEPT ![t] = r]
                 /\ r = idle \/ r = [signing[t] EXCEPT !.at = "issue"]
    BY <1>2, <1>6 DEF Signing!Activate, Signing!Rotate, Signing!GoTo, Signing!End
  <2>2. r \in SignSession /\ r.at \in {"none", "issue"}
    BY <1>1, <1>2, <2>1, SignIdle DEF SignSession, Stages
  <2>3. /\ signing[t].at \in {"activate", "rotate"} /\ (user' = user \/ user' = "active")
        /\ faults' = faults \/ (faults < MaxFaults /\ faults' = faults + 1)
        /\ UNCHANGED <<adding, code, inbox, spent, made, crowded>>
    BY <1>6 DEF Signing!Activate, Signing!Rotate, Signing!At, Signing!GoTo, Signing!End, Signing!Works, Signing!Fails
  <2>4. SignPlain'
    BY <1>1, <2>3 DEF SignPlain
  <2>9. /\ made'.codes + Coding(r) <= made.codes + Coding(signing[t])
        /\ made'.tokens + Tokening(r) <= made.tokens + Tokening(signing[t])
    BY <1>1, <2>1, <2>2, <2>3, <2>4, StagesAsk
  <2>10. r \in SignSession /\ Holding(r) /\ signing' = [signing EXCEPT ![t] = r] /\ SignPlain'
    BY <1>1, <2>1, <2>2, <2>3, <2>4, StagesAsk
  <2> QED
    BY <2>9, <2>10, SignFits
<1>7. CASE Signing!IssueToken(t)
  <2>1. /\ signing' = [signing EXCEPT ![t] = idle] /\ signing[t].at = "issue"
        /\ made' = [made EXCEPT !.tokens = made.tokens + 1]
        /\ faults' = faults \/ (faults < MaxFaults /\ faults' = faults + 1)
        /\ UNCHANGED <<user, adding, code, inbox, spent, crowded>>
    BY <1>2, <1>7 DEF Signing!IssueToken, Signing!At, Signing!End, Signing!Works, Signing!Fails
  <2>2. made'.tokens = made.tokens + 1 /\ made'.codes = made.codes
    BY <2>1 DEF SignTyped
  <2>3. SignPlain'
    BY <1>1, <2>1 DEF SignPlain
  <2>9. /\ made'.codes + Coding(idle) <= made.codes + Coding(signing[t])
        /\ made'.tokens + Tokening(idle) <= made.tokens + Tokening(signing[t])
    BY <1>1, <1>3, <2>1, <2>2, <2>3, StagesAsk
  <2>10. idle \in SignSession /\ Holding(idle) /\ signing' = [signing EXCEPT ![t] = idle] /\ SignPlain'
    BY <1>1, <1>3, <2>1, <2>2, <2>3
  <2> QED
    BY <2>9, <2>10, SignFits
<1>8. CASE Signing!Crash(t)
  <2>1. /\ signing' = [signing EXCEPT ![t] = idle]
        /\ faults < MaxFaults /\ faults' = faults + 1 /\ adding' \in {adding, None}
        /\ UNCHANGED <<user, code, inbox, spent, made, crowded>>
    BY <1>2, <1>8 DEF Signing!Crash, Signing!End, Signing!Fails
  <2>2. SignPlain'
    BY <1>1, <2>1 DEF SignPlain
  <2>3. Coding(signing[t]) \in {0, 1} /\ Tokening(signing[t]) \in {0, 1}
    BY DEF Coding, Tokening
  <2>9. /\ made'.codes + Coding(idle) <= made.codes + Coding(signing[t])
        /\ made'.tokens + Tokening(idle) <= made.tokens + Tokening(signing[t])
    BY <1>1, <1>3, <2>1, <2>2, <2>3
  <2>10. idle \in SignSession /\ Holding(idle) /\ signing' = [signing EXCEPT ![t] = idle] /\ SignPlain'
    BY <1>1, <1>3, <2>1, <2>2, <2>3
  <2> QED
    BY <2>9, <2>10, SignFits
<1> QED
  BY <1>4, <1>5, <1>6, <1>7, <1>8

LEMMA SignTypes ==
  ASSUME IsFiniteSet(Threads), MaxCodes \in Nat, MaxTokens \in Nat, MaxFaults \in Nat
  PROVE  Signing!Spec => []Signing!TypeOK
<1>1. Signing!Init => TokensInv
  BY SignInit
<1>2. TokensInv /\ [Signing!Next]_(Signing!vars) => TokensInv'
  BY SignStep
<1>3. Signing!Init => SignBounds
  <2> SUFFICES ASSUME Signing!Init PROVE SignBounds
    OBVIOUS
  <2>1. \A t \in Threads : signing[t] = Signing!Idle
    BY DEF Signing!Init
  <2>2. ToCode = {} /\ ToIssue = {}
    BY <2>1, SignIdle DEF ToCode, ToIssue
  <2>3. SignRoom
    BY <2>2, FS_EmptySet DEF Signing!Init, SignRoom
  <2>4. SignPlain
    <3>1. 0 \in 0 .. MaxFaults
      OBVIOUS
    <3> QED
      BY <3>1 DEF Signing!Init, SignPlain
  <2> QED
    BY <2>1, <2>3, <2>4, SignIdle DEF SignBounds, Holding
<1>4. ASSUME TokensInv, TokensInv', SignBounds, [Signing!Next]_(Signing!vars)
      PROVE  SignBounds'
  <2>1. SignTyped /\ SignTyped'
    BY <1>4 DEF TokensInv
  <2>2. ASSUME UNCHANGED <<signing, user, adding, inbox, made, faults, crowded>>,
               code' \in {code, None},
               (spent' \subseteq spent \cup {code} /\ code # None) \/ spent' = spent
        PROVE  SignBounds'
    <3>1. SignPlain'
      BY <1>4, <2>2 DEF SignBounds, SignPlain
    <3>2. ToCode' = ToCode /\ ToIssue' = ToIssue
      BY <2>2 DEF ToCode, ToIssue
    <3> QED
      BY <1>4, <2>2, <3>1, <3>2 DEF SignBounds, SignRoom, Holding
  <2>3. CASE Signing!ExpireCode \/ Signing!DropToken \/ UNCHANGED Signing!vars
    BY <2>2, <2>3 DEF Signing!ExpireCode, Signing!DropToken, Signing!vars
  <2>4. ASSUME NEW t \in Threads, Signing!Refuse(t) PROVE SignBounds'
    BY <2>2, <2>4 DEF Signing!Refuse, Signing!vars
  <2>5. ASSUME NEW t \in Threads,
               \/ Signing!FindNobody(t) \/ Signing!InsertUser(t) \/ Signing!FindUser(t) \/ Signing!StoreCode(t)
               \/ Signing!MailCode(t) \/ Signing!CommitUser(t)
        PROVE  SignBounds'
    BY <1>4, <2>1, <2>5, CodesFit
  <2>6. ASSUME NEW t \in Threads,
               \/ Signing!CheckCode(t) \/ Signing!UseCode(t) \/ Signing!Activate(t) \/ Signing!IssueToken(t)
               \/ Signing!FindToken(t) \/ Signing!Rotate(t) \/ Signing!Crash(t)
        PROVE  SignBounds'
    BY <1>4, <2>1, <2>6, TokensFit
  <2> QED
    BY <1>4, <2>3, <2>4, <2>5, <2>6 DEF Signing!Next
<1>5. TokensInv /\ SignBounds => Signing!TypeOK
  <2> SUFFICES ASSUME TokensInv, SignBounds PROVE Signing!TypeOK
    OBVIOUS
  <2>1. IsFiniteSet(ToCode) /\ IsFiniteSet(ToIssue)
    BY FS_Subset DEF ToCode, ToIssue
  <2>2. Cardinality(ToCode) \in Nat /\ Cardinality(ToIssue) \in Nat
    BY <2>1, FS_CardinalityType
  <2>3. made.codes \in 0 .. MaxCodes /\ made.tokens \in 0 .. MaxTokens
    BY <2>2 DEF TokensInv, SignTyped, SignBounds, SignRoom
  <2>4. made \in [codes : 0 .. MaxCodes, tokens : 0 .. MaxTokens] /\ refreshTokens \subseteq 1 .. MaxTokens
    BY <2>3 DEF TokensInv, SignTyped
  <2> QED
    BY <2>4 DEF TokensInv, SignTyped, SignBounds, SignPlain, Signing!TypeOK
<1> QED
  BY <1>1, <1>2, <1>3, <1>4, <1>5, PTL DEF Signing!Spec

(* Tax figures: no amount is below zero. *)
TaxAmounts == TaxInputs /\ Amounts \subseteq Nat /\ Local \in Nat /\ MaxLines \in Nat

TaxTyped ==
  /\ count \in 0 .. MaxLines /\ due \in Nat /\ taxable \in Nat
  /\ shares \in [1 .. 2 -> Nat] /\ byLine \in [taxable : Nat, share : Nat]

LEMMA RoundsUp ==
  ASSUME TaxInputs, NEW n \in Nat
  PROVE  Tax!RoundHalfEven(n) \in Nat
<1>1. PICK z : z = Tax!Scale
  OBVIOUS
<1>2. z \in Nat \ {0}
  BY <1>1, ScaleDivides
<1>3. n \div z \in Nat
  BY <1>2
<1>4. Tax!RoundHalfEven(n) \in {n \div z, n \div z + 1}
  BY <1>1 DEF Tax!RoundHalfEven
<1> QED
  BY <1>3, <1>4

\* The price has room for its net and for both its taxes.
LEMMA LineTyped ==
  ASSUME TaxAmounts, method \in {"sale", "IN", "US", "VAT"}, NEW amount \in Amounts, NEW rate \in Rates
  PROVE  /\ Tax!Taxable(amount, rate) \in Nat
         /\ Tax!Shares(amount, rate)[1] \in Nat /\ Tax!Shares(amount, rate)[2] \in Nat
<1>1. PICK z : z = Tax!Scale
  OBVIOUS
<1>2. z \in Nat \ {0} /\ \E k \in Nat : z = (100 + rate) * k
  BY <1>1, ScaleDivides DEF TaxAmounts
<1>3. amount \in Nat /\ rate \in Nat /\ Local \in Nat
  BY DEF TaxAmounts, TaxInputs
<1>4. PICK net : net = Tax!Taxable(amount, rate)
  OBVIOUS
<1>5. PICK tax : tax = amount * z - net
  OBVIOUS
<1>6. \A x, y \in Nat : x * y \in Nat
  OBVIOUS
<1>7. amount * z \in Nat
  BY <1>2, <1>3, <1>6
<1>8. net \in Nat /\ tax \in Nat
  <2>1. CASE method = "US"
    BY <1>1, <1>4, <1>5, <1>7, <2>1 DEF Tax!Taxable
  <2>2. CASE method # "US"
    <3>1. PICK k \in Nat : z = (100 + rate) * k
      BY <1>2
    <3>2. z \div (100 + rate) = k
      BY <1>3, <3>1
    <3>3. net = 100 * amount * k
      BY <1>1, <1>4, <2>2, <3>2 DEF Tax!Taxable
    <3>4. amount * k \in Nat /\ rate * (amount * k) \in Nat
      BY <1>3, <1>6, <3>1
    <3>5. 100 * amount * k = 100 * (amount * k)
      BY <1>3, <3>1
    <3>6. amount * ((100 + rate) * k) = 100 * (amount * k) + rate * (amount * k)
      BY <1>3, <3>1
    <3>7. tax = rate * (amount * k)
      BY <1>5, <3>1, <3>3, <3>4, <3>5, <3>6
    <3> QED
      BY <3>3, <3>4, <3>5, <3>7
  <2> QED
    BY <2>1, <2>2
<1>9. CASE method \in {"sale", "IN"}
  <2>1. Tax!Shares(amount, rate) = [i \in 1 .. 2 |-> tax \div 2]
    BY <1>1, <1>4, <1>5, <1>9 DEF Tax!Shares
  <2>2. tax \div 2 \in Nat
    BY <1>8
  <2> QED
    BY <1>4, <1>8, <2>1, <2>2
<1>10. CASE method = "US"
  <2>1. Tax!Shares(amount, rate) = <<amount * rate * (z \div 100), amount * Local * (z \div 100)>>
    BY <1>1, <1>10 DEF Tax!Shares
  <2>2. z \div 100 \in Nat
    BY <1>2
  <2>3. amount * rate * (z \div 100) \in Nat /\ amount * Local * (z \div 100) \in Nat
    BY <1>3, <1>6, <2>2
  <2> QED
    BY <1>4, <1>8, <2>1, <2>3
<1>11. CASE method = "VAT"
  <2>1. Tax!Shares(amount, rate) = <<tax, 0>>
    BY <1>1, <1>4, <1>5, <1>11 DEF Tax!Shares
  <2> QED
    BY <1>4, <1>8, <2>1
<1> QED
  BY <1>9, <1>10, <1>11

LEMMA TaxTypes ==
  ASSUME TaxAmounts
  PROVE  Tax!Spec => []Tax!TypeOK
<1>1. Tax!Init => TaxInv /\ TaxTyped
  BY TaxStart DEF TaxAmounts, TaxTyped, Tax!Init, Tax!NoShares, Tax!NoLines
<1>2. TaxInv /\ [Tax!Next]_(Tax!vars) => TaxInv'
  BY TaxStep DEF TaxAmounts
<1>3. ASSUME TaxInv, TaxTyped, [Tax!Next]_(Tax!vars) PROVE TaxTyped'
  <2>1. ASSUME count < MaxLines, NEW amount \in Amounts, NEW rate \in Rates, Tax!TakeLine(amount, rate)
        PROVE  TaxTyped'
    <3>1. PICK net : net = Tax!Taxable(amount, rate)
      OBVIOUS
    <3>2. PICK parts : parts = Tax!Shares(amount, rate)
      OBVIOUS
    <3>3. net \in Nat /\ parts[1] \in Nat /\ parts[2] \in Nat
      BY <1>3, <3>1, <3>2, LineTyped DEF TaxInv
    <3>4. PICK r : r = Tax!RoundHalfEven(net)
      OBVIOUS
    <3>5. PICK q : q = Tax!RoundHalfEven(parts[1])
      OBVIOUS
    <3>6. r \in Nat /\ q \in Nat
      BY <3>3, <3>4, <3>5, RoundsUp DEF TaxAmounts
    <3>7. /\ count' = count + 1 /\ due' = due + amount /\ taxable' = taxable + net
          /\ shares' = [i \in 1 .. 2 |-> shares[i] + parts[i]]
          /\ byLine' = [taxable |-> byLine.taxable + r, share |-> byLine.share + q]
      BY <2>1, <3>1, <3>2, <3>4, <3>5 DEF Tax!TakeLine, Tax!Take
    <3>8. amount \in Nat /\ \A i \in 1 .. 2 : i = 1 \/ i = 2
      BY DEF TaxAmounts
    <3>9. shares' \in [1 .. 2 -> Nat]
      BY <1>3, <3>3, <3>7, <3>8 DEF TaxTyped
    <3>10. byLine' \in [taxable : Nat, share : Nat]
      BY <1>3, <3>6, <3>7 DEF TaxTyped
    <3> QED
      BY <1>3, <2>1, <3>3, <3>7, <3>8, <3>9, <3>10 DEF TaxTyped, TaxAmounts
  <2>2. CASE Tax!NextBasket
    BY <2>2 DEF Tax!NextBasket, Tax!NoShares, Tax!NoLines, TaxTyped, TaxAmounts
  <2>3. CASE UNCHANGED Tax!vars
    BY <1>3, <2>3 DEF Tax!vars, TaxTyped
  <2> QED
    BY <1>3, <2>1, <2>2, <2>3 DEF Tax!Next, Tax!AddLine
<1>4. TaxInv /\ TaxTyped => Tax!TypeOK
  BY DEF TaxInv, TaxTyped, Tax!TypeOK
<1> QED
  BY <1>1, <1>2, <1>3, <1>4, PTL DEF Tax!Spec

-----------------------------------------------------------------------------
(* The office: one service at a time, so a behaviour of it is one of every service. *)

(* Every behaviour the run explores is, for each of the six services, a behaviour of      *)
(* that service: what is proved of the service holds in it.                               *)
THEOREM OfficeImplements ==
  MCSpec => Spec /\ Gst!Spec /\ Chains!Spec /\ Usage!Spec /\ Signing!Spec /\ Tax!Spec
<1>1. MCInit => Init /\ Gst!Init /\ Chains!Init /\ Usage!Init /\ Signing!Init /\ Tax!Init
  BY DEF MCInit
<1>2. ASSUME [MCNext]_<<part, vars, gstVars, chainVars, usageVars, signVars, taxVars>>
      PROVE  /\ [Next]_vars /\ [Gst!Next]_(Gst!vars) /\ [Chains!Next]_(Chains!vars)
             /\ [Usage!Next]_(Usage!vars) /\ [Signing!Next]_(Signing!vars) /\ [Tax!Next]_(Tax!vars)
  <2>1. /\ UNCHANGED gstVars => UNCHANGED Gst!vars
        /\ UNCHANGED chainVars => UNCHANGED Chains!vars
        /\ UNCHANGED usageVars => UNCHANGED Usage!vars
        /\ UNCHANGED signVars => UNCHANGED Signing!vars
        /\ UNCHANGED taxVars => UNCHANGED Tax!vars
    BY DEF gstVars, Gst!vars, chainVars, Chains!vars, usageVars, Usage!vars, signVars, Signing!vars, taxVars, Tax!vars
  <2>2. Gst!Map => Gst!Next
    BY DEF Gst!Next
  <2>3. CASE MCNext
    BY <2>1, <2>2, <2>3 DEF MCNext
  <2>4. CASE UNCHANGED <<part, vars, gstVars, chainVars, usageVars, signVars, taxVars>>
    BY <2>1, <2>4
  <2> QED
    BY <1>2, <2>3, <2>4
<1> QED
  BY <1>1, <1>2, PTL DEF MCSpec, Spec, Gst!Spec, Chains!Spec, Usage!Spec, Signing!Spec, Tax!Spec

(* A second group of an owner, or a second chain of a store, comes from an insert that     *)
(* nobody could see (app/chain/routes.py).                                                *)
THEOREM OfficeChains ==
  ASSUME None \notin Owners
  PROVE  MCSpec => []ChainsExplained
<1>1. Chains!Spec => []Chains!ChainsExplained
  BY GroupsExplained
<1>2. Chains!ChainsExplained <=> ChainsExplained
  BY DEF ChainsExplained
<1> QED
  BY <1>1, <1>2, OfficeImplements, PTL

(* A second refresh token of one sign-in comes from a refresh that raced or failed        *)
(* (refresh, app/auth/routes.py).                                                         *)
THEOREM OfficeTokens ==
  ASSUME IsFiniteSet(Threads)
  PROVE  MCSpec => []SessionsExplained
<1>1. Signing!Spec => []Signing!SessionsExplained
  BY TokensExplained
<1>2. Signing!SessionsExplained <=> SessionsExplained
  BY DEF SessionsExplained
<1> QED
  BY <1>1, <1>2, OfficeImplements, PTL

(* One request at a time and nothing failing, the newest one-time code works until it is  *)
(* used or runs out, and whoever uses it has an account (generate_otp and verify_otp,     *)
(* app/auth/utils.py).                                                                    *)
THEOREM OfficeCodes ==
  ASSUME IsFiniteSet(Threads), None \notin Nat, None \notin {"inactive", "active"}
  PROVE  MCSpec => []SerialCodesWork
<1>1. Signing!Spec => []Signing!SerialCodesWork
  BY CodesWork
<1>2. Signing!SerialCodesWork <=> SerialCodesWork
  BY DEF SerialCodesWork
<1> QED
  BY <1>1, <1>2, OfficeImplements, PTL

(* Every API call is counted, or lost or counted twice in a way the history names         *)
(* (sync_api_usage, tasks/webhook_tasks.py).                                              *)
THEOREM OfficeCalls ==
  ASSUME IsFiniteSet(Threads)
  PROVE  MCSpec => []CallsExplained
<1>1. Usage!Spec => []Usage!CallsExplained
  BY CallsCounted
<1>2. Usage!CallsExplained <=> CallsExplained
  BY DEF CallsExplained
<1> QED
  BY <1>1, <1>2, OfficeImplements, PTL

(* No sale is counted in a GST return and missing from its list: the list is read after   *)
(* the count and sales are only added (compile_monthly_gst, tasks/tasks.py).              *)
THEOREM OfficeLists ==
  ASSUME None \notin Gst!File
  PROVE  MCSpec => []ListedIfCounted
<1>1. Gst!Spec => []Gst!ListedIfCounted
  <2>1. Gst!Spec => []GstAll
    BY GstHolds
  <2>2. GstAll => Gst!ListedIfCounted
    BY DEF GstAll, GstInv
  <2> QED
    BY <2>1, <2>2, PTL
<1>2. Gst!ListedIfCounted <=> ListedIfCounted
  BY DEF ListedIfCounted
<1> QED
  BY <1>1, <1>2, OfficeImplements, PTL

(* One session at a time and no crash between file and row, the file of a return has the  *)
(* figures of its row, lists what it counts and is acknowledged once FILED.               *)
THEOREM OfficeFiling ==
  ASSUME None \notin Gst!File
  PROVE  MCSpec => []SerialFilingAgrees
<1>1. Gst!Spec => []Gst!SerialFilingAgrees
  <2>1. Gst!Spec => []GstAll
    BY GstHolds
  <2>2. GstAll => Gst!SerialFilingAgrees
    BY SerialFiling
  <2> QED
    BY <2>1, <2>2, PTL
<1>2. Gst!SerialFilingAgrees <=> SerialFilingAgrees
  BY DEF SerialFilingAgrees
<1> QED
  BY <1>1, <1>2, OfficeImplements, PTL

(* One session at a time and no crash in between, an e-invoice is submitted once          *)
(* ("Check if invoice already exists", einvoicing/routes.py).                             *)
THEOREM OfficeSubmits ==
  ASSUME None \notin Gst!File
  PROVE  MCSpec => []SerialSubmitsOnce
<1>1. Gst!Spec => []Gst!SerialSubmitsOnce
  <2>1. Gst!Spec => []GstAll
    BY GstHolds
  <2>2. GstAll => Gst!SerialSubmitsOnce
    BY SerialInvoices
  <2> QED
    BY <2>1, <2>2, PTL
<1>2. Gst!SerialSubmitsOnce <=> SerialSubmitsOnce
  BY DEF SerialSubmitsOnce
<1> QED
  BY <1>1, <1>2, OfficeImplements, PTL

(* Only a compilation that read the period as something else than COMPILED takes a FILED  *)
(* period back (compile_monthly_gst, tasks/tasks.py).                                     *)
THEOREM OfficeReopens ==
  ASSUME None \notin Gst!File
  PROVE  MCSpec => ReopenedByAReader
<1>1. GstAll /\ [Gst!Next]_(Gst!vars) =>
        [ filing # None /\ filing'.status # filing.status /\ filing.status = "FILED" =>
            \E t \in Threads : /\ sess[t].op = "compile" /\ sess'[t] = Gst!Idle
                               /\ sess[t].row.status # "COMPILED" ]_(Gst!vars)
  BY Reopens
<1>2. Gst!Spec => []GstAll
  BY GstHolds
<1>3. Gst!Spec => Gst!ReopenedByAReader
  BY <1>1, <1>2, PTL DEF Gst!Spec, Gst!ReopenedByAReader
<1>4. Gst!ReopenedByAReader <=> ReopenedByAReader
  BY DEF ReopenedByAReader
<1> QED
  BY <1>3, <1>4, OfficeImplements, PTL

(* The figures a sale records, and those of the calculators of tax_engine: net and tax    *)
(* come within a paisa of the price, the taxes within a paisa of their total, and the     *)
(* breakdown within half a paisa a line.                                                  *)
THEOREM OfficeFigures ==
  ASSUME TaxInputs
  PROVE  MCSpec => []FiguresAgree
<1>1. Tax!Spec => []Tax!FiguresAgree
  BY BasketsAddUp
<1>2. Tax!FiguresAgree <=> FiguresAgree
  BY DEF FiguresAgree
<1> QED
  BY <1>1, <1>2, OfficeImplements, PTL

(* What the constants of the office are: threads and rates are finitely many, None is no  *)
(* owner and no file, a configuration is a flag, the bounds are numbers.                   *)
OfficeConstants ==
  /\ IsFiniteSet(Threads) /\ None \notin Owners /\ None \notin Gst!File /\ Configs \subseteq BOOLEAN
  /\ MaxCrashes \in Nat /\ MaxCalls \in Nat /\ MaxCodes \in Nat /\ MaxTokens \in Nat /\ MaxFaults \in Nat
  /\ TaxAmounts

(* The tables of the six services have their types and keep their constraints: a member   *)
(* and a token are of a group that is there, a token is its owner's, no two HSN mappings   *)
(* share a category or a code, and no count passes its bound.                              *)
THEOREM OfficeTypes ==
  ASSUME OfficeConstants
  PROVE  MCSpec => []OfficeTypeOK
<1>1. Spec => []TypeOK
  <2>1. StaffInv => TypeOK
    BY DEF StaffInv
  <2> QED
    BY <2>1, StaffInit, StaffStep, PTL DEF Spec
<1>2. Gst!Spec => []Gst!TypeOK
  BY GstTypes DEF OfficeConstants
<1>3. Chains!Spec => []Chains!TypeOK
  BY ChainTypes DEF OfficeConstants
<1>4. Usage!Spec => []Usage!TypeOK
  BY UsageTypes DEF OfficeConstants
<1>5. Signing!Spec => []Signing!TypeOK
  BY SignTypes DEF OfficeConstants
<1>6. Tax!Spec => []Tax!TypeOK
  BY TaxTypes DEF OfficeConstants
<1>7. TypeOK /\ Gst!TypeOK /\ Chains!TypeOK /\ Usage!TypeOK /\ Signing!TypeOK /\ Tax!TypeOK => OfficeTypeOK
  BY DEF OfficeTypeOK
<1> QED
  BY <1>1, <1>2, <1>3, <1>4, <1>5, <1>6, <1>7, OfficeImplements, PTL
=============================================================================
