--------------------------- MODULE StaffSessions ---------------------------
(***************************************************************************)
(* The sessions, daily targets and sales of one member of staff:           *)
(* app/staff_performance and the session a sale is booked on.              *)
(*                                                                         *)
(* Starting closes the open sessions it finds and flushes that, so their   *)
(* rows stay locked until its commit; it then reads the target and inserts *)
(* a session.  Ending and selling take the first open session they find.   *)
(***************************************************************************)
EXTENDS Naturals, Sequences, FiniteSets

CONSTANTS
  Threads,       \* request threads
  Targets,       \* revenue targets a request may set
  MaxSessions,   \* bound
  MaxSales,      \* bound
  None

VARIABLES
  staff,     \* staff_sessions: status and target of each, oldest first
  target,    \* revenue_target of the day's staff_daily_targets row, or None
  booked,    \* the session of each sale, or None
  staffReq,  \* what each thread is doing
  raced      \* history: starts that committed although another had begun since they looked
vars == <<staff, target, booked, staffReq, raced>>

Indices == 1 .. MaxSessions
Open == {n \in DOMAIN staff : staff[n].status = "OPEN"}
Asks(op, found) == [op |-> op, found |-> found, new |-> None, alone |-> TRUE]
Idle == Asks("none", {})

Session == [status : {"OPEN", "CLOSED"}, target : Targets \cup {None}]
Request == [op : {"none", "look", "start", "end", "sell"}, found : SUBSET Nat,
            new : Targets \cup {None}, alone : BOOLEAN]

TypeOK ==
  /\ staff \in Seq(Session)
  /\ target \in Targets \cup {None}
  /\ booked \in Seq(DOMAIN staff \cup {None})
  /\ staffReq \in [Threads -> Request]
  /\ \A t \in Threads : staffReq[t].found \subseteq DOMAIN staff
  /\ raced \in Nat

Init ==
  /\ staff = <<>> /\ target = None /\ booked = <<>>
  /\ staffReq = [t \in Threads |-> Idle]
  /\ raced = 0

\* Requests that overlap know it of each other.
Begin(t, r) ==
  /\ staffReq[t] = Idle
  /\ staffReq' = [u \in Threads |->
       IF u = t THEN [r EXCEPT !.alone = \A v \in Threads : staffReq[v] = Idle]
       ELSE IF staffReq[u] = Idle THEN Idle ELSE [staffReq[u] EXCEPT !.alone = FALSE]]
  /\ UNCHANGED <<staff, target, booked, raced>>

End(t) == staffReq' = [staffReq EXCEPT ![t] = Idle]

\* Rows that a start has flushed and not committed.
Locked(t) == UNION {staffReq[u].found : u \in {v \in Threads \ {t} : staffReq[v].op = "start"}}

Close_Nothing(rows, found) == rows
Close(rows, found) ==
  [n \in DOMAIN rows |-> IF n \in found THEN [rows[n] EXCEPT !.status = "CLOSED"] ELSE rows[n]]

FindOpen_First(t) ==
  /\ Len(staff) + Cardinality({u \in Threads : staffReq[u].op \in {"look", "start"}}) < MaxSessions
  /\ Begin(t, Asks("look", IF Open = {} THEN {} ELSE {CHOOSE n \in Open : TRUE}))

FindOpen(t) ==
  /\ Len(staff) + Cardinality({u \in Threads : staffReq[u].op \in {"look", "start"}}) < MaxSessions
  /\ Begin(t, Asks("look", Open))

\* db.session.flush(): waits for the rows another start has closed and not committed.
FlushClosed(t) ==
  /\ staffReq[t].op = "look"
  /\ staffReq[t].found \cap Locked(t) = {}
  /\ staffReq' = [staffReq EXCEPT ![t].op = "start", ![t].new = target]
  /\ UNCHANGED <<staff, target, booked, raced>>

CommitStart(t) ==
  /\ staffReq[t].op = "start"
  /\ staff' = Append(Close(staff, staffReq[t].found), [status |-> "OPEN", target |-> staffReq[t].new])
  /\ raced' = raced + (IF Open \subseteq staffReq[t].found THEN 0 ELSE 1)
  /\ End(t)
  /\ UNCHANGED <<target, booked>>

\* first() of a query without an order: any open session.
FindToEnd(t) ==
  /\ \E n \in Open : Begin(t, Asks("end", {n}))

CommitEnd(t) ==
  /\ staffReq[t].op = "end"
  /\ staffReq[t].found \cap Locked(t) = {}
  /\ staff' = Close(staff, staffReq[t].found)
  /\ End(t)
  /\ UNCHANGED <<target, booked, raced>>

\* A sale of a member of staff; the session may be closed by the time it commits.
FindToSell(t) ==
  /\ Len(booked) + Cardinality({u \in Threads : staffReq[u].op = "sell"}) < MaxSales
  /\ \/ \E n \in Open : Begin(t, Asks("sell", {n}))
     \/ Open = {} /\ Begin(t, Asks("sell", {}))

CommitSale(t) ==
  /\ staffReq[t].op = "sell"
  /\ \/ \E n \in staffReq[t].found : booked' = Append(booked, n)
     \/ staffReq[t].found = {} /\ booked' = Append(booked, None)
  /\ End(t)
  /\ UNCHANGED <<staff, target, raced>>

\* upsert_staff_target; a second insert of the day breaks a unique constraint, and the
\* first one then has its target set: as if the requests had run in the other order.
SetTarget ==
  /\ \E r \in Targets : target' = r
  /\ UNCHANGED <<staff, booked, staffReq, raced>>

\* The request is lost; the database rolls back what it flushed.
Lose(t) ==
  /\ staffReq[t] # Idle
  /\ End(t)
  /\ UNCHANGED <<staff, target, booked, raced>>

Next ==
  \/ SetTarget
  \/ \E t \in Threads :
       \/ FindOpen(t) \/ FlushClosed(t) \/ CommitStart(t) \/ FindToEnd(t) \/ CommitEnd(t)
       \/ FindToSell(t) \/ CommitSale(t) \/ Lose(t)

Spec == Init /\ [][Next]_vars

-----------------------------------------------------------------------------
(* Properties. *)

(* Only a start that commits while a session it did not see is open leaves one more than *)
(* one session open: however starts, ends and failures mix, that is the only way.        *)
OpenSessionsExplained == Cardinality(Open) <= 1 + raced

(* A start that nothing overlapped heals what earlier ones left: one session is open.    *)
StartHeals ==
  [][ \A t \in Threads :
        staff' # staff /\ staffReq[t].op = "start" /\ staffReq'[t] = Idle /\ staffReq[t].alone =>
          Cardinality(Open') = 1 ]_vars
=============================================================================
