------------------------- MODULE WebhookDelivery_proofs -------------------------
(***************************************************************************)
(* Theorems about WebhookDelivery for any number of events, workers,       *)
(* retries and failures: the types, the bound on attempts, that a 2xx ends  *)
(* the posting of an event, and that the row says what the posts came to.  *)
(***************************************************************************)
EXTENDS WebhookDelivery, SequenceTheorems, TLAPS

(* What a worker's record holds. *)
LEMMA WorkerFields ==
  ASSUME TypeOK, NEW w \in Workers, worker[w].pc # "idle"
  PROVE  /\ worker[w].pc \in {"read", "post", "record", "retry", "handler"}
         /\ worker[w].event \in Events
         /\ worker[w].retries \in 0..MaxRetries
         /\ worker[w].answer \in Answers \union {"none"}
  BY DEF TypeOK, WorkerState, Idle, Doing, Message

LEMMA IdleWorker ==
  ASSUME TypeOK, NEW w \in Workers
  PROVE  /\ worker[w].pc = "idle" => worker[w].event = None
         /\ worker[w].event \in Events => worker[w].pc # "idle"
  BY WebhookAssumption DEF TypeOK, WorkerState, Idle, Doing, Message

LEMMA DoingType ==
  ASSUME NEW pc \in {"read", "post", "record", "retry", "handler"},
         NEW m, m.event \in Events, m.retries \in 0..MaxRetries,
         NEW a \in Answers \union {"none"}
  PROVE  Doing(pc, m, a) \in WorkerState
<1>1. [event |-> m.event, retries |-> m.retries] \in Message
  BY DEF Message
<1>2. Doing(pc, m, a) = Doing(pc, [event |-> m.event, retries |-> m.retries], a)
  BY DEF Doing
<1> QED BY <1>1, <1>2 DEF WorkerState

-----------------------------------------------------------------------------
LEMMA TypeInit == Init => TypeOK
<1> SUFFICES ASSUME Init PROVE TypeOK
  OBVIOUS
<1>1. Idle \in WorkerState /\ Idle.pc = "idle"
  BY DEF WorkerState, Idle, Doing
<1> QED BY <1>1 DEF Init, TypeOK

(* A step that moves one worker on, to idle or to a well-typed stage. *)
LEMMA TypeWorker ==
  ASSUME TypeOK, NEW w \in Workers, NEW s \in WorkerState,
         worker' = [worker EXCEPT ![w] = s],
         event' \in [Events -> Row \union {None}],
         \A e \in Events : event[e] # None => event'[e] # None,
         queue' \subseteq Message, answers' \in [Events -> Seq(Answers)], web' = web,
         s.pc \in {"post", "record", "retry", "handler"} => event'[s.event] # None,
         s.pc \in {"record", "retry", "handler"} => s.answer \in Answers
  PROVE  TypeOK'
<1>1. ASSUME NEW u \in Workers, u # w,
             worker[u].pc \in {"post", "record", "retry", "handler"}
      PROVE  event'[worker[u].event] # None
  BY <1>1, WorkerFields DEF TypeOK
<1>2. \A u \in Workers : worker'[u] = IF u = w THEN s ELSE worker[u]
  BY DEF TypeOK
<1> QED BY <1>1, <1>2 DEF TypeOK

LEMMA MarkedRow ==
  ASSUME NEW r \in Row, NEW s \in Statuses
  PROVE  Marked(r, s) \in Row /\ Marked(r, s) # None
  BY WebhookAssumption DEF Marked, Row

LEMMA TypeTask ==
  ASSUME TypeOK, NEW w \in Workers, Task(w)
  PROVE  TypeOK'
<1>0. Idle \in WorkerState /\ Idle.pc = "idle"
  BY DEF WorkerState, Idle, Doing
<1>1. CASE Take(w)
  <2>1. PICK m \in queue : queue' = queue \ {m} /\ worker' = [worker EXCEPT ![w] = Doing("read", m, "none")]
    BY <1>1 DEF Take
  <2>2. Doing("read", m, "none") \in WorkerState
    BY DoingType DEF TypeOK, Message
  <2>3. Doing("read", m, "none").pc = "read"
    BY DEF Doing
  <2> QED BY <1>1, <2>1, <2>2, <2>3, TypeWorker DEF Take, TypeOK
<1>2. CASE Read(w)
  <2>1. worker[w].event \in Events /\ worker[w].retries \in 0..MaxRetries
    BY <1>2, WorkerFields DEF Read
  <2>2. CASE worker' = [worker EXCEPT ![w] = Idle] /\ event' = event
    BY <1>0, <1>2, <2>2, TypeWorker DEF Read, TypeOK
  <2>3. CASE event[worker[w].event] # None
             /\ worker' = [worker EXCEPT ![w] = Doing("post", @, "none")] /\ event' = event
    <3> DEFINE s == Doing("post", worker[w], "none")
    <3>1. s \in WorkerState /\ s.pc = "post" /\ s.event = worker[w].event
      BY <2>1, DoingType DEF Doing
    <3>2. worker' = [worker EXCEPT ![w] = s]
      BY <2>3 DEF TypeOK
    <3> HIDE DEF s
    <3> QED BY <1>2, <2>3, <3>1, <3>2, TypeWorker DEF Read, TypeOK
  <2>4. CASE /\ event[worker[w].event] # None
             /\ event' = [event EXCEPT ![worker[w].event] = Marked(@, "FAILED")]
             /\ worker' = [worker EXCEPT ![w] = Idle]
    <3>1. event[worker[w].event] \in Row
      BY <2>1, <2>4 DEF TypeOK
    <3>2. Marked(event[worker[w].event], "FAILED") \in Row \ {None}
      BY <3>1, MarkedRow DEF Statuses
    <3> QED BY <1>0, <1>2, <2>1, <2>4, <3>2, TypeWorker DEF Read, TypeOK
  <2> QED BY <1>2, <2>2, <2>3, <2>4 DEF Read
<1>3. CASE Post(w)
  <2>1. /\ worker[w].event \in Events /\ worker[w].retries \in 0..MaxRetries
        /\ event[worker[w].event] # None
    BY <1>3, WorkerFields DEF Post, TypeOK
  <2>2. PICK a \in Answers :
          /\ answers' = [answers EXCEPT ![worker[w].event] = Append(@, a)]
          /\ worker' = [worker EXCEPT ![w] = Doing("record", @, a)]
    BY <1>3 DEF Post
  <2> DEFINE s == Doing("record", worker[w], a)
  <2>3. /\ s \in WorkerState /\ s.pc = "record" /\ s.event = worker[w].event /\ s.answer = a
    BY <2>1, DoingType DEF Doing
  <2>4. worker' = [worker EXCEPT ![w] = s]
    BY <2>2 DEF TypeOK
  <2>5. answers' \in [Events -> Seq(Answers)]
    BY <2>1, <2>2 DEF TypeOK
  <2> HIDE DEF s
  <2> QED BY <1>3, <2>1, <2>3, <2>4, <2>5, TypeWorker DEF Post, TypeOK
<1>4. CASE Record(w)
  <2> DEFINE e == worker[w].event
             a == worker[w].answer
             row == [status |-> IF Delivered(a) THEN "DELIVERED" ELSE "FAILED",
                     attempts |-> event[e].attempts + 1]
             s == IF Delivered(a) THEN Idle ELSE Doing("retry", worker[w], a)
  <2>1. e \in Events /\ worker[w].retries \in 0..MaxRetries /\ event[e] # None /\ a \in Answers
    BY <1>4, WorkerFields DEF Record, TypeOK
  <2>2. row \in Row /\ row # None
    <3>1. event[e].attempts + 1 \in Nat
      BY <2>1 DEF TypeOK, Row
    <3> QED BY <3>1, WebhookAssumption DEF Row, Statuses
  <2>3. s \in WorkerState /\ (s.pc = "idle" \/ (s.pc = "retry" /\ s.event = e /\ s.answer = a))
    <3>1. Doing("retry", worker[w], a) \in WorkerState
      BY <2>1, DoingType
    <3>2. /\ Doing("retry", worker[w], a).pc = "retry"
          /\ Doing("retry", worker[w], a).event = e /\ Doing("retry", worker[w], a).answer = a
      BY DEF Doing
    <3>3. CASE Delivered(a)
      <4>1. s = Idle
        BY <3>3
      <4> QED BY <1>0, <4>1
    <3>4. CASE ~Delivered(a)
      <4>1. s = Doing("retry", worker[w], a)
        BY <3>4
      <4> QED BY <3>1, <3>2, <4>1
    <3> QED BY <3>3, <3>4
  <2>4. worker' = [worker EXCEPT ![w] = s] /\ event' = [event EXCEPT ![e] = row]
    BY <1>4 DEF Record, TypeOK
  <2>5. /\ event' \in [Events -> Row \union {None}]
        /\ \A f \in Events : event[f] # None => event'[f] # None
        /\ event'[e] # None
    BY <2>1, <2>2, <2>4 DEF TypeOK
  <2>6. queue' \subseteq Message /\ answers' \in [Events -> Seq(Answers)] /\ web' = web
    BY <1>4 DEF Record, TypeOK
  <2> HIDE DEF e, a, row, s
  <2> QED BY <2>1, <2>3, <2>4, <2>5, <2>6, TypeWorker
<1>5. CASE Retry(w)
  <2>1. worker[w].event \in Events /\ worker[w].retries \in 0..MaxRetries
    BY <1>5, WorkerFields DEF Retry
  <2>2. event[worker[w].event] # None /\ worker[w].answer \in Answers
    BY <1>5 DEF Retry, TypeOK
  <2> DEFINE s == IF worker[w].answer \in Failures THEN Idle
                  ELSE Doing("handler", worker[w], worker[w].answer)
  <2>3. /\ s \in WorkerState
        /\ \/ s.pc = "idle"
           \/ s.pc = "handler" /\ s.event = worker[w].event /\ s.answer = worker[w].answer
    <3>1. Doing("handler", worker[w], worker[w].answer) \in WorkerState
      BY <2>1, <2>2, DoingType
    <3>2. /\ Doing("handler", worker[w], worker[w].answer).pc = "handler"
          /\ Doing("handler", worker[w], worker[w].answer).event = worker[w].event
          /\ Doing("handler", worker[w], worker[w].answer).answer = worker[w].answer
      BY DEF Doing
    <3>3. s = Idle \/ s = Doing("handler", worker[w], worker[w].answer)
      OBVIOUS
    <3> QED BY <1>0, <3>1, <3>2, <3>3
  <2>4. worker' = [worker EXCEPT ![w] = s]
    BY <1>5 DEF Retry, AfterRetry, TypeOK
  <2>5. queue' \subseteq Message
    BY <1>5, <2>1, WebhookAssumption DEF Retry, MayRetry, TypeOK, Message
  <2> HIDE DEF s
  <2> QED BY <1>5, <2>2, <2>3, <2>4, <2>5, TypeWorker DEF Retry, TypeOK
<1>6. CASE Handler(w)
  <2>1. worker[w].event \in Events /\ event[worker[w].event] \in Row
    BY <1>6, WorkerFields DEF Handler, TypeOK
  <2>2. PICK s \in Statuses : event' = [event EXCEPT ![worker[w].event] = Marked(@, s)]
    BY <1>6 DEF Handler, Statuses
  <2>3. Marked(event[worker[w].event], s) \in Row \ {None}
    BY <2>1, MarkedRow
  <2> QED BY <1>0, <1>6, <2>1, <2>2, <2>3, TypeWorker DEF Handler, TypeOK
<1> QED BY <1>1, <1>2, <1>3, <1>4, <1>5, <1>6 DEF Task

LEMMA TypeFault ==
  ASSUME TypeOK, Fault
  PROVE  TypeOK'
<1>0. Idle \in WorkerState /\ Idle.pc = "idle"
  BY DEF WorkerState, Idle, Doing
<1>1. ASSUME NEW w \in Workers, worker' = [worker EXCEPT ![w] = Idle], web' = web
      PROVE TypeOK'
  BY <1>0, <1>1, TypeWorker DEF Fault, TypeOK
<1>2. ASSUME NEW w \in Workers, worker[w].pc = "retry", AfterRetry(w), web' = web
      PROVE TypeOK'
  <2>1. worker[w].event \in Events /\ worker[w].retries \in 0..MaxRetries
    BY <1>2, WorkerFields
  <2>2. event[worker[w].event] # None /\ worker[w].answer \in Answers
    BY <1>2 DEF TypeOK
  <2> DEFINE s == IF worker[w].answer \in Failures THEN Idle
                  ELSE Doing("handler", worker[w], worker[w].answer)
  <2>3. /\ s \in WorkerState
        /\ \/ s.pc = "idle"
           \/ s.pc = "handler" /\ s.event = worker[w].event /\ s.answer = worker[w].answer
    <3>1. Doing("handler", worker[w], worker[w].answer) \in WorkerState
      BY <2>1, <2>2, DoingType
    <3>2. /\ Doing("handler", worker[w], worker[w].answer).pc = "handler"
          /\ Doing("handler", worker[w], worker[w].answer).event = worker[w].event
          /\ Doing("handler", worker[w], worker[w].answer).answer = worker[w].answer
      BY DEF Doing
    <3>3. s = Idle \/ s = Doing("handler", worker[w], worker[w].answer)
      OBVIOUS
    <3> QED BY <1>0, <3>1, <3>2, <3>3
  <2>4. worker' = [worker EXCEPT ![w] = s]
    BY <1>2 DEF AfterRetry, TypeOK
  <2> HIDE DEF s
  <2> QED BY <1>2, <2>2, <2>3, <2>4, TypeWorker DEF Fault, TypeOK
<1>3. ASSUME NEW e \in Events, web' = [web EXCEPT ![e] = "done"], worker' = worker
      PROVE TypeOK'
  BY <1>3 DEF Fault, TypeOK
<1> QED BY <1>1, <1>2, <1>3 DEF Fault

LEMMA TypeRequest ==
  ASSUME TypeOK, NEW e \in Events, Request(e)
  PROVE  TypeOK'
<1>1. First(e) \in Message
  BY WebhookAssumption DEF First, Message
<1>2. Pending \in Row /\ Pending # None
  BY WebhookAssumption DEF Pending, Row, Statuses
<1>3. CASE RecordSale(e)
  BY <1>3 DEF RecordSale, TypeOK
<1>4. CASE Broadcast(e)
  BY <1>1, <1>4 DEF Broadcast, TypeOK
<1>5. CASE EndRequest(e)
  BY <1>5 DEF EndRequest, TypeOK
<1>6. CASE SaveTest(e)
  BY <1>2, <1>6 DEF SaveTest, TypeOK
<1>7. CASE SendTest(e)
  BY <1>1, <1>7 DEF SendTest, TypeOK
<1> QED BY <1>3, <1>4, <1>5, <1>6, <1>7 DEF Request

LEMMA TypeNext == TypeOK /\ [Next]_vars => TypeOK'
<1> SUFFICES ASSUME TypeOK, [Next]_vars PROVE TypeOK'
  OBVIOUS
<1>1. CASE Subscribe
  BY <1>1 DEF Subscribe, TypeOK
<1>2. CASE UNCHANGED vars
  BY <1>2 DEF vars, TypeOK
<1> QED BY <1>1, <1>2, TypeTask, TypeFault, TypeRequest DEF Next

(* Rows, messages, workers and histories keep their types, and a worker     *)
(* past the read always has a row to write.                                 *)
THEOREM TypeInvariant == Spec => []TypeOK
  BY TypeInit, TypeNext, PTL DEF Spec

-----------------------------------------------------------------------------
(* The inductive invariant, event by event.                                 *)
EventInv(e) ==
    OneInFlight(e) /\ KnowsPosts(e) /\ CountsPosts(e) /\ EndsWithSuccess(e) /\ Posts(e) <= MaxRetries + 1

LEMMA EventInit ==
  ASSUME Init, NEW e \in Events
  PROVE  EventInv(e)
  BY WebhookAssumption DEF Init, EventInv, OneInFlight, KnowsPosts, CountsPosts, EndsWithSuccess, Posts,
     Unsent, Attempting, Waiting, Busy, Idle, Doing

(* Steps that leave an event's posts alone, send no message for it and at   *)
(* most let a worker leave it or go on to the handler.                      *)
LEMMA EventFrame ==
  ASSUME TypeOK, TypeOK', NEW e \in Events, EventInv(e),
         answers'[e] = answers[e],
         event'[e] # None => event[e] # None /\ event'[e].attempts = event[e].attempts,
         Unsent(e)' => Unsent(e),
         \A m \in queue' : m.event = e => m \in queue,
         \A w \in Workers : worker'[w].event = e =>
            worker[w].event = e /\ (worker'[w] = worker[w] \/ worker'[w].pc = "handler")
  PROVE  EventInv(e)'
<1>1. Posts(e)' = Posts(e)
  BY DEF Posts
<1>2. \A w \in Workers : Attempting(w, e)' => Attempting(w, e) /\ worker'[w] = worker[w]
  BY DEF Attempting
<1>3. OneInFlight(e)'
  BY <1>2 DEF EventInv, OneInFlight, Waiting, Busy
<1>4. KnowsPosts(e)'
  BY <1>1 DEF EventInv, KnowsPosts, Waiting, Busy
<1>5. CountsPosts(e)'
  BY <1>1 DEF EventInv, CountsPosts, Busy
<1>6. EndsWithSuccess(e)'
  BY <1>1, <1>2 DEF EventInv, EndsWithSuccess, Waiting
<1> QED BY <1>1, <1>3, <1>4, <1>5, <1>6 DEF EventInv

(* The request's message is the first one.                                  *)
LEMMA EventSent ==
  ASSUME TypeOK, NEW e \in Events, EventInv(e),
         Unsent(e), ~Unsent(e)', queue' = queue \union {First(e)},
         UNCHANGED <<event, worker, answers>>
  PROVE  EventInv(e)'
<1>1. answers[e] = <<>> /\ Waiting(e) = {} /\ Busy(e) = {} /\ Posts(e) = 0 /\ Posts(e)' = 0
  BY DEF EventInv, OneInFlight, Posts
<1>2. Waiting(e)' = {First(e)}
  BY <1>1 DEF Waiting, First
<1> QED BY <1>1, <1>2, WebhookAssumption DEF EventInv, OneInFlight, KnowsPosts, CountsPosts, EndsWithSuccess, Posts, Attempting, Busy, First

LEMMA EventSaved ==
  ASSUME TypeOK, NEW e \in Events, EventInv(e), SaveTest(e)
  PROVE  EventInv(e)'
<1>1. Unsent(e)
  BY DEF SaveTest, Unsent
<1>2. answers[e] = <<>> /\ Waiting(e) = {} /\ Busy(e) = {} /\ Posts(e) = 0 /\ Posts(e)' = 0
  BY <1>1 DEF EventInv, OneInFlight, Posts, SaveTest
<1>3. event'[e] = Pending /\ Pending.attempts = 0
  BY DEF SaveTest, TypeOK, Pending
<1> QED BY <1>2, <1>3, WebhookAssumption DEF EventInv, OneInFlight, KnowsPosts, CountsPosts, EndsWithSuccess, Posts, Attempting, Busy, Waiting, SaveTest

LEMMA EventTaken ==
  ASSUME TypeOK, NEW e \in Events, EventInv(e), NEW w \in Workers, worker[w].pc = "idle",
         NEW m \in queue, m.event = e, queue' = queue \ {m},
         worker' = [worker EXCEPT ![w] = Doing("read", m, "none")],
         UNCHANGED <<event, web, answers>>
  PROVE  EventInv(e)'
<1>1. Posts(e)' = Posts(e) /\ Posts(e) = m.retries /\ m.retries \in 0..MaxRetries
  BY DEF EventInv, KnowsPosts, Waiting, Posts, TypeOK, Message
<1>2. \A n \in queue : n.event = e => n = m
  <2>1. \A n \in Message : n = [event |-> n.event, retries |-> n.retries]
    BY DEF Message
  <2>2. ASSUME NEW n \in queue, n.event = e PROVE n = m
    <3>1. n.retries = m.retries
      BY <1>1, <2>2 DEF EventInv, KnowsPosts, Waiting
    <3>2. n \in Message /\ m \in Message
      BY DEF TypeOK
    <3> QED BY <2>1, <2>2, <3>1, <3>2
  <2> QED BY <2>2
<1>3. Waiting(e)' = {}
  BY <1>2 DEF Waiting
<1>4. \A v \in Workers : ~Attempting(v, e)
  BY DEF EventInv, OneInFlight, Waiting
<1>5. /\ worker'[w].pc = "read" /\ worker'[w].event = e /\ worker'[w].retries = m.retries
      /\ \A v \in Workers \ {w} : worker'[v] = worker[v]
  BY DEF TypeOK, Doing
<1>6. ~Unsent(e)'
  BY DEF EventInv, OneInFlight, Waiting, Unsent
<1>7. \A i \in DOMAIN answers[e] : answers[e][i] # "ok"
  BY DEF EventInv, EndsWithSuccess, Waiting
<1>8. OneInFlight(e)'
  BY <1>3, <1>4, <1>5, <1>6 DEF OneInFlight, Attempting
<1>9. KnowsPosts(e)'
  BY <1>1, <1>3, <1>5 DEF EventInv, KnowsPosts, Busy
<1>10. CountsPosts(e)'
  BY <1>1, <1>5 DEF EventInv, CountsPosts, Busy
<1> QED BY <1>1, <1>7, <1>8, <1>9, <1>10, WebhookAssumption DEF EventInv, EndsWithSuccess

(* A worker that is attempting an event is the only one, and knows it.      *)
LEMMA OnlyOne ==
  ASSUME TypeOK, NEW e \in Events, EventInv(e), NEW w \in Workers, Attempting(w, e)
  PROVE  /\ Waiting(e) = {} /\ ~Unsent(e)
         /\ \A v \in Workers \ {w} : ~Attempting(v, e)
         /\ worker[w].pc # "record" => \A i \in DOMAIN answers[e] : answers[e][i] # "ok"
         /\ worker[w].retries \in 0..MaxRetries /\ Posts(e) \in Nat
<1>1. worker[w].pc # "idle"
  BY IdleWorker DEF Attempting
<1> QED BY <1>1, WorkerFields DEF EventInv, OneInFlight, EndsWithSuccess, Attempting, Busy, Posts, TypeOK

LEMMA EventRead ==
  ASSUME TypeOK, NEW e \in Events, EventInv(e), NEW w \in Workers,
         worker[w].pc = "read", worker[w].event = e,
         worker' = [worker EXCEPT ![w] = Doing("post", @, "none")],
         UNCHANGED <<event, queue, web, answers>>
  PROVE  EventInv(e)'
<1>1. Attempting(w, e)
  BY DEF Attempting
<1>2. /\ worker'[w].pc = "post" /\ worker'[w].event = e /\ worker'[w].retries = worker[w].retries
      /\ \A v \in Workers \ {w} : worker'[v] = worker[v]
  BY DEF TypeOK, Doing
<1>3. Posts(e)' = Posts(e) /\ Waiting(e)' = Waiting(e) /\ Unsent(e)' = Unsent(e)
  BY DEF Posts, Waiting, Unsent
<1>4. OneInFlight(e)'
  BY <1>1, <1>2, <1>3, OnlyOne DEF OneInFlight, Attempting
<1>5. KnowsPosts(e)'
  BY <1>1, <1>2, <1>3, OnlyOne DEF EventInv, KnowsPosts, Busy
<1>6. CountsPosts(e)'
  BY <1>2, <1>3 DEF EventInv, CountsPosts, Busy
<1>7. EndsWithSuccess(e)'
  BY <1>1, OnlyOne DEF EndsWithSuccess
<1> QED BY <1>3, <1>4, <1>5, <1>6, <1>7 DEF EventInv

LEMMA EventPosted ==
  ASSUME TypeOK, NEW e \in Events, EventInv(e), NEW w \in Workers,
         worker[w].pc = "post", worker[w].event = e, NEW a \in Answers,
         answers' = [answers EXCEPT ![e] = Append(@, a)],
         worker' = [worker EXCEPT ![w] = Doing("record", @, a)],
         UNCHANGED <<event, queue, web>>
  PROVE  EventInv(e)'
<1>1. Attempting(w, e)
  BY DEF Attempting
<1>2. /\ worker'[w].pc = "record" /\ worker'[w].event = e /\ worker'[w].answer = a
      /\ worker'[w].retries = worker[w].retries
      /\ \A v \in Workers \ {w} : worker'[v] = worker[v]
  BY DEF TypeOK, Doing
<1>3. answers[e] \in Seq(Answers) /\ answers'[e] = Append(answers[e], a)
  BY DEF TypeOK
<1>4. /\ Posts(e)' = Posts(e) + 1 /\ DOMAIN answers'[e] = 1..(Posts(e) + 1)
      /\ \A i \in 1..Posts(e) : answers'[e][i] = answers[e][i]
      /\ DOMAIN answers[e] = 1..Posts(e) /\ Posts(e) \in Nat
  BY <1>3, AppendProperties DEF Posts
<1>5. Posts(e) = worker[w].retries /\ Waiting(e)' = {} /\ ~Unsent(e)'
  BY <1>1, OnlyOne DEF EventInv, KnowsPosts, Busy, Waiting, Unsent
<1>6. OneInFlight(e)'
  BY <1>1, <1>2, <1>5, OnlyOne DEF OneInFlight, Attempting
<1>7. KnowsPosts(e)'
  <2>1. ASSUME NEW v \in Workers, worker'[v].event = e, v # w
        PROVE  worker'[v].pc = "handler"
    BY <1>1, <1>2, <2>1, OnlyOne DEF Attempting
  <2> QED BY <1>2, <1>4, <1>5, <2>1 DEF KnowsPosts, Busy
<1>8. CountsPosts(e)'
  <2>1. event[e] # None => event[e].attempts \in Nat
    BY DEF TypeOK, Row
  <2> QED BY <1>4, <2>1 DEF EventInv, CountsPosts, Busy
<1>9. EndsWithSuccess(e)'
  <2>1. \A i \in 1..Posts(e) : answers'[e][i] # "ok"
    BY <1>1, <1>4, OnlyOne
  <2>2. \A v \in Workers : Attempting(v, e)' => v = w
    BY <1>1, <1>2, OnlyOne DEF Attempting
  <2>3. answers'[e][Posts(e) + 1] = a
    BY <1>3, <1>4, AppendProperties DEF Posts
  <2> QED BY <1>2, <1>4, <1>5, <2>1, <2>2, <2>3 DEF EndsWithSuccess
<1>10. Posts(e)' <= MaxRetries + 1
  BY <1>1, <1>4, <1>5, OnlyOne, WebhookAssumption
<1> QED BY <1>6, <1>7, <1>8, <1>9, <1>10 DEF EventInv

LEMMA EventRecorded ==
  ASSUME TypeOK, TypeOK', NEW e \in Events, EventInv(e), NEW w \in Workers,
         worker[w].event = e, Record(w)
  PROVE  EventInv(e)'
<1>1. Attempting(w, e) /\ worker[w].pc = "record"
  BY DEF Attempting, Record
<1>2. event[e] # None /\ event'[e].attempts = event[e].attempts + 1 /\ event[e].attempts \in Nat
  BY <1>1 DEF Record, TypeOK, Row
<1>3. /\ \A v \in Workers \ {w} : worker'[v] = worker[v]
      /\ \/ worker'[w].event = None /\ worker'[w].pc = "idle"
         \/ /\ worker'[w].pc = "retry" /\ worker'[w].event = e
            /\ worker'[w].retries = worker[w].retries /\ worker[w].answer # "ok"
  <2>1. CASE Delivered(worker[w].answer)
    BY <2>1 DEF Record, TypeOK, Doing, Idle
  <2>2. CASE ~Delivered(worker[w].answer)
    BY <2>2 DEF Record, TypeOK, Doing, Delivered
  <2> QED BY <2>1, <2>2
<1>4. Posts(e)' = Posts(e) /\ Waiting(e)' = Waiting(e) /\ Unsent(e)' = Unsent(e) /\ answers' = answers
  BY DEF Record, Posts, Waiting, Unsent
<1>5. OneInFlight(e)'
  BY <1>1, <1>3, <1>4, OnlyOne, WebhookAssumption DEF OneInFlight, Attempting
<1>6. KnowsPosts(e)'
  BY <1>1, <1>3, <1>4, OnlyOne, WebhookAssumption DEF EventInv, KnowsPosts, Busy, Attempting
<1>7. CountsPosts(e)'
  <2>1. event[e].attempts < Posts(e)
    BY <1>1, <1>2 DEF EventInv, CountsPosts, Busy, Attempting
  <2>2. \A v \in Workers : worker'[v].event = e => worker'[v].pc # "record"
    BY <1>1, <1>3, OnlyOne, WebhookAssumption DEF Attempting
  <2> QED BY <1>1, <1>2, <1>4, <2>1, <2>2, OnlyOne DEF CountsPosts, Busy
<1>8. EndsWithSuccess(e)'
  <2>1. \A v \in Workers : Attempting(v, e)' => v = w /\ worker[w].answer # "ok"
    BY <1>1, <1>3, OnlyOne, WebhookAssumption DEF Attempting
  <2> QED BY <1>1, <1>4, <2>1 DEF EventInv, EndsWithSuccess
<1> QED BY <1>4, <1>5, <1>6, <1>7, <1>8 DEF EventInv

LEMMA EventRetried ==
  ASSUME TypeOK, TypeOK', NEW e \in Events, EventInv(e), NEW w \in Workers,
         worker[w].event = e, Retry(w), MayRetry(worker[w].retries)
  PROVE  EventInv(e)'
<1>1. Attempting(w, e) /\ worker[w].pc = "retry"
  BY DEF Attempting, Retry
<1> DEFINE m == [event |-> e, retries |-> worker[w].retries + 1]
<1>2. queue' = queue \union {m}
  BY DEF Retry
<1>3. Waiting(e)' = {m} /\ Posts(e)' = Posts(e) /\ Unsent(e)' = Unsent(e) /\ answers' = answers
  BY <1>1, <1>2, OnlyOne DEF Waiting, Retry, Posts, Unsent
<1>4. Posts(e) = m.retries
  BY <1>1 DEF EventInv, KnowsPosts, Busy, Attempting
<1>5. /\ \A v \in Workers \ {w} : worker'[v] = worker[v]
      /\ worker'[w].event = None \/ worker'[w].pc = "handler"
  BY DEF Retry, AfterRetry, TypeOK, Idle, Doing
<1>6. \A v \in Workers : ~Attempting(v, e)'
  BY <1>1, <1>5, OnlyOne, WebhookAssumption DEF Attempting
<1>7. OneInFlight(e)'
  BY <1>1, <1>3, <1>6, OnlyOne DEF OneInFlight
<1>8. KnowsPosts(e)'
  BY <1>3, <1>4, <1>6 DEF KnowsPosts, Busy, Attempting
<1>9. CountsPosts(e)'
  BY <1>3, <1>6 DEF EventInv, CountsPosts, Busy, Attempting, Retry
<1>10. EndsWithSuccess(e)'
  BY <1>1, <1>3, OnlyOne DEF EndsWithSuccess
<1> QED BY <1>3, <1>7, <1>8, <1>9, <1>10 DEF EventInv

-----------------------------------------------------------------------------
(* Every step preserves it: the event of the step by the lemma of its       *)
(* action, the others by EventFrame.                                        *)
LEMMA EventTask ==
  ASSUME TypeOK, TypeOK', NEW e \in Events, EventInv(e), NEW w \in Workers, Task(w)
  PROVE  EventInv(e)'
<1>0. Idle.event = None /\ None # e
  BY WebhookAssumption DEF Idle, Doing
<1>1. CASE Take(w)
  <2>1. PICK m \in queue : queue' = queue \ {m} /\ worker' = [worker EXCEPT ![w] = Doing("read", m, "none")]
    BY <1>1 DEF Take
  <2>2. CASE m.event = e
    BY <1>1, <2>1, <2>2, EventTaken DEF Take
  <2>3. CASE m.event # e
    <3>1. \A v \in Workers : worker'[v].event = e => worker'[v] = worker[v]
      BY <2>1, <2>3 DEF TypeOK, Doing
    <3> QED BY <1>1, <2>1, <3>1, EventFrame DEF Take, Unsent
  <2> QED BY <2>2, <2>3
<1>2. CASE Read(w)
  <2>1. CASE /\ worker[w].event = e /\ worker' = [worker EXCEPT ![w] = Doing("post", @, "none")]
             /\ event' = event
    BY <1>2, <2>1, EventRead DEF Read
  <2>2. CASE /\ worker[w].event # e /\ worker' = [worker EXCEPT ![w] = Doing("post", @, "none")]
             /\ event' = event
    <3>1. \A v \in Workers : worker'[v].event = e => worker'[v] = worker[v]
      BY <2>2 DEF TypeOK, Doing
    <3> QED BY <1>2, <2>2, <3>1, EventFrame DEF Read, Unsent
  <2>3. CASE worker' = [worker EXCEPT ![w] = Idle]
    <3>1. \A v \in Workers : worker'[v].event = e => worker'[v] = worker[v]
      BY <1>0, <2>3 DEF TypeOK
    <3>2. event'[e] # None => event[e] # None /\ event'[e].attempts = event[e].attempts
      <4>1. CASE event' = event
        BY <4>1 DEF TypeOK, Row
      <4>2. CASE /\ event[worker[w].event] # None
                 /\ event' = [event EXCEPT ![worker[w].event] = Marked(@, "FAILED")]
        BY <1>2, <4>2, WorkerFields DEF Read, TypeOK, Marked
      <4>3. \/ event' = event
            \/ /\ event[worker[w].event] # None
               /\ event' = [event EXCEPT ![worker[w].event] = Marked(@, "FAILED")]
        BY <1>2 DEF Read
      <4> QED BY <4>1, <4>2, <4>3
    <3> QED BY <1>2, <3>1, <3>2, EventFrame DEF Read, Unsent
  <2> QED BY <1>2, <2>1, <2>2, <2>3 DEF Read
<1>3. CASE Post(w)
  <2>1. PICK a \in Answers :
          /\ answers' = [answers EXCEPT ![worker[w].event] = Append(@, a)]
          /\ worker' = [worker EXCEPT ![w] = Doing("record", @, a)]
    BY <1>3 DEF Post
  <2>2. CASE worker[w].event = e
    BY <1>3, <2>1, <2>2, EventPosted DEF Post
  <2>3. CASE worker[w].event # e
    <3>1. \A v \in Workers : worker'[v].event = e => worker'[v] = worker[v]
      BY <2>1, <2>3 DEF TypeOK, Doing
    <3>2. answers'[e] = answers[e]
      BY <2>1, <2>3 DEF TypeOK
    <3> QED BY <1>3, <3>1, <3>2, EventFrame DEF Post, Unsent
  <2> QED BY <2>2, <2>3
<1>4. CASE Record(w)
  <2>1. CASE worker[w].event = e
    BY <1>4, <2>1, EventRecorded
  <2>2. CASE worker[w].event # e
    <3>1. \A v \in Workers : worker'[v].event = e => worker'[v] = worker[v]
      BY <1>0, <1>4, <2>2 DEF Record, TypeOK, Doing
    <3>2. event'[e] = event[e]
      BY <1>4, <2>2 DEF Record, TypeOK
    <3> QED BY <1>4, <3>1, <3>2, EventFrame DEF Record, Unsent
  <2> QED BY <2>1, <2>2
<1>5. CASE Retry(w)
  <2>1. CASE worker[w].event = e /\ MayRetry(worker[w].retries)
    BY <1>5, <2>1, EventRetried
  <2>2. CASE ~(worker[w].event = e /\ MayRetry(worker[w].retries))
    <3>1. \A v \in Workers : worker'[v].event = e =>
             worker[v].event = e /\ (worker'[v] = worker[v] \/ worker'[v].pc = "handler")
      BY <1>0, <1>5 DEF Retry, AfterRetry, TypeOK, Doing
    <3>2. \A m \in queue' : m.event = e => m \in queue
      BY <1>5, <2>2 DEF Retry
    <3> QED BY <1>5, <3>1, <3>2, EventFrame DEF Retry, Unsent
  <2> QED BY <2>1, <2>2
<1>6. CASE Handler(w)
  <2>1. \A v \in Workers : worker'[v].event = e => worker'[v] = worker[v]
    BY <1>0, <1>6 DEF Handler, TypeOK
  <2>2. worker[w].event \in Events /\ event[worker[w].event] # None
    BY <1>6, WorkerFields DEF Handler, TypeOK
  <2>3. event'[e] # None => event[e] # None /\ event'[e].attempts = event[e].attempts
    BY <1>6, <2>2 DEF Handler, TypeOK, Marked
  <2> QED BY <1>6, <2>1, <2>3, EventFrame DEF Handler, Unsent
<1> QED BY <1>1, <1>2, <1>3, <1>4, <1>5, <1>6 DEF Task

LEMMA EventFault ==
  ASSUME TypeOK, TypeOK', NEW e \in Events, EventInv(e), Fault
  PROVE  EventInv(e)'
<1>0. Idle.event = None /\ None # e
  BY WebhookAssumption DEF Idle, Doing
<1>1. Unsent(e)' => Unsent(e)
  BY DEF Fault, Unsent, TypeOK
<1> DEFINE Stays == \A v \in Workers : worker'[v].event = e =>
         worker[v].event = e /\ (worker'[v] = worker[v] \/ worker'[v].pc = "handler")
<1>2. Stays
  <2>1. ASSUME NEW w \in Workers, worker' = [worker EXCEPT ![w] = Idle] PROVE Stays
    BY <1>0, <2>1 DEF TypeOK
  <2>2. ASSUME NEW w \in Workers, AfterRetry(w) PROVE Stays
    BY <1>0, <2>2 DEF AfterRetry, TypeOK, Doing
  <2>3. ASSUME worker' = worker PROVE Stays
    BY <2>3
  <2> QED BY <2>1, <2>2, <2>3 DEF Fault
<1> QED BY <1>1, <1>2, EventFrame DEF Fault

LEMMA EventRequest ==
  ASSUME TypeOK, TypeOK', NEW e \in Events, EventInv(e), NEW f \in Events, Request(f)
  PROVE  EventInv(e)'
<1>1. CASE f = e /\ SaveTest(e)
  BY <1>1, EventSaved
<1>2. CASE f # e /\ SaveTest(f)
  <2>1. event'[e] = event[e] /\ web'[e] = web[e]
    BY <1>2 DEF SaveTest, TypeOK
  <2> QED BY <1>2, <2>1, EventFrame DEF SaveTest, Unsent
<1>3. CASE RecordSale(f) \/ EndRequest(f)
  <2>1. Unsent(e)' => Unsent(e)
    BY <1>3 DEF RecordSale, EndRequest, Unsent, TypeOK
  <2> QED BY <1>3, <2>1, EventFrame DEF RecordSale, EndRequest
<1>4. CASE Broadcast(f) \/ SendTest(f)
  <2>1. Unsent(e)' => Unsent(e)
    BY <1>4 DEF Broadcast, SendTest, Unsent, TypeOK
  <2>2. CASE f = e /\ queue' = queue \union {First(e)}
    <3>1. Unsent(e) /\ ~Unsent(e)'
      BY <1>4, <2>2, WebhookAssumption DEF Broadcast, SendTest, Unsent, TypeOK, First
    <3> QED BY <1>4, <2>2, <3>1, EventSent DEF Broadcast, SendTest
  <2>3. CASE f # e \/ queue' = queue
    <3>1. \A m \in queue' : m.event = e => m \in queue
      BY <1>4, <2>3 DEF Broadcast, SendTest, First
    <3> QED BY <1>4, <2>1, <3>1, EventFrame DEF Broadcast, SendTest
  <2> QED BY <1>4, <2>2, <2>3 DEF Broadcast, SendTest
<1> QED BY <1>1, <1>2, <1>3, <1>4 DEF Request

LEMMA DeliveryNext == TypeOK /\ DeliveryInv /\ [Next]_vars => DeliveryInv'
<1> SUFFICES ASSUME TypeOK, TypeOK', DeliveryInv, [Next]_vars, NEW e \in Events
             PROVE  EventInv(e)'
  BY TypeNext DEF DeliveryInv, EventInv
<1>1. EventInv(e)
  BY DEF DeliveryInv, EventInv
<1>2. CASE Subscribe \/ UNCHANGED vars
  BY <1>1, <1>2, EventFrame DEF Subscribe, vars, Unsent
<1> QED BY <1>1, <1>2, EventTask, EventFault, EventRequest DEF Next

(* The delivery of every event follows its invariant.                       *)
THEOREM DeliveryInvariant == Spec => []DeliveryInv
<1>1. Init => DeliveryInv
  BY EventInit DEF DeliveryInv, EventInv
<1> QED BY <1>1, TypeInit, TypeNext, DeliveryNext, PTL DEF Spec

(* No event is posted more than max_retries + 1 times, whatever stalls,     *)
(* fails or races, and its row never counts more attempts than were made.   *)
THEOREM AttemptsAreBounded == Spec => []AttemptsBounded
<1>1. DeliveryInv => AttemptsBounded
  BY DEF DeliveryInv, AttemptsBounded, CountsPosts
<1> QED BY <1>1, DeliveryInvariant, PTL

(* Nothing posts an event again after a 2xx: a receiver takes it twice only *)
(* if an earlier answer came too late.                                      *)
THEOREM SuccessEndsPosting == Spec => []NoRepeatAfterSuccess
<1>1. DeliveryInv => NoRepeatAfterSuccess
  BY DEF DeliveryInv, NoRepeatAfterSuccess, EndsWithSuccess
<1> QED BY <1>1, DeliveryInvariant, PTL

(* All of it together: whatever fails, stalls or races, the posts of an     *)
(* event are few and end with the first 2xx.                                *)
THEOREM PostsKept == Spec => []PostsInv
<1>1. TypeOK /\ AttemptsBounded /\ NoRepeatAfterSuccess => PostsInv
  BY DEF PostsInv
<1> QED
  BY <1>1, TypeInvariant, AttemptsAreBounded, SuccessEndsPosting, PTL
-----------------------------------------------------------------------------
(* What the row says of the posts.  A worker past its post knows the last   *)
(* answer; the handler still does when no retry overtakes it, and then no   *)
(* other worker is at the event and the row is not final.                   *)
Latest(e) == answers[e][Posts(e)]

WorkerHonest(w, e) ==
    /\ worker[w].pc \in {"record", "retry"} \/ (prompt /\ worker[w].pc = "handler")
         => Posts(e) > 0 /\ Latest(e) = worker[w].answer
    /\ worker[w].pc \in {"retry", "handler"} => worker[w].answer # "ok"
    /\ worker[w].pc = "handler" => worker[w].retries < Posts(e)
    /\ prompt /\ worker[w].pc # "read" => event[e] # None /\ event[e].status \notin Final

RowHonest(e) ==
    event[e] # None =>
        /\ event[e].status = "DELIVERED" => Posts(e) > 0 /\ Latest(e) = "ok"
        /\ event[e].status = "DEAD_LETTERED" => Posts(e) = MaxRetries + 1

SuccessShows(e) ==
    prompt /\ faults = 0 /\ Posts(e) > 0 /\ Latest(e) = "ok" =>
        /\ event[e] # None
        /\ event[e].status = "DELIVERED" \/ \E w \in Busy(e) : worker[w].pc = "record"

Honest(e) ==
    /\ web[e] = "none" => event[e] = None
    /\ RowHonest(e)
    /\ \A w \in Busy(e) : WorkerHonest(w, e)
    /\ prompt => \A v, w \in Busy(e) : v = w
    /\ SuccessShows(e)

HonestInv == faults \in Nat /\ \A e \in Events : Honest(e)

LEMMA HonestInit ==
  ASSUME Init, NEW e \in Events
  PROVE  Honest(e)
  BY WebhookAssumption DEF Init, Honest, RowHonest, SuccessShows, Busy, Idle, Doing, Posts

(* Nothing is done to the event, except that workers may leave it.          *)
LEMMA HonestFrame ==
  ASSUME NEW e \in Events, Honest(e), prompt' = prompt,
         answers'[e] = answers[e], event'[e] = event[e], web'[e] = "none" => web[e] = "none",
         faults' = 0 => faults = 0,
         \A v \in Workers : worker'[v].event = e => worker'[v] = worker[v],
         faults' = 0 => \A v \in Workers :
             worker[v].event = e /\ worker[v].pc = "record" => worker'[v] = worker[v]
  PROVE  Honest(e)'
<1>1. Posts(e)' = Posts(e) /\ Latest(e)' = Latest(e)
  BY DEF Posts, Latest
<1>2. Busy(e)' \subseteq Busy(e) /\ \A v \in Busy(e)' : worker'[v] = worker[v]
  BY DEF Busy
<1>3. RowHonest(e)'
  BY <1>1 DEF Honest, RowHonest
<1>4. \A v \in Busy(e)' : WorkerHonest(v, e)'
  BY <1>1, <1>2 DEF Honest, WorkerHonest
<1>5. SuccessShows(e)'
  BY <1>1 DEF Honest, SuccessShows, Busy
<1> QED BY <1>2, <1>3, <1>4, <1>5 DEF Honest

(* A worker that is not the one that acts.                                  *)
LEMMA OthersHonest ==
  ASSUME NEW e \in Events, EventInv(e), Honest(e),
         NEW w \in Busy(e), NEW v \in Busy(e), v # w, worker'[v] = worker[v], prompt' = prompt,
         answers'[e] = answers[e] \/ (Attempting(w, e) /\ Posts(e)' = Posts(e) + 1),
         TypeOK
  PROVE  WorkerHonest(v, e)'
<1>1. ~prompt /\ WorkerHonest(v, e) /\ v \in Workers /\ w \in Workers /\ worker[v].event = e
  BY DEF Honest, Busy
<1>2. CASE answers'[e] = answers[e]
  BY <1>1, <1>2 DEF WorkerHonest, Posts, Latest
<1>3. CASE Attempting(w, e) /\ Posts(e)' = Posts(e) + 1
  <2>1. worker[v].pc = "handler"
    BY <1>1, <1>3 DEF EventInv, OneInFlight, Attempting
  <2>2. worker[v].retries \in Nat /\ Posts(e) \in Nat
    BY <1>1, <2>1, WorkerFields DEF Posts, TypeOK
  <2> QED BY <1>1, <1>3, <2>1, <2>2 DEF WorkerHonest
<1> QED BY <1>2, <1>3

(* What is left to show of a step of the worker w at the event.             *)
LEMMA HonestActs ==
  ASSUME TypeOK, NEW e \in Events, EventInv(e), Honest(e), NEW w \in Busy(e),
         \A v \in Workers \ {w} : worker'[v] = worker[v],
         UNCHANGED <<prompt, faults, web>>, event'[e] # None => event[e] # None,
         answers'[e] = answers[e] \/ (Attempting(w, e) /\ Posts(e)' = Posts(e) + 1),
         RowHonest(e)', worker'[w].event = e => WorkerHonest(w, e)', SuccessShows(e)'
  PROVE  Honest(e)'
<1>1. Busy(e)' \subseteq Busy(e)
  BY DEF Busy
<1>2. \A v \in Busy(e)' \ {w} : WorkerHonest(v, e)'
  <2>1. TAKE v \in Busy(e)' \ {w}
  <2>2. v \in Busy(e) /\ v # w /\ worker'[v] = worker[v]
    BY <1>1 DEF Busy
  <2> QED BY <2>2, OthersHonest
<1>3. w \in Busy(e)' => WorkerHonest(w, e)'
  BY DEF Busy
<1> QED BY <1>1, <1>2, <1>3 DEF Honest

LEMMA HonestTaken ==
  ASSUME TypeOK, NEW e \in Events, Honest(e), NEW w \in Workers, worker[w].pc = "idle",
         NEW m, m.event = e, prompt => Busy(e) = {},
         worker' = [worker EXCEPT ![w] = Doing("read", m, "none")],
         UNCHANGED <<event, web, answers, prompt, faults>>
  PROVE  Honest(e)'
<1>1. /\ worker'[w].pc = "read" /\ worker'[w].event = e /\ w \notin Busy(e)
      /\ \A v \in Workers \ {w} : worker'[v] = worker[v]
  BY IdleWorker DEF TypeOK, Doing, Busy
<1>2. Busy(e)' = Busy(e) \union {w} /\ \A v \in Busy(e) : worker'[v] = worker[v]
  BY <1>1 DEF Busy
<1>3. Posts(e)' = Posts(e) /\ Latest(e)' = Latest(e)
  BY DEF Posts, Latest
<1>4. RowHonest(e)'
  BY <1>3 DEF Honest, RowHonest
<1>5. \A v \in Busy(e)' : WorkerHonest(v, e)'
  <2>1. WorkerHonest(w, e)'
    BY <1>1 DEF WorkerHonest
  <2>2. \A v \in Busy(e) : WorkerHonest(v, e)'
    BY <1>2, <1>3 DEF Honest, WorkerHonest
  <2> QED BY <1>2, <2>1, <2>2
<1>6. SuccessShows(e)'
  BY <1>2, <1>3 DEF Honest, SuccessShows
<1> QED BY <1>2, <1>4, <1>5, <1>6 DEF Honest

(* A worker that has posted knows the row to be there, and how many posts   *)
(* there were.                                                              *)
LEMMA WorkerKnows ==
  ASSUME TypeOK, NEW e \in Events, EventInv(e), Honest(e), NEW w \in Busy(e)
  PROVE  /\ w \in Workers /\ worker[w].event = e /\ worker[w].pc # "idle"
         /\ WorkerHonest(w, e)
         /\ worker[w].retries \in 0..MaxRetries /\ Posts(e) \in Nat
         /\ worker[w].pc \in {"post", "record", "retry", "handler"} => event[e] \in Row
         /\ worker[w].pc \in {"record", "retry"} => Posts(e) = worker[w].retries + 1
         /\ worker[w].pc = "post" => Posts(e) = worker[w].retries
<1>1. w \in Workers /\ worker[w].event = e /\ worker[w].pc # "idle" /\ WorkerHonest(w, e)
  BY IdleWorker DEF Busy, Honest
<1>2. worker[w].retries \in 0..MaxRetries /\ Posts(e) \in Nat
  BY <1>1, WorkerFields DEF Posts, TypeOK
<1>3. worker[w].pc \in {"post", "record", "retry", "handler"} => event[e] \in Row
  BY <1>1 DEF TypeOK
<1> QED BY <1>1, <1>2, <1>3 DEF EventInv, KnowsPosts

LEMMA HonestRead ==
  ASSUME TypeOK, TypeOK', NEW e \in Events, EventInv(e), Honest(e), NEW w \in Busy(e), Read(w)
  PROVE  Honest(e)'
<1>1. /\ w \in Workers /\ worker[w].event = e /\ worker[w].pc = "read" /\ UNCHANGED <<web, prompt, answers, faults>>
      /\ \A v \in Workers \ {w} : worker'[v] = worker[v]
  BY WorkerKnows DEF Read, TypeOK
<1>2. Posts(e)' = Posts(e) /\ Latest(e)' = Latest(e)
  BY <1>1 DEF Posts, Latest
<1>3. CASE worker' = [worker EXCEPT ![w] = Idle] /\ UNCHANGED event
  <2>1. worker'[w].event # e
    BY <1>1, <1>3, WebhookAssumption DEF TypeOK, Idle, Doing
  <2>2. \A v \in Workers : worker'[v].event = e => worker'[v] = worker[v]
    BY <1>1, <2>1
  <2>3. \A v \in Workers : worker[v].event = e /\ worker[v].pc = "record" => worker'[v] = worker[v]
    BY <1>1
  <2> QED BY <1>1, <1>3, <2>2, <2>3, HonestFrame
<1>4. CASE /\ event[e] # None /\ event[e].status \notin Final
           /\ worker' = [worker EXCEPT ![w] = Doing("post", @, "none")] /\ UNCHANGED event
  <2>1. worker'[w].pc = "post" /\ worker'[w].event = e
    BY <1>1, <1>4 DEF TypeOK, Doing
  <2>2. WorkerHonest(w, e)'
    BY <1>4, <2>1 DEF WorkerHonest
  <2>3. RowHonest(e)'
    BY <1>2, <1>4 DEF Honest, RowHonest
  <2>4. SuccessShows(e)'
    BY <1>1, <1>2, <1>4 DEF Honest, SuccessShows, Busy
  <2> QED BY <1>1, <1>4, <2>2, <2>3, <2>4, HonestActs
<1>5. CASE /\ event[e] # None /\ event[e].status \notin Final
           /\ worker' = [worker EXCEPT ![w] = Idle]
           /\ event' = [event EXCEPT ![e] = Marked(@, "FAILED")]
  <2>1. worker'[w].event # e
    BY <1>1, <1>5, WebhookAssumption DEF TypeOK, Idle, Doing
  <2>2. event'[e].status = "FAILED"
    BY <1>5 DEF TypeOK, Marked
  <2>3. RowHonest(e)'
    BY <2>2 DEF RowHonest
  <2>4. SuccessShows(e)'
    <3>1. ~(prompt /\ faults = 0 /\ Posts(e) > 0 /\ Latest(e) = "ok")
      BY <1>1, <1>5 DEF Honest, SuccessShows, Busy, Final
    <3> QED BY <1>1, <1>2, <3>1 DEF SuccessShows
  <2> QED BY <1>1, <1>5, <2>1, <2>3, <2>4, HonestActs
<1> QED BY <1>1, <1>3, <1>4, <1>5 DEF Read

LEMMA HonestPosted ==
  ASSUME TypeOK, TypeOK', NEW e \in Events, EventInv(e), Honest(e), NEW w \in Busy(e), Post(w)
  PROVE  Honest(e)'
<1>1. /\ w \in Workers /\ worker[w].event = e /\ worker[w].pc = "post"
      /\ UNCHANGED <<event, web, prompt, faults>>
      /\ WorkerHonest(w, e) /\ event[e] \in Row /\ Posts(e) \in 0..MaxRetries
  BY WorkerKnows DEF Post
<1>2. PICK a \in Answers :
         /\ answers' = [answers EXCEPT ![e] = Append(@, a)]
         /\ worker' = [worker EXCEPT ![w] = Doing("record", @, a)]
  BY <1>1 DEF Post
<1>3. /\ \A v \in Workers \ {w} : worker'[v] = worker[v]
      /\ worker'[w].pc = "record" /\ worker'[w].event = e /\ worker'[w].answer = a
  BY <1>1, <1>2 DEF TypeOK, Doing
<1>4. Posts(e)' = Posts(e) + 1 /\ Latest(e)' = a
  <2>1. answers[e] \in Seq(Answers) /\ answers'[e] = Append(answers[e], a)
    BY <1>2 DEF TypeOK
  <2> QED BY <2>1, AppendProperties DEF Posts, Latest
<1>5. Attempting(w, e)
  BY <1>1 DEF Attempting
<1>6. event[e].status \notin Final
  <2>1. \A i \in DOMAIN answers[e] : answers[e][i] # "ok"
    BY <1>1, <1>5, OnlyOne
  <2>2. Posts(e) > 0 => Latest(e) # "ok"
    BY <1>1, <2>1 DEF Posts, Latest, TypeOK
  <2>3. RowHonest(e) /\ event[e] # None
    BY <1>1, WebhookAssumption DEF Honest
  <2>4. MaxRetries \in Nat
    BY WebhookAssumption
  <2> QED BY <1>1, <2>2, <2>3, <2>4 DEF RowHonest, Final
<1>7. RowHonest(e)'
  BY <1>1, <1>6 DEF RowHonest, Final
<1>8. WorkerHonest(w, e)'
  <2>1. event[e] # None
    BY <1>1, WebhookAssumption
  <2> QED BY <1>1, <1>3, <1>4, <1>6, <2>1 DEF WorkerHonest
<1>9. SuccessShows(e)'
  <2>1. event'[e] # None /\ w \in Busy(e)'
    BY <1>1, <1>3, WebhookAssumption DEF Busy
  <2> QED BY <1>3, <2>1 DEF SuccessShows
<1> QED BY <1>1, <1>3, <1>4, <1>5, <1>7, <1>8, <1>9, HonestActs

LEMMA HonestRecorded ==
  ASSUME TypeOK, TypeOK', NEW e \in Events, EventInv(e), Honest(e), NEW w \in Busy(e), Record(w)
  PROVE  Honest(e)'
<1>1. /\ w \in Workers /\ worker[w].event = e /\ worker[w].pc = "record"
      /\ UNCHANGED <<answers, web, prompt, faults>>
      /\ WorkerHonest(w, e) /\ event[e] \in Row /\ Posts(e) = worker[w].retries + 1
      /\ event[e] # None
      /\ \A v \in Workers \ {w} : worker'[v] = worker[v]
  BY WorkerKnows, WebhookAssumption DEF Record, TypeOK
<1>2. Posts(e)' = Posts(e) /\ Latest(e)' = Latest(e) /\ Posts(e) > 0 /\ Latest(e) = worker[w].answer
  BY <1>1 DEF Posts, Latest, WorkerHonest
<1>3. CASE worker[w].answer = "ok"
  <2>1. event'[e].status = "DELIVERED" /\ worker'[w] = Idle
    BY <1>1, <1>3 DEF Record, Delivered, TypeOK
  <2>2. worker'[w].event # e
    BY <1>1, <2>1, WebhookAssumption DEF Idle, Doing
  <2>3. RowHonest(e)'
    BY <1>2, <1>3, <2>1 DEF RowHonest
  <2>4. event'[e] # None
    <3>1. /\ event'[e] = [status |-> "DELIVERED", attempts |-> event[e].attempts + 1]
          /\ event[e].attempts + 1 \in Nat
      BY <1>1, <1>3 DEF Record, Delivered, TypeOK, Row
    <3>2. event'[e] \in Row
      BY <3>1 DEF Row, Statuses
    <3> QED BY <3>2, WebhookAssumption
  <2>5. SuccessShows(e)'
    BY <2>1, <2>4 DEF SuccessShows
  <2> QED BY <1>1, <2>2, <2>3, <2>5, HonestActs
<1>4. CASE worker[w].answer # "ok"
  <2>1. event'[e].status = "FAILED" /\ worker'[w] = Doing("retry", worker[w], worker[w].answer)
    BY <1>1, <1>4 DEF Record, Delivered, TypeOK
  <2>2. worker'[w].pc = "retry" /\ worker'[w].answer = worker[w].answer
    BY <2>1 DEF Doing
  <2>3. event'[e] # None
    <3>1. /\ event'[e] = [status |-> "FAILED", attempts |-> event[e].attempts + 1]
          /\ event[e].attempts + 1 \in Nat
      BY <1>1, <1>4 DEF Record, Delivered, TypeOK, Row
    <3>2. event'[e] \in Row
      BY <3>1 DEF Row, Statuses
    <3> QED BY <3>2, WebhookAssumption
  <2>4. RowHonest(e)'
    BY <2>1 DEF RowHonest
  <2>5. WorkerHonest(w, e)'
    BY <1>1, <1>2, <1>4, <2>1, <2>2, <2>3 DEF WorkerHonest, Final
  <2>6. SuccessShows(e)'
    BY <1>2, <1>4 DEF SuccessShows
  <2> QED BY <1>1, <2>4, <2>5, <2>6, HonestActs
<1> QED BY <1>3, <1>4

(* The retry has sent its message, or could not.                            *)
LEMMA HonestRetried ==
  ASSUME TypeOK, NEW e \in Events, EventInv(e), Honest(e), NEW w \in Busy(e),
         worker[w].pc = "retry", AfterRetry(w), faults' = 0 => faults = 0,
         UNCHANGED <<event, web, prompt, answers>>
  PROVE  Honest(e)'
<1>1. /\ w \in Workers /\ worker[w].event = e
      /\ WorkerHonest(w, e) /\ event[e] \in Row /\ Posts(e) = worker[w].retries + 1
      /\ worker[w].retries \in 0..MaxRetries /\ event[e] # None
      /\ \A v \in Workers \ {w} : worker'[v] = worker[v]
  BY WorkerKnows, WebhookAssumption DEF AfterRetry, TypeOK
<1>2. CASE worker'[w] = Idle
  <2>1. worker'[w].event # e
    BY <1>2, WebhookAssumption DEF Idle, Doing
  <2>2. \A v \in Workers : worker'[v].event = e => worker'[v] = worker[v]
    BY <1>1, <2>1
  <2>3. \A v \in Workers : worker[v].event = e /\ worker[v].pc = "record" => worker'[v] = worker[v]
    BY <1>1
  <2> QED BY <2>2, <2>3, HonestFrame
<1>3. CASE worker'[w] = Doing("handler", worker[w], worker[w].answer)
  <2>1. /\ worker'[w].pc = "handler" /\ worker'[w].event = e
        /\ worker'[w].answer = worker[w].answer /\ worker'[w].retries = worker[w].retries
    BY <1>1, <1>3 DEF Doing
  <2>2. Posts(e)' = Posts(e) /\ Latest(e)' = Latest(e)
    BY DEF Posts, Latest
  <2>3. WorkerHonest(w, e)'
    BY <1>1, <2>1, <2>2 DEF WorkerHonest
  <2>4. RowHonest(e)'
    BY <2>2 DEF Honest, RowHonest
  <2>5. SuccessShows(e)'
    <3>1. ~(Posts(e) > 0 /\ Latest(e) = "ok")
      BY <1>1 DEF WorkerHonest
    <3> QED BY <2>2, <3>1 DEF SuccessShows
  <2>6. \A v \in Busy(e) : WorkerHonest(v, e)'
    <3>1. TAKE v \in Busy(e)
    <3>2. v # w => worker'[v] = worker[v]
      BY <1>1 DEF Busy
    <3> QED BY <2>3, <3>2, OthersHonest
  <2>7. Busy(e)' \subseteq Busy(e)
    BY <1>1 DEF Busy
  <2> QED BY <2>4, <2>5, <2>6, <2>7 DEF Honest
<1> QED BY <1>1, <1>2, <1>3 DEF AfterRetry, TypeOK

LEMMA HonestHandled ==
  ASSUME TypeOK, TypeOK', NEW e \in Events, EventInv(e), Honest(e), NEW w \in Busy(e), Handler(w)
  PROVE  Honest(e)'
<1>1. /\ w \in Workers /\ worker[w].event = e /\ worker[w].pc = "handler"
      /\ UNCHANGED <<answers, web, prompt, faults>>
      /\ WorkerHonest(w, e) /\ event[e] \in Row /\ event[e] # None
      /\ worker[w].retries \in 0..MaxRetries /\ Posts(e) \in Nat
      /\ worker'[w] = Idle
      /\ \A v \in Workers \ {w} : worker'[v] = worker[v]
  BY WorkerKnows, WebhookAssumption DEF Handler, TypeOK
<1>2. Posts(e)' = Posts(e) /\ Latest(e)' = Latest(e)
  BY <1>1 DEF Posts, Latest
<1>3. \/ event'[e].status = "FAILED"
      \/ event'[e].status = "DEAD_LETTERED" /\ worker[w].retries = MaxRetries
  <2>1. CASE LastTry(worker[w].retries)
    <3>1. worker[w].retries = MaxRetries
      BY <1>1, <2>1, WebhookAssumption DEF LastTry
    <3> QED BY <1>1, <2>1, <3>1 DEF Handler, Marked, TypeOK
  <2>2. CASE ~LastTry(worker[w].retries)
    BY <1>1, <2>2 DEF Handler, Marked, TypeOK
  <2> QED BY <2>1, <2>2
<1>4. RowHonest(e)'
  <2>1. worker[w].retries = MaxRetries => Posts(e) = MaxRetries + 1
    BY <1>1, WebhookAssumption DEF WorkerHonest, EventInv
  <2> QED BY <1>2, <1>3, <2>1 DEF RowHonest
<1>5. SuccessShows(e)'
  <2>1. ~(prompt /\ Posts(e) > 0 /\ Latest(e) = "ok")
    BY <1>1 DEF WorkerHonest
  <2> QED BY <1>1, <1>2, <2>1 DEF SuccessShows
<1>6. worker'[w].event # e
  BY <1>1, WebhookAssumption DEF Idle, Doing
<1> QED BY <1>1, <1>4, <1>5, <1>6, HonestActs

LEMMA HonestTask ==
  ASSUME TypeOK, TypeOK', NEW e \in Events, EventInv(e), Honest(e), NEW w \in Workers, Task(w)
  PROVE  Honest(e)'
<1>0. Idle.event = None /\ None # e
  BY WebhookAssumption DEF Idle, Doing
<1>1. CASE Take(w)
  <2>1. PICK m \in queue : Due(m) /\ worker' = [worker EXCEPT ![w] = Doing("read", m, "none")]
    BY <1>1 DEF Take
  <2>2. CASE m.event = e
    <3>1. prompt => Busy(e) = {}
      BY <2>1, <2>2 DEF Due, Busy
    <3>2. worker[w].pc = "idle" /\ UNCHANGED <<event, web, answers, prompt, faults>>
      BY <1>1 DEF Take
    <3> QED BY <2>1, <2>2, <3>1, <3>2, HonestTaken
  <2>3. CASE m.event # e
    <3>1. \A v \in Workers : worker'[v].event = e => worker'[v] = worker[v]
      BY <2>1, <2>3 DEF TypeOK, Doing
    <3>2. \A v \in Workers : worker[v].event = e /\ worker[v].pc = "record" => worker'[v] = worker[v]
      BY <1>1, <2>1 DEF Take, TypeOK
    <3> QED BY <1>1, <3>1, <3>2, HonestFrame DEF Take
  <2> QED BY <2>2, <2>3
<1>2. CASE worker[w].event = e /\ ~Take(w)
  <2>1. w \in Busy(e)
    BY <1>2 DEF Busy
  <2>2. CASE Retry(w)
    BY <2>1, <2>2, HonestRetried DEF Retry
  <2> QED BY <1>2, <2>1, <2>2, HonestRead, HonestPosted, HonestRecorded, HonestHandled DEF Task
<1>3. CASE worker[w].event # e /\ ~Take(w)
  <2>1. UNCHANGED <<web, prompt, faults>>
    BY <1>3 DEF Task, Read, Post, Record, Retry, Handler
  <2>2. \A v \in Workers \ {w} : worker'[v] = worker[v]
    BY <1>3 DEF Task, Read, Post, Record, Retry, AfterRetry, Handler, TypeOK
  <2>3. worker'[w].event # e
    <3>1. worker'[w].event \in {None, worker[w].event}
      <4>1. CASE Read(w)
        BY <1>0, <4>1 DEF Read, Doing, TypeOK
      <4>2. CASE Post(w)
        BY <4>2 DEF Post, Doing, TypeOK
      <4>3. CASE Record(w)
        BY <1>0, <4>3 DEF Record, Doing, TypeOK
      <4>4. CASE Retry(w)
        BY <1>0, <4>4 DEF Retry, AfterRetry, Doing, TypeOK
      <4>5. CASE Handler(w)
        BY <1>0, <4>5 DEF Handler, TypeOK
      <4> QED BY <1>3, <4>1, <4>2, <4>3, <4>4, <4>5 DEF Task
    <3> QED BY <1>0, <1>3, <3>1
  <2>4. answers'[e] = answers[e] /\ event'[e] = event[e]
    BY <1>3 DEF Task, Read, Post, Record, Retry, Handler, TypeOK
  <2>5. \A v \in Workers : worker'[v].event = e => worker'[v] = worker[v]
    BY <2>2, <2>3
  <2>6. \A v \in Workers : worker[v].event = e /\ worker[v].pc = "record" => worker'[v] = worker[v]
    BY <1>3, <2>2
  <2> QED BY <2>1, <2>4, <2>5, <2>6, HonestFrame
<1> QED BY <1>1, <1>2, <1>3

LEMMA HonestFault ==
  ASSUME TypeOK, faults \in Nat, NEW e \in Events, EventInv(e), Honest(e), Fault
  PROVE  Honest(e)'
<1>0. Idle.event = None /\ None # e
  BY WebhookAssumption DEF Idle, Doing
<1>1. faults' # 0 /\ UNCHANGED <<event, prompt, answers>>
  BY DEF Fault
<1>2. web'[e] = "none" => web[e] = "none"
  BY DEF Fault, TypeOK
<1>3. ASSUME NEW w \in Workers, worker' = [worker EXCEPT ![w] = Idle] PROVE Honest(e)'
  <2>1. \A v \in Workers : worker'[v].event = e => worker'[v] = worker[v]
    BY <1>0, <1>3 DEF TypeOK
  <2> QED BY <1>1, <1>2, <2>1, HonestFrame
<1>4. ASSUME NEW w \in Workers, worker[w].pc = "retry", AfterRetry(w), web' = web PROVE Honest(e)'
  <2>1. CASE worker[w].event = e
    <3>1. w \in Busy(e)
      BY <2>1 DEF Busy
    <3> QED BY <1>1, <1>4, <3>1, HonestRetried
  <2>2. CASE worker[w].event # e
    <3>1. \A v \in Workers : worker'[v].event = e => worker'[v] = worker[v]
      BY <1>0, <1>4, <2>2 DEF AfterRetry, TypeOK, Doing
    <3> QED BY <1>1, <1>2, <3>1, HonestFrame
  <2> QED BY <2>1, <2>2
<1>5. CASE worker' = worker
  BY <1>1, <1>2, <1>5, HonestFrame
<1> QED BY <1>3, <1>4, <1>5 DEF Fault

LEMMA HonestRequest ==
  ASSUME TypeOK, NEW e \in Events, Honest(e), EventInv(e), NEW f \in Events, Request(f)
  PROVE  Honest(e)'
<1>1. UNCHANGED <<worker, prompt, answers, faults>> /\ (web'[e] = "none" => web[e] = "none")
  BY DEF Request, RecordSale, Broadcast, EndRequest, SaveTest, SendTest, TypeOK
<1>2. CASE event'[e] = event[e]
  BY <1>1, <1>2, HonestFrame
<1>3. CASE event'[e] # event[e]
  <2>1. SaveTest(e) /\ web[e] = "none" /\ web'[e] = "saved" /\ event'[e] = Pending
    BY <1>3 DEF Request, RecordSale, Broadcast, EndRequest, SaveTest, SendTest, TypeOK
  <2>2. Busy(e) = {} /\ Busy(e)' = {} /\ Posts(e)' = 0
    BY <1>1, <2>1 DEF EventInv, OneInFlight, Unsent, Busy, Posts
  <2>3. RowHonest(e)'
    BY <2>1 DEF RowHonest, Pending
  <2> QED BY <2>1, <2>2, <2>3 DEF Honest, SuccessShows
<1> QED BY <1>2, <1>3

LEMMA HonestNext == TypeOK /\ DeliveryInv /\ HonestInv /\ [Next]_vars => HonestInv'
<1> SUFFICES ASSUME TypeOK, TypeOK', DeliveryInv, HonestInv, [Next]_vars PROVE HonestInv'
  BY TypeNext
<1>1. faults' \in Nat
  <2>1. faults' = faults \/ faults' = faults + 1
    BY DEF Next, Request, RecordSale, Broadcast, EndRequest, SaveTest, SendTest, Task, Take,
           Read, Post, Record, Retry, Handler, Subscribe, Fault, vars
  <2> QED BY <2>1 DEF HonestInv
<1>2. ASSUME NEW e \in Events PROVE Honest(e)'
  <2>1. EventInv(e) /\ Honest(e) /\ faults \in Nat
    BY DEF DeliveryInv, EventInv, HonestInv
  <2>2. CASE Subscribe \/ UNCHANGED vars
    BY <2>1, <2>2, HonestFrame DEF Subscribe, vars
  <2> QED BY <2>1, <2>2, HonestTask, HonestFault, HonestRequest DEF Next
<1> QED BY <1>1, <1>2 DEF HonestInv

THEOREM HonestInvariant == Spec => [](TypeOK /\ DeliveryInv /\ HonestInv)
<1>1. Init => HonestInv
  <2>1. Init => faults \in Nat
    BY DEF Init
  <2> QED BY <2>1, HonestInit DEF HonestInv
<1> QED BY <1>1, TypeInvariant, DeliveryInvariant, HonestNext, PTL DEF Spec

(* A row says delivered only after a 2xx and dead-lettered only after the   *)
(* last retry, whatever stalls, fails or races; with prompt tasks and no    *)
(* failure, a 2xx that has been recorded is not shown as a failure.         *)
THEOREM StatusTellsTruth == Spec => []StatusIsHonest
<1>1. TypeOK /\ DeliveryInv /\ HonestInv => StatusIsHonest
  <2> SUFFICES ASSUME TypeOK, HonestInv, NEW e \in Events, event[e] # None
               PROVE  /\ event[e].status = "DELIVERED" => Posts(e) > 0 /\ Last(answers[e]) = "ok"
                      /\ event[e].status = "DEAD_LETTERED" => Posts(e) = MaxRetries + 1
                      /\ prompt /\ faults = 0 /\ Busy(e) = {} /\ Posts(e) > 0 =>
                           (Last(answers[e]) = "ok" => event[e].status = "DELIVERED")
    BY DEF StatusIsHonest
  <2>1. Last(answers[e]) = Latest(e)
    BY DEF Last, Latest, Posts
  <2>2. RowHonest(e) /\ SuccessShows(e)
    BY DEF HonestInv, Honest
  <2> QED BY <2>1, <2>2 DEF RowHonest, SuccessShows
<1> QED BY <1>1, HonestInvariant, PTL

-----------------------------------------------------------------------------
(* The row of a delivered or dead-lettered event, when no retry overtakes   *)
(* the task that asked for it.                                              *)
LEMMA FinalStep ==
  ASSUME TypeOK, DeliveryInv, HonestInv, Next, prompt,
         NEW e \in Events, event[e] # None, event[e].status \in Final
  PROVE  event'[e] = event[e]
<1>1. EventInv(e) /\ Honest(e)
  BY DEF DeliveryInv, EventInv, HonestInv
<1>2. ASSUME NEW w \in Workers, Task(w) PROVE event'[e] = event[e]
  <2>1. CASE worker[w].event # e \/ Take(w) \/ Post(w) \/ Retry(w)
    BY <1>2, <2>1 DEF Task, Take, Read, Post, Record, Retry, Handler, TypeOK
  <2>2. CASE worker[w].event = e /\ Read(w)
    BY <2>2 DEF Read
  <2>3. CASE worker[w].event = e /\ (Record(w) \/ Handler(w))
    <3>1. worker[w].pc \in {"record", "handler"} /\ WorkerHonest(w, e)
      BY <1>1, <2>3 DEF Record, Handler, Honest, Busy
    <3> QED BY <3>1 DEF WorkerHonest
  <2> QED BY <1>2, <2>1, <2>2, <2>3 DEF Task
<1>3. ASSUME NEW f \in Events, Request(f) PROVE event'[e] = event[e]
  BY <1>1, <1>3 DEF Request, RecordSale, Broadcast, EndRequest, SaveTest, SendTest, TypeOK, Honest
<1> QED BY <1>2, <1>3 DEF Next, Subscribe, Fault

(* Nothing rewrites a final row while tasks are prompt.                     *)
THEOREM FinalRowsStay == Spec => FinalStays
<1>1. TypeOK /\ DeliveryInv /\ HonestInv /\ [Next]_vars =>
        [prompt => \A e \in Events :
            event[e] # None /\ event[e].status \in Final => event'[e] = event[e]]_vars
  BY FinalStep
<1> QED BY <1>1, HonestInvariant, PTL DEF Spec, FinalStays

=============================================================================
