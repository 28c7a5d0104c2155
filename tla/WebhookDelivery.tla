--------------------------- MODULE WebhookDelivery ---------------------------
(***************************************************************************)
(* Webhook events of one developer application: rows of webhook_events     *)
(* made by request threads (app/utils/webhooks.py, the webhook routes of   *)
(* app/developer) and the Celery task deliver_webhook that posts them.     *)
(*                                                                         *)
(* A request puts a message with the row's id on the broker; a worker      *)
(* takes it (and acknowledges it at once: acks_late is off), posts the     *)
(* payload to the receiver, commits what came of it and, after a failure,  *)
(* puts the next message on the broker.  Delays between retries are not    *)
(* timed; prompt says whether the 30 s countdown of a retry outlasts what  *)
(* the retrying task still has to do.                                      *)
(***************************************************************************)
EXTENDS Naturals, Sequences, FiniteSets, SequencesExt

CONSTANTS
    Events,       \* ids of webhook_events: a sequence, so never used twice
    Workers,      \* processes of the Celery worker
    MaxRetries,   \* max_retries of deliver_webhook: 6 in the code
    MaxFaults,    \* no more worker, web or broker failures than this
    None          \* no row

Statuses == {"PENDING", "DELIVERED", "FAILED", "DEAD_LETTERED"}
Row      == [status : Statuses, attempts : Nat]

ASSUME WebhookAssumption ==
    /\ IsFiniteSet(Events) /\ IsFiniteSet(Workers)
    /\ MaxRetries \in Nat /\ MaxFaults \in Nat
    /\ None \notin Events /\ None \notin Row

VARIABLES
    subscribed,   \* the application has a webhook_url
    event,        \* committed rows of webhook_events
    queue,        \* messages on the broker
    web,          \* how far the request that makes the event has come
    worker,       \* what each worker process does
    prompt,       \* no retry comes due before the task that asked for it has ended
    answers,      \* history: what each POST of an event came to
    faults        \* history: failures so far

vars == <<subscribed, event, queue, web, worker, prompt, answers, faults>>

Message  == [event : Events, retries : 0..MaxRetries]

(* ok: a 2xx; bad: another code; late: the receiver took the event but the  *)
(* answer missed the 30 s timeout; lost: the event did not arrive.          *)
Answers == {"ok", "bad", "late", "lost"}
Failures == {"late", "lost"}      \* what requests reports as RequestException

Doing(pc, m, a) == [pc |-> pc, event |-> m.event, retries |-> m.retries, answer |-> a]

Idle == Doing("idle", [event |-> None, retries |-> 0], "none")

WorkerState ==
    {Idle} \union
    {Doing(pc, m, a) : pc \in {"read", "post", "record", "retry", "handler"},
                       m \in Message, a \in Answers \union {"none"}}

Init ==
    /\ subscribed \in BOOLEAN
    /\ event = [e \in Events |-> None]
    /\ queue = {}
    /\ web = [e \in Events |-> "none"]
    /\ worker = [w \in Workers |-> Idle]
    /\ prompt \in BOOLEAN
    /\ answers = [e \in Events |-> <<>>]
    /\ faults = 0

-----------------------------------------------------------------------------
(* Request threads. *)

Marked(row, s) == [status |-> s, attempts |-> row.attempts]

Pending == [status |-> "PENDING", attempts |-> 0]
First(e) == [event |-> e, retries |-> 0]

(* POST /transactions commits the sale before it broadcasts. *)
RecordSale(e) ==
    /\ web[e] = "none"
    /\ web' = [web EXCEPT ![e] = "sold"]
    /\ UNCHANGED <<subscribed, event, queue, worker, prompt, answers, faults>>

(* The broadcast adds the row and sends its message ... *)
Broadcast(e) ==
    /\ web[e] = "sold"
    /\ IF subscribed
       THEN queue' = queue \union {First(e)} /\ web' = [web EXCEPT ![e] = "queued"]
       ELSE web' = [web EXCEPT ![e] = "done"] /\ UNCHANGED queue
    /\ UNCHANGED <<subscribed, event, worker, prompt, answers, faults>>

(* ... and nobody commits the row: the session is removed with the request. *)
EndRequest(e) ==
    /\ web[e] = "queued"
    /\ web' = [web EXCEPT ![e] = "done"]
    /\ UNCHANGED <<subscribed, event, queue, worker, prompt, answers, faults>>

(* POST /developer/webhooks/<app>/test commits the row, then sends. *)
SaveTest(e) ==
    /\ web[e] = "none" /\ subscribed
    /\ web' = [web EXCEPT ![e] = "saved"]
    /\ event' = [event EXCEPT ![e] = Pending]
    /\ UNCHANGED <<subscribed, queue, worker, prompt, answers, faults>>

SendTest(e) ==
    /\ web[e] = "saved"
    /\ web' = [web EXCEPT ![e] = "done"]
    /\ queue' = queue \union {First(e)}
    /\ UNCHANGED <<subscribed, event, worker, prompt, answers, faults>>

(* A developer sets or removes the application's webhook. *)
Subscribe ==
    /\ subscribed' = ~subscribed
    /\ UNCHANGED <<event, queue, web, worker, prompt, answers, faults>>

-----------------------------------------------------------------------------
(* deliver_webhook. *)

Due_Early(m) == TRUE
Due(m) == prompt => \A w \in Workers : worker[w].event # m.event

Take(w) ==
    /\ worker[w].pc = "idle"
    /\ \E m \in queue :
         /\ Due(m)
         /\ queue' = queue \ {m}
         /\ worker' = [worker EXCEPT ![w] = Doing("read", m, "none")]
    /\ UNCHANGED <<subscribed, event, web, prompt, answers, faults>>

Final == {"DELIVERED", "DEAD_LETTERED"}

(* An event that is gone, is final, or whose application has no URL any     *)
(* more is not posted; the last is marked FAILED and not retried.           *)
Read(w) ==
    LET e == worker[w].event
    IN  /\ worker[w].pc = "read"
        /\ IF event[e] = None \/ event[e].status \in Final
           THEN worker' = [worker EXCEPT ![w] = Idle] /\ UNCHANGED event
           ELSE IF subscribed
           THEN worker' = [worker EXCEPT ![w] = Doing("post", @, "none")] /\ UNCHANGED event
           ELSE /\ event' = [event EXCEPT ![e] = Marked(@, "FAILED")]
                /\ worker' = [worker EXCEPT ![w] = Idle]
        /\ UNCHANGED <<subscribed, queue, web, prompt, answers, faults>>

Post(w) ==
    /\ worker[w].pc = "post"
    /\ \E a \in Answers :
         /\ answers' = [answers EXCEPT ![worker[w].event] = Append(@, a)]
         /\ worker' = [worker EXCEPT ![w] = Doing("record", @, a)]
    /\ UNCHANGED <<subscribed, event, queue, web, prompt, faults>>

(* The attempt is counted and its outcome committed. *)
Delivered(a) == a = "ok"

Record(w) ==
    LET e == worker[w].event
        a == worker[w].answer
    IN  /\ worker[w].pc = "record"
        /\ event' = [event EXCEPT ![e] =
                       [status |-> IF Delivered(a) THEN "DELIVERED" ELSE "FAILED",
                        attempts |-> event[e].attempts + 1]]
        /\ worker' = [worker EXCEPT ![w] =
                        IF Delivered(a) THEN Idle
                        ELSE Doing("retry", @, a)]
        /\ UNCHANGED <<subscribed, queue, web, prompt, answers, faults>>

(* self.retry() sends the next message or, after the last, raises.  Either *)
(* exception is caught by the handler that follows only where the try block *)
(* raises it, so not after a RequestException.                              *)
MayRetry_OneMore(r) == r <= MaxRetries
MayRetry_OneLess(r) == r + 1 < MaxRetries
MayRetry(r) == r < MaxRetries

AfterRetry(w) ==
    worker' = [worker EXCEPT ![w] =
                 IF worker[w].answer \in Failures THEN Idle
                 ELSE Doing("handler", @, worker[w].answer)]

Retry(w) ==
    LET m == [event |-> worker[w].event, retries |-> worker[w].retries + 1]
    IN  /\ worker[w].pc = "retry"
        /\ queue' = IF MayRetry(worker[w].retries) THEN queue \union {m} ELSE queue
        /\ AfterRetry(w)
        /\ UNCHANGED <<subscribed, event, web, prompt, answers, faults>>

(* except Exception: FAILED is written again; the last attempt dead-letters *)
(* the event.                                                               *)
LastTry_Always(r) == TRUE
LastTry(r) == r >= MaxRetries

Handler(w) ==
    LET s == IF LastTry(worker[w].retries) THEN "DEAD_LETTERED" ELSE "FAILED"
    IN  /\ worker[w].pc = "handler"
        /\ event' = [event EXCEPT ![worker[w].event] = Marked(@, s)]
        /\ worker' = [worker EXCEPT ![w] = Idle]
        /\ UNCHANGED <<subscribed, queue, web, prompt, answers, faults>>

-----------------------------------------------------------------------------
(* A worker process dies with its task, which nobody runs again; a request  *)
(* dies, or cannot reach the broker; a retry cannot reach the broker.       *)
Fault ==
    /\ faults < MaxFaults
    /\ faults' = faults + 1
    /\ \/ \E w \in Workers :
            /\ worker[w].pc # "idle"
            /\ worker' = [worker EXCEPT ![w] = Idle]
            /\ UNCHANGED web
       \/ \E e \in Events :
            /\ web[e] \in {"sold", "queued", "saved"}
            /\ web' = [web EXCEPT ![e] = "done"]
            /\ UNCHANGED worker
       \/ \E w \in Workers :
            /\ worker[w].pc = "retry"
            /\ AfterRetry(w)
            /\ UNCHANGED web
    /\ UNCHANGED <<subscribed, event, queue, prompt, answers>>

Request(e) == RecordSale(e) \/ Broadcast(e) \/ EndRequest(e) \/ SaveTest(e) \/ SendTest(e)

Task(w) == Take(w) \/ Read(w) \/ Post(w) \/ Record(w) \/ Retry(w) \/ Handler(w)

Next ==
    \/ \E e \in Events : Request(e)
    \/ \E w \in Workers : Task(w)
    \/ Subscribe
    \/ Fault

Spec == Init /\ [][Next]_vars

(* A request goes on once it has begun; the worker pool takes messages as   *)
(* long as there are some, and requests' timeout ends every POST.           *)
FairSpec ==
    /\ Spec
    /\ \A e \in Events : WF_vars(Broadcast(e) \/ EndRequest(e) \/ SendTest(e))
    /\ \A w \in Workers : WF_vars(Task(w))

-----------------------------------------------------------------------------
(* Properties. *)

Posts(e) == Len(answers[e])
Taken(e) == {i \in DOMAIN answers[e] : answers[e][i] \in {"ok", "late"}}
Busy(e)  == {w \in Workers : worker[w].event = e}
Waiting(e) == {m \in queue : m.event = e}

(* Messages, rows and workers keep their types; only a worker that has      *)
(* posted an event records or retries it, and never one without a row.      *)
TypeOK ==
    /\ event \in [Events -> Row \union {None}]
    /\ queue \subseteq Message
    /\ web \in [Events -> {"none", "sold", "queued", "saved", "done"}]
    /\ answers \in [Events -> Seq(Answers)]
    /\ worker \in [Workers -> WorkerState]
    /\ \A w \in Workers :
         /\ worker[w].pc \in {"post", "record", "retry", "handler"} => event[worker[w].event] # None
         /\ worker[w].pc \in {"record", "retry", "handler"} => worker[w].answer \in Answers

(* However tasks are retried, lost or stalled, an event is never posted     *)
(* more than max_retries + 1 times, and the row never counts an attempt     *)
(* that was not made.                                                       *)
AttemptsBounded ==
    \A e \in Events :
        /\ Posts(e) <= MaxRetries + 1
        /\ event[e] # None => event[e].attempts <= Posts(e)

(* A receiver takes an event twice only if its answer came late before: no  *)
(* interleaving of retries and failures of the worker posts an event again  *)
(* after a 2xx.                                                             *)
NoRepeatAfterSuccess ==
    \A e \in Events : \A i \in DOMAIN answers[e] : answers[e][i] = "ok" => i = Posts(e)

(* What holds of events and their posts in every state. *)
PostsInv == TypeOK /\ AttemptsBounded /\ NoRepeatAfterSuccess

(* Why: at most one process or message stands for another post of an        *)
(* event, and it knows how many there were.                                 *)
Unsent(e) == web[e] \in {"none", "sold", "saved"}

Attempting(w, e) == worker[w].event = e /\ worker[w].pc # "handler"

OneInFlight(e) ==
    /\ Unsent(e) => answers[e] = <<>> /\ Waiting(e) = {} /\ Busy(e) = {}
    /\ Waiting(e) # {} => \A w \in Workers : ~Attempting(w, e)
    /\ \A v, w \in Workers : Attempting(v, e) /\ Attempting(w, e) => v = w

KnowsPosts(e) ==
    /\ \A m \in Waiting(e) : Posts(e) = m.retries
    /\ \A w \in Busy(e) :
         /\ worker[w].pc \in {"read", "post"} => Posts(e) = worker[w].retries
         /\ worker[w].pc \in {"record", "retry"} => Posts(e) = worker[w].retries + 1

CountsPosts(e) ==
    event[e] # None =>
        /\ event[e].attempts <= Posts(e)
        /\ \A w \in Busy(e) : worker[w].pc = "record" => event[e].attempts < Posts(e)

(* After a 2xx only the worker that got it is still at the event.           *)
EndsWithSuccess(e) ==
    \A i \in DOMAIN answers[e] :
        answers[e][i] = "ok" =>
            /\ i = Posts(e) /\ Waiting(e) = {}
            /\ \A w \in Workers :
                 Attempting(w, e) => worker[w].pc = "record" /\ worker[w].answer = "ok"

DeliveryInv ==
    \A e \in Events :
        OneInFlight(e) /\ KnowsPosts(e) /\ CountsPosts(e) /\ EndsWithSuccess(e) /\ Posts(e) <= MaxRetries + 1

(* The row says what the posts came to: delivered only after a 2xx, dead-   *)
(* lettered only after max_retries + 1 posts; and with prompt tasks and no  *)
(* failures, an event whose 2xx has been recorded is not shown as failed.   *)
StatusIsHonest ==
    \A e \in Events :
        event[e] # None =>
            /\ event[e].status = "DELIVERED" => Posts(e) > 0 /\ Last(answers[e]) = "ok"
            /\ event[e].status = "DEAD_LETTERED" => Posts(e) = MaxRetries + 1
            /\ prompt /\ faults = 0 /\ Busy(e) = {} /\ Posts(e) > 0 =>
                 (Last(answers[e]) = "ok" => event[e].status = "DELIVERED")

(* With the countdown longer than the rest of the task, nothing rewrites    *)
(* the row of a delivered or a dead-lettered event.                         *)
FinalStays ==
    [][prompt =>
         \A e \in Events :
            event[e] # None /\ event[e].status \in Final => event'[e] = event[e]]_vars

(* Without failures or stalls, if the application stays subscribed, an event *)
(* whose row is committed is delivered or tried max_retries + 1 times.      *)
EventsSettle ==
    [](subscribed /\ prompt /\ faults = 0) =>
        \A e \in Events :
            event[e] # None ~>
                event[e] # None /\ (event[e].status \in Final \/ event[e].attempts > MaxRetries)

(* "transaction.created: Triggered when a new sale is completed"            *)
(* (API_GUIDE.md:1399): an application that is subscribed all along is at   *)
(* least sent the event.                                                    *)
SaleIsAnnounced ==
    [](subscribed /\ faults = 0) => \A e \in Events : web[e] = "sold" ~> Posts(e) > 0
=============================================================================
