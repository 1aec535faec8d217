--------------------------- MODULE WebhookDelivery ---------------------------
(***************************************************************************)
(* infrastructure/webhooks/services: one event published by publishEvent   *)
(* (webhook-event.service.ts), the jobs of the webhook-delivery queue      *)
(* handled by webhook-processor.service.ts, the attempts, dead letters and *)
(* their retry of webhook-delivery.service.ts.                             *)
(***************************************************************************)
EXTENDS Integers, FiniteSets

CONSTANTS
    Subscribers,    \* number of active subscriptions that match the event
    MaxDeliveries,  \* bound on delivery rows, those of retried dead letters included
    MaxAttempts,    \* maxRetries of the subscriptions
    Workers,        \* job handlers and retry calls at work at once
    Enabled         \* the disturbances that may happen, of {"fault", "stall"}

Deliveries == 1 .. MaxDeliveries

VARIABLES
    event,      \* the event row's counts, and how far its publisher is
    delivery,   \* per id: status and attempts of the row
    dead,       \* per id: "none", or whether its dead letter was "open" or "retried"
    jobs,       \* deliveries with a job waiting in the queue
    worker,     \* per worker: where it is suspended, its delivery, what it read or received
    overtaken,  \* history: a delivery was counted before publishEvent's last save
    disturbed   \* history: a handler threw or died, or a job was delivered twice

vars == <<event, delivery, dead, jobs, worker, overtaken, disturbed>>

Idle == [pc |-> "idle"]
Row(s, n) == [status |-> s, attempts |-> n]

\* The event has been saved and its subscribers were found.
Init ==
    /\ event = [publisher |-> "creating", next |-> 1, successes |-> 0, failures |-> 0]
    /\ delivery = [d \in Deliveries |-> Row("absent", 0)]
    /\ dead = [d \in Deliveries |-> "none"]
    /\ jobs = {}
    /\ worker = [w \in Workers |-> Idle]
    /\ overtaken = FALSE /\ disturbed = FALSE

At(w, pc) == worker[w].pc = pc
Goto(w, pc) == worker' = [worker EXCEPT ![w].pc = pc]
Return(w) == worker' = [worker EXCEPT ![w] = Idle]
Fresh(d) == {e \in Deliveries : delivery[e].status # "absent"} = 1 .. d - 1

-----------------------------------------------------------------------------
\* publishEvent: createDeliveries saves one row per subscriber, then one job
\* each is added, then the event is saved as it was read after its insert.
CreateDelivery ==
    /\ event.publisher = "creating"
    /\ delivery' = [delivery EXCEPT ![event.next] = Row("pending", 0)]
    /\ event' = IF event.next = Subscribers THEN [event EXCEPT !.publisher = "enqueuing", !.next = 1]
                                            ELSE [event EXCEPT !.next = @ + 1]
    /\ UNCHANGED <<dead, jobs, worker, overtaken, disturbed>>

Enqueue ==
    /\ event.publisher = "enqueuing"
    /\ jobs' = jobs \union {event.next}
    /\ event' = IF event.next = Subscribers THEN [event EXCEPT !.publisher = "closing"]
                                            ELSE [event EXCEPT !.next = @ + 1]
    /\ UNCHANGED <<delivery, dead, worker, overtaken, disturbed>>

ClosePublish ==
    /\ event.publisher = "closing"
    /\ event' = [event EXCEPT !.publisher = "done", !.successes = 0, !.failures = 0]
    /\ UNCHANGED <<delivery, dead, jobs, worker, overtaken, disturbed>>

-----------------------------------------------------------------------------
\* processDelivery reads the row of its job; nothing claims it.
TakeJob(w, d) ==
    /\ At(w, "idle") /\ d \in jobs
    /\ jobs' = jobs \ {d}
    /\ worker' = [worker EXCEPT ![w] = [pc |-> "starting", id |-> d, attempts |-> delivery[d].attempts,
                                        result |-> "none"]]
    /\ UNCHANGED <<event, delivery, dead, overtaken, disturbed>>

\* executeDelivery: the allow-list may block the destination, for good or not ...
Blocked(w) ==
    \E r \in {"failed", "permanent"} :
        /\ At(w, "starting")
        /\ worker' = [worker EXCEPT ![w].pc = "saving", ![w].result = r]
        /\ UNCHANGED <<event, delivery, dead, jobs, overtaken, disturbed>>

\* ... else the row is saved as DELIVERING and the request is sent.
SaveDelivering(w) ==
    /\ At(w, "starting")
    /\ delivery' = [delivery EXCEPT ![worker[w].id] = Row("delivering", worker[w].attempts)]
    /\ Goto(w, "posting")
    /\ UNCHANGED <<event, dead, jobs, overtaken, disturbed>>

\* External: the subscriber answers 2xx, or anything else, or not in time.
Post(w) ==
    \E r \in {"ok", "failed"} :
        /\ At(w, "posting")
        /\ worker' = [worker EXCEPT ![w].pc = "saving", ![w].result = r]
        /\ UNCHANGED <<event, delivery, dead, jobs, overtaken, disturbed>>

SaveResult(w, r, status, pc) ==
    /\ At(w, "saving") /\ worker[w].result = r
    /\ delivery' = [delivery EXCEPT ![worker[w].id] = Row(status, worker[w].attempts + 1)]
    /\ IF pc = "idle" THEN Return(w) ELSE Goto(w, pc)
    /\ UNCHANGED <<event, dead, jobs, overtaken, disturbed>>

Exhausted(w) == worker[w].attempts + 1 >= MaxAttempts

SaveSuccess(w) == SaveResult(w, "ok", "success", "counting")
SaveFailed(w) == SaveResult(w, "failed", "failed", "idle") /\ ~Exhausted(w)
SaveDead(w) == \/ SaveResult(w, "permanent", "dead", "burying")
               \/ SaveResult(w, "failed", "dead", "burying") /\ Exhausted(w)

\* The counts are incremented in the database.
CountSuccess(w) ==
    /\ At(w, "counting")
    /\ event' = [event EXCEPT !.successes = @ + 1]
    /\ overtaken' = (overtaken \/ event.publisher # "done")
    /\ Return(w)
    /\ UNCHANGED <<delivery, dead, jobs, disturbed>>

BuryUncounted(w) ==  \* mutant: processDelivery returns once the dead letter is saved
    /\ At(w, "burying")
    /\ dead' = [dead EXCEPT ![worker[w].id] = "open"]
    /\ Return(w)
    /\ UNCHANGED <<event, delivery, jobs, overtaken, disturbed>>

SaveDeadLetter(w) ==
    /\ At(w, "burying")
    /\ dead' = [dead EXCEPT ![worker[w].id] = "open"]
    /\ Goto(w, "countingFailure")
    /\ UNCHANGED <<event, delivery, jobs, overtaken, disturbed>>

CountFailure(w) ==
    /\ At(w, "countingFailure")
    /\ event' = [event EXCEPT !.failures = @ + 1]
    /\ overtaken' = (overtaken \/ event.publisher # "done")
    /\ Return(w)
    /\ UNCHANGED <<delivery, dead, jobs, disturbed>>

-----------------------------------------------------------------------------
\* retryDeadLetter: a fresh delivery row is saved, then the mark. No job is added.
RetryDeadLetter(w, d) ==
    /\ At(w, "idle") /\ dead[d] = "open"
    /\ worker' = [worker EXCEPT ![w] = [pc |-> "requeuing", id |-> d]]
    /\ UNCHANGED <<event, delivery, dead, jobs, overtaken, disturbed>>

RequeueDeadLetter(w, n) ==
    /\ At(w, "requeuing") /\ Fresh(n)
    /\ delivery' = [delivery EXCEPT ![n] = Row("pending", 0)]
    /\ Goto(w, "marking")
    /\ UNCHANGED <<event, dead, jobs, overtaken, disturbed>>

MarkRetried(w) ==
    /\ At(w, "marking")
    /\ dead' = [dead EXCEPT ![worker[w].id] = "retried"]
    /\ Return(w)
    /\ UNCHANGED <<event, delivery, jobs, overtaken, disturbed>>

\* External: a call or the publisher throws, or dies (the queue makes one attempt per job);
\* a job that the queue takes for stalled and hands out again.
Fault(w) ==
    /\ "fault" \in Enabled /\ ~At(w, "idle")
    /\ disturbed' = TRUE
    /\ Return(w)
    /\ UNCHANGED <<event, delivery, dead, jobs, overtaken>>

PublishFails ==
    /\ "fault" \in Enabled /\ event.publisher # "done"
    /\ event' = [event EXCEPT !.publisher = "done"]
    /\ disturbed' = TRUE
    /\ UNCHANGED <<delivery, dead, jobs, worker, overtaken>>

Stall(w) ==
    /\ "stall" \in Enabled /\ worker[w].pc \in {"starting", "posting"}
    /\ ~disturbed /\ disturbed' = TRUE
    /\ jobs' = jobs \union {worker[w].id}
    /\ UNCHANGED <<event, delivery, dead, worker, overtaken>>

Publish == CreateDelivery \/ Enqueue \/ ClosePublish

Handle(w) ==
    \/ \E d \in Deliveries : TakeJob(w, d)
    \/ Blocked(w) \/ SaveDelivering(w) \/ Post(w)
    \/ SaveSuccess(w) \/ SaveFailed(w) \/ SaveDead(w)
    \/ CountSuccess(w) \/ SaveDeadLetter(w) \/ CountFailure(w)

Next ==
    \/ Publish \/ PublishFails
    \/ \E w \in Workers :
          \/ Handle(w) \/ MarkRetried(w) \/ Fault(w) \/ Stall(w)
          \/ \E d \in Deliveries : RetryDeadLetter(w, d) \/ RequeueDeadLetter(w, d)

Spec == Init /\ [][Next]_vars

\* A request that was accepted is carried through and the queue hands out its jobs.
LiveSpec == Spec /\ WF_vars(Publish) /\ \A w \in Workers : WF_vars(Handle(w) \/ MarkRetried(w))

-----------------------------------------------------------------------------
With(status) == Cardinality({d \in Deliveries : delivery[d].status = status})

\* successCount and failureCount of the event (processDelivery, publishEvent):
\* when no one is at work, they are the numbers of SUCCESS deliveries and of
\* dead letters, if nothing failed half-way or was delivered twice, and if no
\* delivery was counted before publishEvent's last save, which writes zeros.
CountsAreExact ==
    (\A w \in Workers : At(w, "idle")) /\ ~disturbed /\ ~overtaken
        => event.successes = With("success") /\ event.failures = With("dead")

\* "Process a delivery: attempt, retry on failure, or dead-letter." A delivery
\* that failed does not stay FAILED for ever.
FailedIsRetried == \A d \in Deliveries : delivery[d].status = "failed" ~> delivery[d].status # "failed"

-----------------------------------------------------------------------------
\* The inductive invariant, as long as nothing was disturbed or overtaken.
Settling == {"counting", "burying", "countingFailure"}
Handling == {"starting", "posting", "saving"} \union Settling
Holders == {w \in Workers : worker[w].pc \in Handling}

Shape ==
    /\ {"publisher", "next", "successes", "failures"} \subseteq DOMAIN event
    /\ event.publisher \in {"creating", "enqueuing", "closing", "done"}
    /\ delivery = [d \in Deliveries |-> delivery[d]]
    /\ dead = [d \in Deliveries |-> dead[d]]
    /\ worker = [w \in Workers |-> worker[w]]
    /\ \A w \in Workers : worker[w].pc \in {"idle", "requeuing", "marking"} \union Handling
    /\ \A w \in Workers : {"pc"} \subseteq DOMAIN worker[w]
    /\ \A w \in Holders : {"pc", "id", "attempts", "result"} \subseteq DOMAIN worker[w]
    /\ \A w \in Workers : worker[w].pc \in {"requeuing", "marking"} => {"pc", "id"} \subseteq DOMAIN worker[w]
    /\ jobs \subseteq Deliveries

\* Until its last save the publisher's counts are zero; what it has yet to save or to
\* enqueue nobody has touched.
Publishing ==
    /\ event.publisher # "done" => event.successes = 0 /\ event.failures = 0
    /\ event.publisher \in {"creating", "enqueuing"} => event.next \in 1..Subscribers
    /\ event.publisher = "creating" =>
          /\ \A w \in Workers : At(w, "idle")
          /\ \A d \in Deliveries : dead[d] = "none"
          /\ \A d \in Deliveries : delivery[d].status = IF d < event.next THEN "pending" ELSE "absent"
          /\ jobs = {}
    /\ event.publisher = "enqueuing" =>
          \A d \in event.next..Subscribers :
              delivery[d].status = "pending" /\ d \notin jobs /\ \A w \in Holders : worker[w].id # d

\* A delivery has one job or one handler at a time, and its status is where that one is.
OneHandler ==
    /\ \A w, x \in Holders : worker[w].id = worker[x].id => w = x
    /\ \A w \in Holders : worker[w].id \in Deliveries \ jobs
    /\ \A w \in Holders :
          /\ worker[w].pc = "counting" => delivery[worker[w].id].status = "success"
          /\ worker[w].pc \in {"burying", "countingFailure"} => delivery[worker[w].id].status = "dead"
          /\ worker[w].pc \notin Settling => delivery[worker[w].id].status \in {"pending", "delivering"}
    /\ \A d \in jobs : delivery[d].status = "pending"

\* The counts lag behind the rows by what is about to be counted.
Counted(status) ==
    {d \in Deliveries : delivery[d].status = status
                        /\ \A w \in Holders : worker[w].pc \in Settling => worker[w].id # d}
Tally == event.successes = Cardinality(Counted("success")) /\ event.failures = Cardinality(Counted("dead"))

Calm == Shape /\ Publishing /\ OneHandler /\ Tally
IInv == disturbed \/ overtaken \/ Calm
=============================================================================
