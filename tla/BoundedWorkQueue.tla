--------------------------- MODULE BoundedWorkQueue ---------------------------
(***************************************************************************)
(* The in-process bounded queue with backpressure of                       *)
(* common/backpressure/bounded-work-queue.ts.                              *)
(*                                                                         *)
(* JavaScript runs to completion between awaits, so each action below is   *)
(* one synchronous stretch of the class: a call of submit or idle, the     *)
(* continuation after a task's promise settles, or the continuation after  *)
(* the backoff sleep.  The completed / failed / rejected statistics are    *)
(* written and never read by the control flow and are left out.  A task    *)
(* identifier may be submitted again once its previous promise settled.    *)
(***************************************************************************)
EXTENDS Integers, Sequences, FiniteSets

CONSTANTS
    Tasks,              \* the task closures callers submit
    Actors,             \* the callers
    ActorOf,            \* the actor that submits each task
    Permitted,          \* the actors holding the queue's permission
    Idlers,             \* callers of idle()
    MaxConcurrent,      \* options.maxConcurrent
    MaxQueued,          \* options.maxQueued
    MaxQueuedPerActor,  \* options.maxQueuedPerActor
    MaxAttempts         \* options.maxAttempts

\* The constructor's RangeError checks, and Math.max(1, maxAttempts).
ASSUME QueueOptions ==
    /\ IsFiniteSet(Tasks)
    /\ ActorOf \in [Tasks -> Actors]
    /\ Permitted \subseteq Actors
    /\ MaxConcurrent \in Nat \ {0}
    /\ MaxQueued \in Nat
    /\ MaxQueuedPerActor \in Nat
    /\ MaxAttempts \in Nat \ {0}

VARIABLES
    running,      \* this.running
    waiting,      \* this.waiting, the queued items in arrival order
    phase,        \* where each task's promise stands
    attempt,      \* runWithRetry's loop counter
    idleWaiters   \* this.idleWaiters

vars == <<running, waiting, phase, attempt, idleWaiters>>

Init ==
    /\ running = 0
    /\ waiting = <<>>
    /\ phase = [t \in Tasks |-> "out"]
    /\ attempt = [t \in Tasks |-> 0]
    /\ idleWaiters = {}

InSlot == {"executing", "backoff"}

\* The places of the backlog taken by actor a.
ActorWaiting(a) == {k \in 1..Len(waiting) : ActorOf[waiting[k]] = a}

-----------------------------------------------------------------------------
\* submit(): refused callers change nothing, a free slot starts the task at
\* once, a full queue or a full share of it rejects, otherwise the task waits.
SubmitStart(t) ==
    /\ phase[t] = "out"
    /\ ActorOf[t] \in Permitted
    /\ running < MaxConcurrent
    /\ running' = running + 1
    /\ phase' = [phase EXCEPT ![t] = "executing"]
    /\ attempt' = [attempt EXCEPT ![t] = 1]
    /\ UNCHANGED <<waiting, idleWaiters>>

SubmitWaitAnyShare(t) ==  \* mutant: the per-actor cap is forgotten
    /\ phase[t] = "out"
    /\ ActorOf[t] \in Permitted
    /\ running >= MaxConcurrent
    /\ Len(waiting) < MaxQueued
    /\ waiting' = Append(waiting, t)
    /\ phase' = [phase EXCEPT ![t] = "waiting"]
    /\ UNCHANGED <<running, attempt, idleWaiters>>

SubmitWait(t) ==
    /\ phase[t] = "out"
    /\ ActorOf[t] \in Permitted
    /\ running >= MaxConcurrent
    /\ Len(waiting) < MaxQueued
    /\ Cardinality(ActorWaiting(ActorOf[t])) < MaxQueuedPerActor
    /\ waiting' = Append(waiting, t)
    /\ phase' = [phase EXCEPT ![t] = "waiting"]
    /\ UNCHANGED <<running, attempt, idleWaiters>>

\* idle(): an idle queue resolves immediately, a busy one registers the caller.
Idle(i) ==
    /\ i \notin idleWaiters
    /\ running # 0 \/ waiting # <<>>
    /\ idleWaiters' = idleWaiters \union {i}
    /\ UNCHANGED <<running, waiting, phase, attempt>>

\* pump(), run with r slots still taken: how many waiters it starts.
PumpCount(r) ==
    IF MaxConcurrent - r < Len(waiting) THEN MaxConcurrent - r ELSE Len(waiting)

SettleWithoutPump(t) ==  \* mutant: the slot is given back, nobody is started
    /\ running' = running - 1
    /\ phase' = [phase EXCEPT ![t] = "out"]
    /\ attempt' = [attempt EXCEPT ![t] = 0]
    /\ UNCHANGED <<waiting, idleWaiters>>

\* The finally block of start() for task t: the slot is given back and pump()
\* starts waiters from the head, then wakes idle() callers if nothing is left.
Settle(t) ==
    LET n == PumpCount(running - 1)
        started == {waiting[k] : k \in 1..n}
    IN  /\ running' = running - 1 + n
        /\ waiting' = SubSeq(waiting, n + 1, Len(waiting))
        /\ phase' = [u \in Tasks |-> IF u = t THEN "out"
                                     ELSE IF u \in started THEN "executing"
                                     ELSE phase[u]]
        /\ attempt' = [u \in Tasks |-> IF u = t THEN 0
                                       ELSE IF u \in started THEN 1
                                       ELSE attempt[u]]
        /\ idleWaiters' = IF running' = 0 /\ waiting' = <<>>
                          THEN {} ELSE idleWaiters

\* runWithRetry(): the task resolves, or fails for good, or fails and sleeps
\* in its slot before the next attempt.
TaskResolves(t) ==
    /\ phase[t] = "executing"
    /\ Settle(t)

TaskFailsRetryable(t) ==
    /\ phase[t] = "executing"
    /\ attempt[t] < MaxAttempts
    /\ phase' = [phase EXCEPT ![t] = "backoff"]
    /\ UNCHANGED <<running, waiting, attempt, idleWaiters>>

BackoffOverSameAttempt(t) ==  \* mutant: the loop counter does not advance
    /\ phase[t] = "backoff"
    /\ phase' = [phase EXCEPT ![t] = "executing"]
    /\ UNCHANGED <<running, waiting, attempt, idleWaiters>>

BackoffOver(t) ==
    /\ phase[t] = "backoff"
    /\ phase' = [phase EXCEPT ![t] = "executing"]
    /\ attempt' = [attempt EXCEPT ![t] = @ + 1]
    /\ UNCHANGED <<running, waiting, idleWaiters>>

-----------------------------------------------------------------------------
Next ==
    \/ \E t \in Tasks : \/ SubmitStart(t)
                        \/ SubmitWait(t)
                        \/ TaskResolves(t)
                        \/ TaskFailsRetryable(t)
                        \/ BackoffOver(t)
    \/ \E i \in Idlers : Idle(i)

Spec == Init /\ [][Next]_vars

\* A task's promise settles and timers fire; nobody has to submit anything.
Fairness ==
    \A t \in Tasks : WF_vars(TaskResolves(t)) /\ WF_vars(BackoffOver(t))

LiveSpec == Spec /\ Fairness

-----------------------------------------------------------------------------
\* Every variable has its shape and the running counter is the number of slots
\* that are really taken, so start() and its finally block stay balanced.
TypeOK ==
    /\ running = Cardinality({t \in Tasks : phase[t] \in InSlot})
    /\ waiting \in Seq(Tasks)
    /\ phase \in [Tasks -> {"out", "waiting"} \union InSlot]
    /\ attempt \in [Tasks -> 0..MaxAttempts]
    /\ \A t \in Tasks : phase[t] = "backoff" => attempt[t] < MaxAttempts
    /\ idleWaiters \subseteq Idlers

\* Backpressure (submit): neither the slots, nor the backlog, nor one actor's
\* share of the backlog ever exceeds its limit, whatever the arrival order.
WithinLimits ==
    /\ running <= MaxConcurrent
    /\ Len(waiting) <= MaxQueued
    /\ \A a \in Actors : Cardinality(ActorWaiting(a)) <= MaxQueuedPerActor

\* The backlog (submit / pump) holds every waiting task once and no other, so
\* no accepted task is dropped from it and none is started twice.
BacklogExact ==
    /\ \A k \in 1..Len(waiting) : phase[waiting[k]] = "waiting"
    /\ \A j, k \in 1..Len(waiting) : waiting[j] = waiting[k] => j = k
    /\ \A t \in Tasks : phase[t] = "waiting" => \E k \in 1..Len(waiting) : waiting[k] = t

\* Work conservation (start / pump): a task waits only while every slot is
\* taken, so no wake-up is ever lost between a settling task and the backlog.
WorkConserving == waiting # <<>> => running = MaxConcurrent

\* A caller of idle() is parked only while some task is still in a slot, so
\* there is always a later pump() that can wake it.
IdleWaitersHaveAWaker == idleWaiters # {} => running > 0

\* First come, first served: a newly submitted task never gets a slot while an
\* earlier one is still in the backlog.
NoOvertaking ==
    [][\A t \in Tasks : phase[t] = "out" /\ phase'[t] = "executing"
                        => waiting = <<>>]_vars

\* Every accepted task gets a slot and its promise settles.
AcceptedTaskSettles == \A t \in Tasks : phase[t] # "out" ~> phase[t] = "out"
=============================================================================
