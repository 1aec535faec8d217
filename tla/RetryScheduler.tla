---------------------------- MODULE RetryScheduler ----------------------------
(***************************************************************************)
(* infrastructure/retry-scheduler/retry-scheduler.service.ts: one scheduled *)
(* operation, the workers that run it and the callers that re-queue it.    *)
(*                                                                         *)
(* The marks read the row and save all of it; only the re-queueing of a    *)
(* dead letter is a conditional UPDATE.                                    *)
(***************************************************************************)
EXTENDS Integers

CONSTANTS
    Calls,        \* workers and callers at work at once
    MaxAttempts,  \* maxAttempts of the operation
    MaxDeaths,    \* bound on dead-letterings; workers then leave the operation alone
    Enabled       \* the disturbances that may happen, of {"fault"}

VARIABLES
    row,       \* the row: status, attempts, retryable, and metadata.deadLetter.retryable
    call,      \* per call: where it is suspended and what it has read
    deaths,    \* history: moves to the dead letters
    requeues,  \* history: re-queueings that were reported as done
    leaked     \* history: an unforced one let a non-retryable failure run again

vars == <<row, call, deaths, requeues, leaked>>

Idle == [pc |-> "idle"]

\* schedule has saved the operation.
Init ==
    /\ row \in [status : {"pending"}, attempts : {0}, retryable : BOOLEAN, deadRetryable : {TRUE}]
    /\ call = [c \in Calls |-> Idle]
    /\ deaths = 0 /\ requeues = 0 /\ leaked = FALSE

At(c, pc) == call[c].pc = pc
Goto(c, pc) == call' = [call EXCEPT ![c] = [pc |-> pc]]
GotoWith(c, pc, w) == call' = [call EXCEPT ![c] = [pc |-> pc, with |-> w, snap |-> row, seen |-> deaths]]
Return(c) == call' = [call EXCEPT ![c] = Idle]

\* isRetryable; without metadata.deadLetter an operation counts as retryable.
IsRetryable(r) == r.retryable /\ r.deadRetryable

-----------------------------------------------------------------------------
\* A worker: getDueOperations, markInProgress (read, save), then the operation.
GetDue(c) ==
    /\ At(c, "idle") /\ row.status = "pending" /\ deaths < MaxDeaths
    /\ Goto(c, "listed")
    /\ UNCHANGED <<row, deaths, requeues, leaked>>

MarkInProgressRead(c) ==
    /\ At(c, "listed")
    /\ GotoWith(c, "starting", "progress")
    /\ UNCHANGED <<row, deaths, requeues, leaked>>

MarkInProgressSave(c) ==
    /\ At(c, "starting")
    /\ row' = [call[c].snap EXCEPT !.status = "in_progress"]
    /\ Goto(c, "running")
    /\ UNCHANGED <<deaths, requeues, leaked>>

\* markSucceeded and markFailed (retryable or not) read ...
OutcomeRead(c, o) ==
    /\ At(c, "running")
    /\ GotoWith(c, "reporting", o)
    /\ UNCHANGED <<row, deaths, requeues, leaked>>

\* ... and save: done, back to the queue, or to the dead letters.
MarkSucceeded(c) ==
    /\ At(c, "reporting") /\ call[c].with = "succeeded"
    /\ row' = [call[c].snap EXCEPT !.status = "succeeded"]
    /\ Return(c)
    /\ UNCHANGED <<deaths, requeues, leaked>>

GivesUp(r, o) == o = "fatal" \/ ~r.retryable \/ r.attempts + 1 >= MaxAttempts

MarkFailed(c) ==
    /\ At(c, "reporting") /\ call[c].with # "succeeded" /\ ~GivesUp(call[c].snap, call[c].with)
    /\ row' = [call[c].snap EXCEPT !.status = "pending", !.attempts = @ + 1]
    /\ Return(c)
    /\ UNCHANGED <<deaths, requeues, leaked>>

MoveToDeadLetter(c) ==
    /\ At(c, "reporting") /\ call[c].with # "succeeded" /\ GivesUp(call[c].snap, call[c].with)
    /\ row' = [call[c].snap EXCEPT !.status = "dead_letter", !.attempts = @ + 1,
                  !.deadRetryable = call[c].with # "fatal" /\ call[c].snap.retryable]
    /\ deaths' = deaths + 1
    /\ Return(c)
    /\ UNCHANGED <<requeues, leaked>>

-----------------------------------------------------------------------------
\* retryDeadLetter; retryDeadLetters makes the unforced call for each dead
\* letter it listed as retryable.
RetryDeadLetterRead(c, force) ==
    /\ At(c, "idle") /\ row.status = "dead_letter"
    /\ force \/ IsRetryable(row)
    /\ GotoWith(c, "requeuing", IF force THEN "forced" ELSE "unforced")
    /\ UNCHANGED <<row, deaths, requeues, leaked>>

RequeueById(c) ==  \* mutant: UPDATE ... WHERE id = :id
    /\ At(c, "requeuing")
    /\ row' = [row EXCEPT !.status = "pending", !.attempts = 0, !.deadRetryable = call[c].snap.deadRetryable]
    /\ requeues' = requeues + 1
    /\ leaked' = (leaked \/ (call[c].with = "unforced" /\ ~IsRetryable(row) /\ call[c].seen = deaths))
    /\ Return(c)
    /\ UNCHANGED deaths

Requeue(c) ==
    /\ At(c, "requeuing") /\ row.status = "dead_letter"
    /\ row' = [row EXCEPT !.status = "pending", !.attempts = 0, !.deadRetryable = call[c].snap.deadRetryable]
    /\ requeues' = requeues + 1
    /\ leaked' = (leaked \/ (call[c].with = "unforced" /\ ~IsRetryable(row) /\ call[c].seen = deaths))
    /\ Return(c)
    /\ UNCHANGED deaths

AlreadyRetried(c) ==
    /\ At(c, "requeuing") /\ row.status # "dead_letter"
    /\ Return(c)
    /\ UNCHANGED <<row, deaths, requeues, leaked>>

\* External: a database call that throws, a worker that dies.
Fault(c) ==
    /\ "fault" \in Enabled /\ ~At(c, "idle")
    /\ Return(c)
    /\ UNCHANGED <<row, deaths, requeues, leaked>>

Next ==
    \E c \in Calls :
        \/ GetDue(c) \/ MarkInProgressRead(c) \/ MarkInProgressSave(c)
        \/ \E o \in {"succeeded", "failed", "fatal"} : OutcomeRead(c, o)
        \/ MarkSucceeded(c) \/ MarkFailed(c) \/ MoveToDeadLetter(c)
        \/ \E force \in BOOLEAN : RetryDeadLetterRead(c, force)
        \/ Requeue(c) \/ AlreadyRetried(c) \/ Fault(c)

Spec == Init /\ [][Next]_vars

-----------------------------------------------------------------------------
\* "concurrent retries of the same operation race-safe: exactly one wins"
\* (retryDeadLetter): each move to the dead letters is re-queued at most once,
\* although workers save stale rows meanwhile. "A failure recorded as
\* non-retryable is refused unless `force` is set": an unforced re-queueing
\* lets one through only if the operation failed again after the call's read.
RequeueIsEarned == requeues <= deaths /\ ~leaked

-----------------------------------------------------------------------------
\* The inductive invariant.
IsRow(r) == r = [status |-> r.status, attempts |-> r.attempts, retryable |-> r.retryable,
                 deadRetryable |-> r.deadRetryable]

Shape ==
    /\ IsRow(row) /\ deaths \in Nat /\ requeues \in Nat
    /\ call = [c \in Calls |-> call[c]]
    /\ \A c \in Calls : call[c].pc \in {"starting", "reporting", "requeuing"} => IsRow(call[c].snap)

\* Rows that were read before go back into the table, but none of them as a dead
\* letter: what is one is the latest failure, and is not re-queued yet.
LatestDeath ==
    /\ requeues <= deaths
    /\ row.status = "dead_letter" => requeues < deaths

\* What an unforced call found retryable, is so until the operation fails again.
SeenRetryable ==
    \A c \in Calls : At(c, "requeuing") /\ call[c].with = "unforced" =>
        /\ call[c].seen \in Nat /\ call[c].seen <= deaths
        /\ call[c].seen = deaths /\ row.status = "dead_letter" => IsRetryable(row)

IInv == Shape /\ LatestDeath /\ SeenRetryable /\ ~leaked
=============================================================================
