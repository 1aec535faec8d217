--------------------------- MODULE OracleSubmission ---------------------------
(***************************************************************************)
(* The life of one signed payload of blockchain/oracle: OracleService      *)
(* (create, sign, clean up) and SubmitterService (submit, retry, monitor). *)
(*                                                                         *)
(* Payload rows are independent of each other, so the model follows one.   *)
(* A worker is one request or job in progress, on any API instance: it     *)
(* loads the row, awaits, and later saves its whole in-memory snapshot     *)
(* (repository.save), overwriting whatever others wrote in between.  The   *)
(* chain and its RPC provider are external: a transaction that was         *)
(* accepted is eventually mined and succeeds or reverts; the response to   *)
(* the broadcast, or the receipt, may be lost.                             *)
(***************************************************************************)
EXTENDS Integers, FiniteSets

CONSTANTS
    Workers,     \* concurrent calls of the two services
    Monitors,    \* bound: background monitorTransaction calls alive at once
    MaxRetries,  \* SUBMITTER_MAX_RETRIES
    MaxTx,       \* bound: transactions broadcast for the payload
    Enabled      \* which of Disturbances may happen

Disturbances == {"retry", "lostResponse", "dbFault", "providerFault", "crash"}

ASSUME SubmissionAssumption ==
    /\ MaxRetries \in Nat
    /\ MaxTx \in Nat
    /\ Enabled \subseteq Disturbances

VARIABLES
    row,      \* the signed_payloads row: status, signature set?, transactionHash (0: null), submissionAttempts
    expired,  \* expiresAt has passed
    txState,  \* the chain's view of every transaction
    sent,     \* transactions broadcast so far
    work,     \* per worker: where it is suspended, its entity, its attempt
    mon,      \* per monitor: where it is suspended, its transaction, its entity
    calm      \* history: no calls have overlapped and no disturbance has happened

vars == <<row, expired, txState, sent, work, mon, calm>>

Tx == 1..MaxTx
Statuses == {"absent", "PENDING", "SUBMITTED", "CONFIRMED", "FAILED"}
Rows == [status : Statuses, signed : BOOLEAN, tx : 0..MaxTx, attempts : 0..MaxRetries + 1]
NoRow == [status |-> "absent", signed |-> FALSE, tx |-> 0, attempts |-> 0]

Init ==
    /\ row = NoRow
    /\ expired = FALSE
    /\ txState = [t \in Tx |-> "unsent"]
    /\ sent = 0
    /\ work = [w \in Workers |-> [pc |-> "idle", snap |-> NoRow, attempt |-> 0]]
    /\ mon = [m \in Monitors |-> [pc |-> "off", tx |-> 0, snap |-> NoRow]]
    /\ calm = TRUE

Exists == row.status # "absent"

\* Worker w is suspended at pc with entity s and loop counter a.
Goto(w, pc, s, a) == work' = [work EXCEPT ![w] = [pc |-> pc, snap |-> s, attempt |-> a]]
Return(w) == Goto(w, "idle", NoRow, 0)

StartMonitor(t) ==
    \E m \in Monitors :
        /\ mon[m].pc = "off"
        /\ mon' = [mon EXCEPT ![m] = [pc |-> "waiting", tx |-> t, snap |-> NoRow]]

-----------------------------------------------------------------------------
\* OracleService.createPayload: the row appears, PENDING and unsigned.
CreatePayload ==
    /\ ~Exists
    /\ row' = [NoRow EXCEPT !.status = "PENDING"]
    /\ UNCHANGED <<expired, txState, sent, work, mon>>

\* OracleService.signPayload: load, check, await the signature, save.
SignRead(w) ==
    /\ work[w].pc = "idle" /\ Exists
    /\ ~row.signed /\ ~expired
    /\ Goto(w, "saving", [row EXCEPT !.signed = TRUE], 0)
    /\ UNCHANGED <<row, expired, txState, sent, mon>>

\* OracleService.cleanupExpiredPayloads: load PENDING rows, mark, save.
CleanupRead(w) ==
    /\ work[w].pc = "idle" /\ row.status = "PENDING" /\ expired
    /\ Goto(w, "saving", [row EXCEPT !.status = "FAILED"], 0)
    /\ UNCHANGED <<row, expired, txState, sent, mon>>

\* SubmitterService.retrySubmission: whatever the status, back to PENDING.
RetryRead(w) ==
    /\ "retry" \in Enabled
    /\ work[w].pc = "idle" /\ Exists
    /\ row.attempts < MaxRetries
    /\ Goto(w, "resetting", [row EXCEPT !.status = "PENDING"], 0)
    /\ UNCHANGED <<row, expired, txState, sent, mon>>

RetryReset(w) ==
    /\ work[w].pc = "resetting"
    /\ row' = work[w].snap
    /\ Goto(w, "submit", NoRow, 0)
    /\ UNCHANGED <<expired, txState, sent, mon>>

-----------------------------------------------------------------------------
\* SubmitterService.submitPayload, called directly or by retrySubmission.
MaySubmit(w) == work[w].pc \in {"idle", "submit"} /\ Exists

\* "already submitted, continuing monitoring".
SubmitResumesMonitoring(w) ==
    /\ MaySubmit(w)
    /\ row.status = "SUBMITTED" /\ row.tx # 0
    /\ StartMonitor(row.tx)
    /\ Return(w)
    /\ UNCHANGED <<row, expired, txState, sent>>

\* Already confirmed, not PENDING, or not signed: nothing happens.
SubmitRefused(w) ==
    /\ work[w].pc = "submit"
    /\ \/ row.status \in {"CONFIRMED", "FAILED"}
       \/ row.status = "SUBMITTED" /\ row.tx = 0
       \/ row.status = "PENDING" /\ ~row.signed
    /\ Return(w)
    /\ UNCHANGED <<row, expired, txState, sent, mon>>

SubmitExpired(w) ==
    /\ MaySubmit(w)
    /\ row.status = "PENDING" /\ row.signed /\ expired
    /\ Goto(w, "saving", [row EXCEPT !.status = "FAILED"], 0)
    /\ UNCHANGED <<row, expired, txState, sent, mon>>

SubmitBeginAny(w) ==  \* mutant: the status of the loaded row is not checked
    /\ MaySubmit(w)
    /\ row.signed /\ ~expired
    /\ Goto(w, "sending", row, 1)
    /\ UNCHANGED <<row, expired, txState, sent, mon>>

SubmitBegin(w) ==
    /\ MaySubmit(w)
    /\ row.status = "PENDING" /\ row.signed /\ ~expired
    /\ Goto(w, "sending", row, 1)
    /\ UNCHANGED <<row, expired, txState, sent, mon>>

\* The catch block of the retry loop: permanent failures and the last attempt
\* mark the entity FAILED, anything else sleeps and tries again.
CatchError(w, permanent) ==
    LET a == work[w].attempt
        s == [work[w].snap EXCEPT !.attempts = a]
    IN  IF permanent \/ a > MaxRetries
        THEN Goto(w, "saving", [s EXCEPT !.status = "FAILED"], 0)
        ELSE Goto(w, "sending", s, a + 1)

\* oracleContract.submitPayload resolves with the transaction's hash.
Accept == sent < MaxTx /\ sent' = sent + 1 /\ txState' = [txState EXCEPT ![sent + 1] = "pending"]

BroadcastForgetsHash(w) ==  \* mutant: transactionHash is not set on the entity
    /\ work[w].pc = "sending"
    /\ Accept
    /\ Goto(w, "recording", [work[w].snap EXCEPT !.status = "SUBMITTED", !.attempts = work[w].attempt],
            work[w].attempt)
    /\ UNCHANGED <<row, expired, mon>>

Broadcast(w) ==
    /\ work[w].pc = "sending"
    /\ Accept
    /\ Goto(w, "recording", [work[w].snap EXCEPT !.status = "SUBMITTED", !.tx = sent + 1,
                                                 !.attempts = work[w].attempt],
            work[w].attempt)
    /\ UNCHANGED <<row, expired, mon>>

\* The transaction was accepted but the answer is lost (a timeout: retryable).
BroadcastLost(w) ==
    /\ "lostResponse" \in Enabled
    /\ work[w].pc = "sending"
    /\ Accept
    /\ CatchError(w, FALSE)
    /\ UNCHANGED <<row, expired, mon>>

BroadcastRejected(w) ==
    /\ work[w].pc = "sending"
    /\ \E permanent \in BOOLEAN : CatchError(w, permanent)
    /\ UNCHANGED <<row, expired, txState, sent, mon>>

\* The SUBMITTED entity is saved and the monitor started in the background.
RecordWithoutMonitor(w) ==  \* mutant: monitorTransaction is not started
    /\ work[w].pc = "recording"
    /\ row' = work[w].snap
    /\ Return(w)
    /\ UNCHANGED <<expired, txState, sent, mon>>

Record(w) ==
    /\ work[w].pc = "recording"
    /\ row' = work[w].snap
    /\ StartMonitor(work[w].snap.tx)
    /\ Return(w)
    /\ UNCHANGED <<expired, txState, sent>>

\* The save itself throws: the same catch block, so the loop broadcasts again.
RecordFails(w) ==
    /\ "dbFault" \in Enabled
    /\ work[w].pc = "recording"
    /\ CatchError(w, FALSE)
    /\ UNCHANGED <<row, expired, txState, sent, mon>>

\* The last save of signPayload, cleanupExpiredPayloads and submitPayload.
SaveSnapshot(w) ==
    /\ work[w].pc = "saving"
    /\ row' = work[w].snap
    /\ Return(w)
    /\ UNCHANGED <<expired, txState, sent, mon>>

SaveFails(w) ==
    /\ "dbFault" \in Enabled
    /\ work[w].pc \in {"saving", "resetting"}
    /\ Return(w)
    /\ UNCHANGED <<row, expired, txState, sent, mon>>

-----------------------------------------------------------------------------
\* SubmitterService.monitorTransaction.
MonitorAt(m, pc, s) == mon' = [mon EXCEPT ![m].pc = pc, ![m].snap = s]

MonitorReceipt(m) ==
    /\ mon[m].pc = "waiting"
    /\ txState[mon[m].tx] \in {"success", "reverted"}
    /\ MonitorAt(m, "receipt", NoRow)
    /\ UNCHANGED <<row, expired, txState, sent, work>>

\* waitForTransaction throws or yields no receipt.
MonitorLosesReceipt(m) ==
    /\ "providerFault" \in Enabled
    /\ mon[m].pc = "waiting"
    /\ MonitorAt(m, "error", NoRow)
    /\ UNCHANGED <<row, expired, txState, sent, work>>

MonitorReadAlwaysConfirms(m) ==  \* mutant: the receipt's status is not looked at
    /\ mon[m].pc \in {"receipt", "error"}
    /\ MonitorAt(m, "receiptSave", [row EXCEPT !.status = "CONFIRMED"])
    /\ UNCHANGED <<row, expired, txState, sent, work>>

MonitorRead(m) ==
    /\ mon[m].pc \in {"receipt", "error"}
    /\ IF mon[m].pc = "receipt"
       THEN MonitorAt(m, "receiptSave",
                [row EXCEPT !.status = IF txState[mon[m].tx] = "success" THEN "CONFIRMED" ELSE "FAILED"])
       ELSE MonitorAt(m, "errorSave", [row EXCEPT !.status = "FAILED"])
    /\ UNCHANGED <<row, expired, txState, sent, work>>

MonitorSave(m) ==
    /\ mon[m].pc \in {"receiptSave", "errorSave"}
    /\ row' = mon[m].snap
    /\ MonitorAt(m, "off", NoRow)
    /\ UNCHANGED <<expired, txState, sent, work>>

\* A failed save of the receipt's outcome lands in the catch block, a failed
\* save there is only logged.
MonitorSaveFails(m) ==
    /\ "dbFault" \in Enabled
    /\ mon[m].pc \in {"receiptSave", "errorSave"}
    /\ MonitorAt(m, IF mon[m].pc = "receiptSave" THEN "error" ELSE "off", NoRow)
    /\ UNCHANGED <<row, expired, txState, sent, work>>

-----------------------------------------------------------------------------
\* External: the chain mines a pending transaction; time passes; the process dies.
Mine(t) ==
    /\ txState[t] = "pending"
    /\ \E o \in {"success", "reverted"} : txState' = [txState EXCEPT ![t] = o]
    /\ UNCHANGED <<row, expired, sent, work, mon>>

Expire ==
    /\ Exists /\ ~expired
    /\ expired' = TRUE
    /\ UNCHANGED <<row, txState, sent, work, mon>>

Crash ==
    /\ "crash" \in Enabled
    /\ work' = [w \in Workers |-> [pc |-> "idle", snap |-> NoRow, attempt |-> 0]]
    /\ mon' = [m \in Monitors |-> [pc |-> "off", tx |-> 0, snap |-> NoRow]]
    /\ UNCHANGED <<row, expired, txState, sent>>

MonitorStep(m) == MonitorReceipt(m) \/ MonitorRead(m) \/ MonitorSave(m)
MonitorFault(m) == MonitorLosesReceipt(m) \/ MonitorSaveFails(m)

WorkerStep(w) ==
    \/ SignRead(w) \/ CleanupRead(w) \/ RetryReset(w)
    \/ SubmitResumesMonitoring(w) \/ SubmitRefused(w) \/ SubmitExpired(w) \/ SubmitBegin(w)
    \/ Broadcast(w) \/ BroadcastRejected(w) \/ Record(w) \/ SaveSnapshot(w)

WorkerFault(w) == RetryRead(w) \/ BroadcastLost(w) \/ RecordFails(w) \/ SaveFails(w)

\* At most one call is in progress.
OneAtATime == \A v, w \in Workers : work[v].pc # "idle" /\ work[w].pc # "idle" => v = w
StaysCalm == calm' = (calm /\ OneAtATime')
Upsets == calm' = FALSE

Next ==
    \/ (CreatePayload \/ Expire) /\ StaysCalm
    \/ \E w \in Workers : (WorkerStep(w) /\ StaysCalm) \/ (WorkerFault(w) /\ Upsets)
    \/ \E m \in Monitors : (MonitorStep(m) /\ StaysCalm) \/ (MonitorFault(m) /\ Upsets)
    \/ \E t \in Tx : Mine(t) /\ StaysCalm
    \/ Crash /\ Upsets

Spec == Init /\ [][Next]_vars

\* Blocks keep being produced and suspended monitors are resumed.
LiveSpec ==
    /\ Spec
    /\ \A t \in Tx : WF_vars(Mine(t) /\ StaysCalm)
    /\ \A m \in Monitors : WF_vars(MonitorStep(m) /\ StaysCalm)

-----------------------------------------------------------------------------
\* The shape of every variable; transaction identifiers are those broadcast.
TypeOK ==
    /\ row \in Rows
    /\ expired \in BOOLEAN
    /\ calm \in BOOLEAN
    /\ sent \in 0..MaxTx
    /\ txState \in [Tx -> {"unsent", "pending", "success", "reverted"}]
    /\ work \in [Workers -> [pc : {"idle", "saving", "resetting", "submit", "sending", "recording"},
                             snap : Rows, attempt : 0..MaxRetries + 1]]
    /\ mon \in [Monitors -> [pc : {"off", "waiting", "receipt", "error", "receiptSave", "errorSave"},
                             tx : 0..MaxTx, snap : Rows]]

\* A payload is reported CONFIRMED only if the chain really executed one of its
\* transactions, through every race, crash and overwritten snapshot
\* (monitorTransaction, submitPayload, signPayload, retrySubmission).
ConfirmedMeansMined == row.status = "CONFIRMED" => \E t \in Tx : txState[t] = "success"

\* A payload in SUBMITTED always names a transaction that was broadcast, so
\* submitPayload's "continuing monitoring" branch can always resume it.
SubmittedIsTraceable ==
    row.status = "SUBMITTED" => row.tx \in 1..sent /\ row.signed /\ row.attempts > 0

\* submitPayload "Ensures idempotency by checking existing transaction hash":
\* a payload is broadcast at most once.  Two concurrent calls break it.
BroadcastOnce == sent <= 1

\* ... it holds until two calls overlap or something goes wrong.
CalmBroadcastsOnce == calm => BroadcastOnce

\* Until then, a payload that was CONFIRMED is never put back in flight or
\* reported otherwise, with any number of monitors that wait for its receipt.
CalmIsFinal == [][calm /\ row.status = "CONFIRMED" => row'.status = "CONFIRMED"]_vars
=============================================================================
