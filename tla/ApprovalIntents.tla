--------------------------- MODULE ApprovalIntents ---------------------------
(***************************************************************************)
(* infrastructure/audit/approval-intents/approval-intent.service.ts:       *)
(* intents with one and the same commitment, proposed, withdrawn, expired  *)
(* and executed by any number of calls on any API instance.                *)
(*                                                                         *)
(* cancel, expireIntent, markExpired, expireDueIntents and the claim of    *)
(* execute are conditional UPDATEs, decided by the database; propose's     *)
(* lookup, its retraction and finish are plain reads and saves.            *)
(***************************************************************************)
EXTENDS Integers

CONSTANTS
    Intents,  \* ids that proposals may receive; all have the same fingerprint
    Calls,    \* calls in progress at once
    Enabled   \* the disturbances that may happen, of Disturbances

Disturbances == {"evidenceFault", "dbFault", "crash"}

VARIABLES
    intent,     \* per id: the row's status and the outcome its receipt states
    due,        \* ids whose expiresAt has passed
    call,       \* per call: where it is suspended, its intent, the outcome it is to store
    ran,        \* history, per id: executions of the operation
    outcome,    \* history, per id: how the last one ended
    withdrawn,  \* history: ids that an UPDATE cancelled or expired
    before,     \* history, per id: the ids that existed when its proposal looked for a twin
    filed       \* history, per id: whether its receipt was stored, and erased again

vars == <<intent, due, call, ran, outcome, withdrawn, before, filed>>

Statuses == {"absent", "proposed", "executing", "completed", "failed", "cancelled", "expired"}
Outcomes == {"none", "completed", "failed"}
NoRow == [status |-> "absent", receipt |-> "none"]

\* An intent is only given to a call together with a pc other than "idle".
Pcs == {"idle", "saving", "evidencing", "retracting", "cancelling", "expiring",
        "claiming", "running", "finishing"}
Idle == [pc |-> "idle"]
Busy == [pc : Pcs \ {"idle"}, id : Intents, outcome : Outcomes]

Init ==
    /\ intent = [i \in Intents |-> NoRow]
    /\ due = {}
    /\ call = [c \in Calls |-> Idle]
    /\ ran = [i \in Intents |-> 0]
    /\ outcome = [i \in Intents |-> "none"]
    /\ withdrawn = {}
    /\ before = [i \in Intents |-> {}]
    /\ filed = [i \in Intents |-> "no"]

At(c, pc) == call[c].pc = pc
Goto(c, pc, i) == call' = [call EXCEPT ![c] = [pc |-> pc, id |-> i, outcome |-> "none"]]
Return(c) == call' = [call EXCEPT ![c] = Idle]

Saved == {i \in Intents : intent[i].status # "absent"}
InUse == Saved \union {call[c].id : c \in {d \in Calls : ~At(d, "idle")}}

-----------------------------------------------------------------------------
\* propose: look for a proposed twin, save, record the evidence.
ProposeOverTwin(c, i) ==  \* mutant: only a twin in execution stands in the way
    /\ At(c, "idle") /\ i \notin InUse
    /\ \A j \in Intents : intent[j].status # "executing"
    /\ before' = [before EXCEPT ![i] = Saved]
    /\ Goto(c, "saving", i)
    /\ UNCHANGED <<intent, due, ran, outcome, withdrawn, filed>>

Propose(c, i) ==
    /\ At(c, "idle") /\ i \notin InUse
    /\ \A j \in Intents : intent[j].status # "proposed"
    /\ before' = [before EXCEPT ![i] = Saved]
    /\ Goto(c, "saving", i)
    /\ UNCHANGED <<intent, due, ran, outcome, withdrawn, filed>>

ProposeSave(c) ==
    /\ At(c, "saving")
    /\ intent' = [intent EXCEPT ![call[c].id].status = "proposed"]
    /\ Goto(c, "evidencing", call[c].id)
    /\ UNCHANGED <<due, ran, outcome, withdrawn, before, filed>>

ProposeEvidenced(c) ==
    /\ At(c, "evidencing")
    /\ Return(c)
    /\ UNCHANGED <<intent, due, ran, outcome, withdrawn, before, filed>>

EvidenceFails(c) ==
    /\ "evidenceFault" \in Enabled /\ At(c, "evidencing")
    /\ Goto(c, "retracting", call[c].id)
    /\ UNCHANGED <<intent, due, ran, outcome, withdrawn, before, filed>>

\* The save of the entity that the insert returned, in which every column that
\* finish fills is null: whatever the row has become, it is cancelled and has no
\* receipt.
Retract(c) ==
    /\ At(c, "retracting")
    /\ intent' = [intent EXCEPT ![call[c].id] = [status |-> "cancelled", receipt |-> "none"]]
    /\ filed' = [filed EXCEPT ![call[c].id] = IF @ = "stored" THEN "erased" ELSE @]
    /\ Return(c)
    /\ UNCHANGED <<due, ran, outcome, withdrawn, before>>

-----------------------------------------------------------------------------
\* cancel and expireIntent: read, then UPDATE ... WHERE status = proposed.
ReadToWithdraw(c, i, pc) ==
    /\ At(c, "idle") /\ intent[i].status = "proposed"
    /\ Goto(c, pc, i)
    /\ UNCHANGED <<intent, due, ran, outcome, withdrawn, before, filed>>

CancelRead(c, i) == ReadToWithdraw(c, i, "cancelling")
ExpireRead(c, i) == ReadToWithdraw(c, i, "expiring")

\* execute finds the intent past its expiry: markExpired.
ExecuteFindsExpired(c, i) == i \in due /\ ReadToWithdraw(c, i, "expiring")

Withdrawing(c) == At(c, "cancelling") \/ At(c, "expiring")

WithdrawAnyway(c) ==  \* mutant: UPDATE ... WHERE id = :id
    /\ Withdrawing(c)
    /\ intent' = [intent EXCEPT ![call[c].id].status = IF At(c, "cancelling") THEN "cancelled" ELSE "expired"]
    /\ withdrawn' = withdrawn \union {call[c].id}
    /\ Return(c)
    /\ UNCHANGED <<due, ran, outcome, before, filed>>

Withdraw(c) ==
    /\ Withdrawing(c) /\ intent[call[c].id].status = "proposed"
    /\ intent' = [intent EXCEPT ![call[c].id].status = IF At(c, "cancelling") THEN "cancelled" ELSE "expired"]
    /\ withdrawn' = withdrawn \union {call[c].id}
    /\ Return(c)
    /\ UNCHANGED <<due, ran, outcome, before, filed>>

WithdrawLost(c) ==
    /\ Withdrawing(c) /\ intent[call[c].id].status # "proposed"
    /\ Return(c)
    /\ UNCHANGED <<intent, due, ran, outcome, withdrawn, before, filed>>

\* expireDueIntents: one UPDATE over all proposed intents past their expiry.
ExpireDueIntents ==
    LET expiring == {i \in due : intent[i].status = "proposed"}
    IN  /\ expiring # {}
        /\ intent' = [i \in Intents |-> IF i \in expiring THEN [intent[i] EXCEPT !.status = "expired"]
                                                          ELSE intent[i]]
        /\ withdrawn' = withdrawn \union expiring
        /\ UNCHANGED <<due, call, ran, outcome, before, filed>>

-----------------------------------------------------------------------------
\* execute, for an executor that assertExecutorAllowed lets through.
ExecuteRead(c, i) ==
    /\ At(c, "idle") /\ intent[i].status = "proposed" /\ i \notin due
    /\ Goto(c, "claiming", i)
    /\ UNCHANGED <<intent, due, ran, outcome, withdrawn, before, filed>>

ClaimUnconditionally(c) ==  \* mutant: the claim saves what was read
    /\ At(c, "claiming")
    /\ intent' = [intent EXCEPT ![call[c].id].status = "executing"]
    /\ Goto(c, "running", call[c].id)
    /\ UNCHANGED <<due, ran, outcome, withdrawn, before, filed>>

Claim(c) ==
    /\ At(c, "claiming") /\ intent[call[c].id].status = "proposed"
    /\ intent' = [intent EXCEPT ![call[c].id].status = "executing"]
    /\ Goto(c, "running", call[c].id)
    /\ UNCHANGED <<due, ran, outcome, withdrawn, before, filed>>

ClaimLost(c) ==
    /\ At(c, "claiming") /\ intent[call[c].id].status # "proposed"
    /\ Return(c)
    /\ UNCHANGED <<intent, due, ran, outcome, withdrawn, before, filed>>

\* The caller's operation; a thrown error is an outcome too.
RunOperation(c) ==
    \E o \in {"completed", "failed"} :
        /\ At(c, "running")
        /\ ran' = [ran EXCEPT ![call[c].id] = @ + 1]
        /\ outcome' = [outcome EXCEPT ![call[c].id] = o]
        /\ call' = [call EXCEPT ![c].pc = "finishing", ![c].outcome = o]
        /\ UNCHANGED <<intent, due, withdrawn, before, filed>>

\* finish saves status and receipt; its own evidence is best effort.
Finish(c) ==
    /\ At(c, "finishing")
    /\ intent' = [intent EXCEPT ![call[c].id] = [status |-> call[c].outcome, receipt |-> call[c].outcome]]
    /\ filed' = [filed EXCEPT ![call[c].id] = "stored"]
    /\ Return(c)
    /\ UNCHANGED <<due, ran, outcome, withdrawn, before>>

-----------------------------------------------------------------------------
\* External: time, a database call that throws, an instance that dies.
ExpiryPasses(i) ==
    /\ i \in Saved \ due
    /\ due' = due \union {i}
    /\ UNCHANGED <<intent, call, ran, outcome, withdrawn, before, filed>>

SaveFails(c) ==
    /\ "dbFault" \in Enabled
    /\ call[c].pc \in {"saving", "retracting", "cancelling", "expiring", "claiming", "finishing"}
    /\ Return(c)
    /\ UNCHANGED <<intent, due, ran, outcome, withdrawn, before, filed>>

Crash(c) ==
    /\ "crash" \in Enabled /\ ~At(c, "idle")
    /\ Return(c)
    /\ UNCHANGED <<intent, due, ran, outcome, withdrawn, before, filed>>

OnIntent(c, i) ==
    \/ Propose(c, i) \/ CancelRead(c, i) \/ ExpireRead(c, i)
    \/ ExecuteFindsExpired(c, i) \/ ExecuteRead(c, i)

Continue(c) ==
    \/ ProposeSave(c) \/ ProposeEvidenced(c) \/ EvidenceFails(c) \/ Retract(c)
    \/ Withdraw(c) \/ WithdrawLost(c)
    \/ Claim(c) \/ ClaimLost(c) \/ RunOperation(c) \/ Finish(c)
    \/ SaveFails(c) \/ Crash(c)

Next ==
    \/ ExpireDueIntents
    \/ \E i \in Intents : ExpiryPasses(i)
    \/ \E c \in Calls : Continue(c) \/ \E i \in Intents : OnIntent(c, i)

Spec == Init /\ [][Next]_vars

-----------------------------------------------------------------------------
\* The shape of every variable.
TypeOK ==
    /\ intent \in [Intents -> [status : Statuses, receipt : Outcomes]]
    /\ due \subseteq Intents
    /\ call \in [Calls -> {Idle} \union Busy]
    /\ ran \in [Intents -> Nat]
    /\ outcome \in [Intents -> Outcomes]
    /\ withdrawn \subseteq Intents
    /\ before \in [Intents -> SUBSET Intents]
    /\ filed \in [Intents -> {"no", "stored", "erased"}]

\* "exactly one execution may win" (execute): whatever races with it, an
\* intent's operation runs at most once. Once finish has stored how the run
\* ended, the row keeps its status and its receipt against everybody but one: the
\* retraction of a proposal whose evidence failed (propose's catch) erases the
\* receipt of the operation that has run, and leaves the row cancelled. No other
\* row states an outcome.
IntentRunsOnce ==
    \A i \in Intents :
        /\ ran[i] <= 1
        /\ filed[i] = "stored" => ran[i] = 1 /\ intent[i] = [status |-> outcome[i], receipt |-> outcome[i]]
        /\ filed[i] = "erased" => ran[i] = 1 /\ intent[i] = [status |-> "cancelled", receipt |-> "none"]
        /\ filed[i] = "no" => intent[i].receipt = "none" /\ intent[i].status \notin {"completed", "failed"}

\* A cancellation or an expiry that was reported as done holds: the operation
\* of the intent has not run and will not (cancel, expireIntent, markExpired,
\* expireDueIntents against execute).
WithdrawnNeverRuns == \A i \in withdrawn : ran[i] = 0

\* Two identical intents can be proposed at the same time only if each of the
\* two propose calls looked for a twin before the other one had saved; a twin
\* that existed then has left "proposed" for good.
TwinsAreConcurrent ==
    \A i, j \in Intents :
        i # j /\ intent[i].status = "proposed" /\ intent[j].status = "proposed" => i \notin before[j]
=============================================================================
