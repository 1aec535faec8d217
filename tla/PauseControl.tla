----------------------------- MODULE PauseControl -----------------------------
(***************************************************************************)
(* infrastructure/pause-control/pause-control.service.ts, its changes      *)
(* wrapped by applyWithEvidence of                                         *)
(* infrastructure/audit/admin-config/admin-config-audit.service.ts: the    *)
(* pauses of one scope, activated, resumed, expired and rolled back by     *)
(* concurrent calls. Every save writes the whole row as it was loaded.     *)
(***************************************************************************)
EXTENDS Integers

CONSTANTS
    MaxRows,  \* bound on the pause rows of the scope
    Calls,    \* calls in progress at once
    Enabled   \* the disturbances that may happen, of {"evidenceFault", "dbFault"}

Ids == 1 .. MaxRows

VARIABLES
    row,   \* per id: "absent", "active" or "inactive", and its expiresAt
    call,  \* per call: where it is suspended, the activation's expiry and before-snapshot, the row it loaded
    clean, \* history: activations since whose save no call that may lift a pause is under way
    held   \* history: such an activation was acknowledged, and still none is

vars == <<row, call, clean, held>>

Expiries == {"never", "later"}  \* and "past", once it has gone by
NoPause == [status |-> "absent", exp |-> "never"]
Idle == [pc |-> "idle"]

Init ==
    /\ row = [i \in Ids |-> NoPause]
    /\ call = [c \in Calls |-> Idle]
    /\ clean = {}
    /\ held = FALSE

At(c, pc) == call[c].pc = pc
Begin(c, pc, e, b) == At(c, "idle") /\ call' = [call EXCEPT ![c] = [pc |-> pc, exp |-> e, before |-> b, loaded |-> {}]]
Load(c, pc, ids) == call' = [call EXCEPT ![c].pc = pc, ![c].loaded = {<<i, row[i]>> : i \in ids}]
Goto(c, pc) == call' = [call EXCEPT ![c].pc = pc, ![c].exp = "never", ![c].loaded = {}]
Return(c) == call' = [call EXCEPT ![c] = Idle]

Active == {i \in Ids : row[i].status = "active"}
Save(i, status, exp) == row' = [row EXCEPT ![i] = [status |-> status, exp |-> exp]]

\* The calls that may make a pause inactive: resumes, expiries, and activations
\* that found no pause before them, whose rollback is to lift the pause again.
Lifting(c) == ~At(c, "idle") /\ call[c].before = NoPause
Clean(c) == clean' = IF \A d \in Calls \ {c} : ~Lifting(d) THEN clean \union {c} ELSE clean \ {c}

-----------------------------------------------------------------------------
\* activatePause: the snapshot before the change ...
Activate(c, e) ==
    /\ \E b \in IF Active = {} THEN {NoPause} ELSE {row[i] : i \in Active} : Begin(c, "applying", e, b)
    /\ UNCHANGED <<row, clean, held>>

\* ... applyActivatePause: update the active pause, or insert one ...
ApplyRead(c) ==
    /\ At(c, "applying")
    /\ \/ \E i \in Active : Load(c, "updating", {i})
       \/ Active = {} /\ Load(c, "inserting", {})
    /\ UNCHANGED <<row, clean, held>>

Update(c) ==
    /\ At(c, "updating")
    /\ \E l \in call[c].loaded : Save(l[1], "active", call[c].exp)
    /\ Goto(c, "recording")
    /\ Clean(c)
    /\ UNCHANGED held

Insert(c, i) ==
    /\ At(c, "inserting") /\ {j \in Ids : row[j] # NoPause} = 1 .. i - 1
    /\ Save(i, "active", call[c].exp)
    /\ Goto(c, "recording")
    /\ Clean(c)
    /\ UNCHANGED held

\* ... the evidence, and the caller is told that the scope is paused.
Acknowledge(c) ==
    /\ At(c, "recording")
    /\ held' = (held \/ c \in clean)
    /\ clean' = clean \ {c}
    /\ Return(c)
    /\ UNCHANGED row

\* The evidence cannot be written: revertActivation.
EvidenceFails(c) ==
    /\ "evidenceFault" \in Enabled /\ At(c, "recording")
    /\ Goto(c, "reverting")
    /\ UNCHANGED <<row, clean, held>>

RevertAlwaysLifts(c) ==  \* mutant: the snapshot is ignored, the pause is lifted
    /\ At(c, "reverting")
    /\ \E i \in Active : Load(c, "lifting", {i})
    /\ UNCHANGED <<row, clean, held>>

RevertRead(c) ==
    /\ At(c, "reverting")
    /\ \/ \E i \in Active : Load(c, IF call[c].before = NoPause THEN "lifting" ELSE "restoring", {i})
       \/ Active = {} /\ Return(c)
    /\ UNCHANGED <<row, clean, held>>

Restore(c) ==
    /\ At(c, "restoring")
    /\ \E l \in call[c].loaded : Save(l[1], "active", call[c].before.exp)
    /\ Return(c)
    /\ UNCHANGED <<clean, held>>

Lift(c) ==
    /\ At(c, "lifting")
    /\ \E l \in call[c].loaded : Save(l[1], "inactive", l[2].exp)
    /\ Return(c)
    /\ UNCHANGED <<clean, held>>

-----------------------------------------------------------------------------
\* resumePause: null without an active pause; applyResumePause looks again.
Resume(c) ==
    /\ \E i \in Active : /\ At(c, "idle")
                         /\ call' = [call EXCEPT ![c] = [pc |-> "resuming", exp |-> "never", before |-> NoPause,
                                                         loaded |-> {}, resumed |-> i]]
    /\ clean' = {} /\ held' = FALSE
    /\ UNCHANGED row

ResumeRead(c) ==
    /\ At(c, "resuming")
    /\ \/ \E i \in Active : Load(c, "resumeSaving", {i})
       \/ Active = {} /\ Load(c, "resumeRecording", {})
    /\ UNCHANGED <<row, clean, held>>

ResumeSave(c) ==
    /\ At(c, "resumeSaving")
    /\ \E l \in call[c].loaded : Save(l[1], "inactive", l[2].exp)
    /\ Goto(c, "resumeRecording")
    /\ UNCHANGED <<clean, held>>

ResumeDone(c) ==
    /\ At(c, "resumeRecording")
    /\ Return(c)
    /\ UNCHANGED <<row, clean, held>>

\* revertResume activates the pause that was there before, by its id.
ResumeEvidenceFails(c) ==
    /\ "evidenceFault" \in Enabled /\ At(c, "resumeRecording")
    /\ Load(c, "unresuming", {call[c].resumed})
    /\ UNCHANGED <<row, clean, held>>

Unresume(c) ==
    /\ At(c, "unresuming")
    /\ \E l \in call[c].loaded : Save(l[1], "active", l[2].exp)
    /\ Return(c)
    /\ UNCHANGED <<clean, held>>

-----------------------------------------------------------------------------
\* isOperationPaused and getActivePauses: the rows to be expired among those
\* found active (isOperationPaused stops at the first that is not), one by one.
Expire(c) ==
    \E ids \in (SUBSET {i \in Active : row[i].exp = "past"}) \ {{}} :
        /\ At(c, "idle")
        /\ call' = [call EXCEPT ![c] = [pc |-> "expiring", exp |-> "never", before |-> NoPause,
                                        loaded |-> {<<i, row[i]>> : i \in ids}]]
        /\ clean' = {} /\ held' = FALSE
        /\ UNCHANGED row

ExpireSave(c) ==
    /\ At(c, "expiring")
    /\ \E l \in call[c].loaded :
         /\ Save(l[1], "inactive", l[2].exp)
         /\ IF call[c].loaded = {l} THEN Return(c) ELSE call' = [call EXCEPT ![c].loaded = @ \ {l}]
    /\ UNCHANGED <<clean, held>>

\* External: the clock; a database call that throws (createAuditEntry may do so
\* after the row was saved, and a change that throws is not reverted); a crash.
ExpiryPasses(i) ==
    /\ row[i].exp = "later"
    /\ row' = [row EXCEPT ![i].exp = "past"]
    /\ UNCHANGED <<call, clean, held>>

Fault(c) ==
    /\ "dbFault" \in Enabled /\ ~At(c, "idle")
    /\ Return(c)
    /\ UNCHANGED <<row, clean, held>>

Next ==
    \/ \E i \in Ids : ExpiryPasses(i)
    \/ \E c \in Calls :
          \/ \E e \in Expiries : Activate(c, e)
          \/ \E i \in Ids : Insert(c, i)
          \/ ApplyRead(c) \/ Update(c) \/ Acknowledge(c)
          \/ EvidenceFails(c) \/ RevertRead(c) \/ Restore(c) \/ Lift(c)
          \/ Resume(c) \/ ResumeRead(c) \/ ResumeSave(c) \/ ResumeDone(c)
          \/ ResumeEvidenceFails(c) \/ Unresume(c)
          \/ Expire(c) \/ ExpireSave(c) \/ Fault(c)

Spec == Init /\ [][Next]_vars

-----------------------------------------------------------------------------
\* An emergency pause that was acknowledged, while no resume, no expiry and no
\* rollback of a first activation was under way, holds until a resume or an
\* expiry begins: whatever activations follow, fail and are rolled back, some
\* pause of the scope is active (applyWithEvidence: "either takes effect with
\* ... evidence ..., or does not take effect at all").
AcknowledgedPauseHolds == held => Active # {}

-----------------------------------------------------------------------------
\* The inductive invariant.
Shape ==
    /\ row = [i \in Ids |-> row[i]]
    /\ \A i \in Ids : row[i] = [status |-> row[i].status, exp |-> row[i].exp]
    /\ call = [c \in Calls |-> call[c]]
    /\ \A c \in Calls : At(c, "idle") \/ {"pc", "exp", "before", "loaded"} \subseteq DOMAIN call[c]
    /\ \A c \in Calls : At(c, "updating") => \A l \in call[c].loaded : l[1] \in Ids

\* Only these calls make a pause inactive.
Lifters ==
    \A c \in Calls :
        call[c].pc \in {"lifting", "resuming", "resumeSaving", "resumeRecording", "unresuming", "expiring"}
            => call[c].before = NoPause

\* While a clean activation is being recorded no other call may lift its pause, and
\* once it is acknowledged none may: an activation that finds it would restore it.
NobodyLifts ==
    /\ \A c \in clean : At(c, "recording") => Active # {} /\ \A d \in Calls \ {c} : ~Lifting(d)
    /\ held => Active # {} /\ \A d \in Calls : ~Lifting(d)

IInv == Shape /\ Lifters /\ NobodyLifts /\ clean \subseteq Calls
=============================================================================
