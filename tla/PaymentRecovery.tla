--------------------------- MODULE PaymentRecovery ---------------------------
(***************************************************************************)
(* payments/payments.service.ts: one payment operation, that is one        *)
(* (owner, processor, idempotency key), through create, sign, submit and   *)
(* recovery, with any number of calls in progress on any API instance.     *)
(*                                                                         *)
(* A call reads the payment_operations row, awaits the processor and saves *)
(* the whole entity it holds; only createPayment's INSERT (unique index)   *)
(* and submitTransaction's conditional UPDATE (SIGNED -> SUBMITTING) are   *)
(* decided by the database.  signAndSubmit and resumePayment are calls of  *)
(* signTransaction and submitTransaction one after the other.              *)
(*                                                                         *)
(* A payment is the processor's answer to createPayment, numbered in the   *)
(* order of creation; signing one always yields the same payload, so       *)
(* "signed" names the payment whose payload is stored.                     *)
(***************************************************************************)
EXTENDS Integers

CONSTANTS
    Calls,        \* calls in progress at once
    MaxPayments,  \* bound: payments the processor creates
    Setups        \* the deployments considered, a subset of Setup

Operations == {"create", "sign", "submit"}
Disturbances == {"processorFault", "dbFault", "crash", "delay"}

\* may: the operations each call may run; safe: supportsSafeSubmissionRetry;
\* clientSigns: the processor can match a client's signature
\* (matchesCreatedPayment); enabled: the disturbances that may happen.
Setup == [may : [Calls -> SUBSET Operations], safe : BOOLEAN, clientSigns : BOOLEAN,
          enabled : SUBSET Disturbances]

VARIABLES
    env,      \* the deployment, fixed
    row,      \* the row: state, paymentId/createdPayment and signedPayload (0: null), and the status
              \* in submittedTransaction ("none": null)
    recent,   \* updatedAt is less than 60 s ago
    created,  \* payments the processor created so far
    settled,  \* per payment: how often the processor carried it out
    verdict,  \* per payment: what the processor has made of it
    given,    \* payments returned to callers of createPayment
    call      \* per call: where it is suspended, its entity

vars == <<env, row, recent, created, settled, verdict, given, call>>

PaymentIds == 1..MaxPayments
States == {"absent", "CREATING", "CREATED", "SIGNED", "SUBMITTING", "SUBMITTED", "RECOVERY_REQUIRED"}

\* What a processor answers to a submission: PENDING, PROCESSING or SUBMITTED while
\* nothing is decided ("open"), FAILED, CONFIRMED; "none" until it has received one.
Answers == {"open", "refused", "accepted"}
Verdicts == Answers \union {"none"}

Rows == [state : States, pay : 0..MaxPayments, signed : 0..MaxPayments, answer : Verdicts]
NoRow == [state |-> "absent", pay |-> 0, signed |-> 0, answer |-> "none"]
Idle == [pc |-> "idle", op |-> NoRow]

May == env.may
SafeRetry == env.safe
ClientSigns == env.clientSigns
Disturbed == env.enabled

Init ==
    /\ env \in Setups
    /\ row = NoRow
    /\ recent = FALSE
    /\ created = 0
    /\ settled = [p \in PaymentIds |-> 0]
    /\ verdict = [p \in PaymentIds |-> "none"]
    /\ given = {}
    /\ call = [c \in Calls |-> Idle]

Goto(c, pc, op) == call' = [call EXCEPT ![c].pc = pc, ![c].op = op]
Return(c) == call' = [call EXCEPT ![c] = Idle]

\* operationRepository.save(operation): every column as the entity has it.
SaveColumns(c) ==
    /\ row' = call[c].op
    /\ recent' = TRUE

At(c, pc) == call[c].pc = pc
Begin(c, o) == At(c, "idle") /\ o \in May[c]

-----------------------------------------------------------------------------
\* createPayment up to its first write.  Requests with another fingerprint are
\* turned away before anything happens.
CreateReturnsSaved(c) ==
    /\ Begin(c, "create") /\ row.pay # 0
    /\ given' = given \union {row.pay}
    /\ UNCHANGED <<env, row, recent, created, settled, verdict, call>>

CreateFindsNothing(c) ==
    /\ Begin(c, "create") /\ row = NoRow
    /\ Goto(c, "inserting", NoRow)
    /\ UNCHANGED <<env, row, recent, created, settled, verdict, given>>

\* No payment yet: an attempt that failed, or one not heard of for a minute.
CreateTakesOverAnytime(c) ==  \* mutant: an attempt in progress is not waited for
    /\ Begin(c, "create") /\ row # NoRow /\ row.pay = 0
    /\ Goto(c, "retaking", [row EXCEPT !.state = "CREATING"])
    /\ UNCHANGED <<env, row, recent, created, settled, verdict, given>>

CreateTakesOver(c) ==
    /\ Begin(c, "create") /\ row # NoRow /\ row.pay = 0
    /\ ~(row.state = "CREATING" /\ recent)
    /\ Goto(c, "retaking", [row EXCEPT !.state = "CREATING"])
    /\ UNCHANGED <<env, row, recent, created, settled, verdict, given>>

InsertOperation(c) ==
    /\ At(c, "inserting") /\ row = NoRow
    /\ row' = [NoRow EXCEPT !.state = "CREATING"]
    /\ recent' = TRUE
    /\ Goto(c, "creating", row')
    /\ UNCHANGED <<env, created, settled, verdict, given>>

\* The unique index refuses: the winner's payment, or a conflict.
InsertLosesRace(c) ==
    /\ At(c, "inserting") /\ row # NoRow
    /\ given' = given \union ({row.pay} \ {0})
    /\ Return(c)
    /\ UNCHANGED <<env, row, recent, created, settled, verdict>>

RetakeOperation(c) ==
    /\ At(c, "retaking")
    /\ SaveColumns(c)
    /\ Goto(c, "creating", call[c].op)
    /\ UNCHANGED <<env, created, settled, verdict, given>>

\* processor.createPayment.
ProcessorCreates(c) ==
    /\ At(c, "creating") /\ created < MaxPayments
    /\ created' = created + 1
    /\ Goto(c, "checkpointing", [call[c].op EXCEPT !.state = "CREATED", !.pay = created + 1])
    /\ UNCHANGED <<env, row, recent, settled, verdict, given>>

CheckpointCreated(c) ==
    /\ At(c, "checkpointing")
    /\ SaveColumns(c)
    /\ given' = given \union {call[c].op.pay}
    /\ Return(c)
    /\ UNCHANGED <<env, created, settled, verdict>>

\* The catch blocks of createPayment and submitTransaction.
Fail(c) == Goto(c, "failing", [call[c].op EXCEPT !.state = "RECOVERY_REQUIRED"])

CreateFails(c) ==
    /\ \/ At(c, "creating") /\ "processorFault" \in Disturbed
       \/ At(c, "checkpointing") /\ "dbFault" \in Disturbed
    /\ Fail(c)
    /\ UNCHANGED <<env, row, recent, created, settled, verdict, given>>

SaveRecoveryRequired(c) ==
    /\ At(c, "failing")
    /\ SaveColumns(c)
    /\ Return(c)
    /\ UNCHANGED <<env, created, settled, verdict, given>>

-----------------------------------------------------------------------------
\* signTransaction: a stored payload is returned, otherwise sign and save.
SignRead(c) ==
    /\ Begin(c, "sign") /\ row.pay # 0
    /\ row.signed = 0 \/ row.state \in {"CREATING", "CREATED"}
    /\ Goto(c, "signing", [row EXCEPT !.state = "SIGNED", !.signed = row.pay])
    /\ UNCHANGED <<env, row, recent, created, settled, verdict, given>>

SignSave(c) ==
    /\ At(c, "signing")
    /\ SaveColumns(c)
    /\ Return(c)
    /\ UNCHANGED <<env, created, settled, verdict, given>>

-----------------------------------------------------------------------------
\* submitTransaction with the payload of the row's payment.  Nothing happens
\* if it is SUBMITTED already, or if the stored payload is not the given one.
Interrupted(state) == state \in {"SUBMITTING", "RECOVERY_REQUIRED"}

SubmitAdoptsSignature(c) ==
    /\ Begin(c, "submit") /\ ClientSigns
    /\ row.pay # 0 /\ row.signed = 0 /\ row.state = "CREATED"
    /\ Goto(c, "adopting", [row EXCEPT !.state = "SIGNED", !.signed = row.pay])
    /\ UNCHANGED <<env, row, recent, created, settled, verdict, given>>

AdoptSignature(c) ==
    /\ At(c, "adopting")
    /\ SaveColumns(c)
    /\ Goto(c, "claiming", call[c].op)
    /\ UNCHANGED <<env, created, settled, verdict, given>>

SubmitRead(c) ==
    /\ Begin(c, "submit")
    /\ row.pay # 0 /\ row.signed = row.pay /\ row.state # "SUBMITTED"
    /\ Goto(c, IF Interrupted(row.state) THEN "asking" ELSE "claiming", row)
    /\ UNCHANGED <<env, row, recent, created, settled, verdict, given>>

\* An interrupted submission: processor.getStatus answers something other than
\* PENDING, be it PROCESSING or FAILED; the operation is SUBMITTED with that answer ...
StatusFinalAssumed(c) ==  \* mutant: PENDING is recorded too
    /\ At(c, "asking")
    /\ Goto(c, "confirming", [call[c].op EXCEPT !.state = "SUBMITTED", !.answer = "open"])
    /\ UNCHANGED <<env, row, recent, created, settled, verdict, given>>

StatusFinal(c) ==
    /\ At(c, "asking") /\ verdict[call[c].op.pay] # "none"
    /\ Goto(c, "confirming", [call[c].op EXCEPT !.state = "SUBMITTED", !.answer = verdict[call[c].op.pay]])
    /\ UNCHANGED <<env, row, recent, created, settled, verdict, given>>

\* ... or says PENDING, at any time: only a safe processor is asked to submit again ...
StatusPendingTrusted(c) ==  \* mutant: PENDING is taken for "not submitted yet"
    /\ At(c, "asking")
    /\ Goto(c, "reclaiming", [call[c].op EXCEPT !.state = "SUBMITTING"])
    /\ UNCHANGED <<env, row, recent, created, settled, verdict, given>>

StatusPending(c) ==
    /\ At(c, "asking")
    /\ IF SafeRetry
       THEN Goto(c, "reclaiming", [call[c].op EXCEPT !.state = "SUBMITTING"])
       ELSE Return(c)
    /\ UNCHANGED <<env, row, recent, created, settled, verdict, given>>

\* ... or it, or saving what it said, fails.
StatusFails(c) ==
    /\ \/ At(c, "asking") /\ "processorFault" \in Disturbed
       \/ At(c, "confirming") /\ "dbFault" \in Disturbed
    /\ IF SafeRetry
       THEN Goto(c, "reclaiming", [call[c].op EXCEPT !.state = "SUBMITTING"])
       ELSE Fail(c)
    /\ UNCHANGED <<env, row, recent, created, settled, verdict, given>>

ConfirmSubmitted(c) ==
    /\ At(c, "confirming")
    /\ SaveColumns(c)
    /\ Return(c)
    /\ UNCHANGED <<env, created, settled, verdict, given>>

Reclaim(c) ==
    /\ At(c, "reclaiming")
    /\ SaveColumns(c)
    /\ Goto(c, "sending", call[c].op)
    /\ UNCHANGED <<env, created, settled, verdict, given>>

\* UPDATE ... SET state = SUBMITTING WHERE state = SIGNED.
Claim(c) ==
    /\ At(c, "claiming") /\ row.state = "SIGNED"
    /\ row' = [row EXCEPT !.state = "SUBMITTING"]
    /\ recent' = TRUE
    /\ Goto(c, "sending", [call[c].op EXCEPT !.state = "SUBMITTING"])
    /\ UNCHANGED <<env, created, settled, verdict, given>>

ClaimLost(c) ==
    /\ At(c, "claiming") /\ row.state # "SIGNED"
    /\ Return(c)
    /\ UNCHANGED <<env, row, recent, created, settled, verdict, given>>

\* External, processor.submitTransaction.  A decision is final; a safe processor
\* recognises the payload it has carried out before.
CarryOut(p) == settled' = [settled EXCEPT ![p] = IF SafeRetry THEN 1 ELSE @ + 1]

Decide(p, v) ==
    /\ verdict[p] \in {"none", "open", v}
    /\ verdict' = [verdict EXCEPT ![p] = v]
    /\ IF v = "accepted" THEN CarryOut(p) ELSE UNCHANGED settled

\* A payment left open is decided later, whatever the row says by then.
DecideOpen(p) ==
    /\ verdict[p] = "open"
    /\ \E v \in {"refused", "accepted"} : Decide(p, v)
    /\ UNCHANGED <<env, row, recent, created, given, call>>

\* Whatever the processor answers, the operation is SUBMITTED ...
Send(c) ==
    \E v \in Answers :
        /\ At(c, "sending")
        /\ Decide(call[c].op.pay, v)
        /\ Goto(c, "recording", [call[c].op EXCEPT !.state = "SUBMITTED", !.answer = v])
        /\ UNCHANGED <<env, row, recent, created, given>>

\* ... unless the answer is lost.
SendAnswerLost(c) ==
    /\ "processorFault" \in Disturbed
    /\ At(c, "sending")
    /\ \E v \in Answers : Decide(call[c].op.pay, v)
    /\ Fail(c)
    /\ UNCHANGED <<env, row, recent, created, given>>

SendFails(c) ==
    /\ \/ At(c, "sending") /\ "processorFault" \in Disturbed
       \/ At(c, "recording") /\ "dbFault" \in Disturbed
    /\ Fail(c)
    /\ UNCHANGED <<env, row, recent, created, settled, verdict, given>>

RecordSubmitted(c) ==
    /\ At(c, "recording")
    /\ SaveColumns(c)
    /\ Return(c)
    /\ UNCHANGED <<env, created, settled, verdict, given>>

-----------------------------------------------------------------------------
\* External: any other database call throws; the instance dies; a minute passes.
SaveFails(c) ==
    /\ "dbFault" \in Disturbed
    /\ call[c].pc \in {"inserting", "retaking", "failing", "signing", "adopting", "reclaiming", "claiming"}
    /\ Return(c)
    /\ UNCHANGED <<env, row, recent, created, settled, verdict, given>>

Crash(c) ==
    /\ "crash" \in Disturbed /\ ~At(c, "idle")
    /\ Return(c)
    /\ UNCHANGED <<env, row, recent, created, settled, verdict, given>>

MinutePasses ==
    /\ "delay" \in Disturbed /\ recent
    /\ recent' = FALSE
    /\ UNCHANGED <<env, row, created, settled, verdict, given, call>>

Create(c) ==
    \/ CreateReturnsSaved(c) \/ CreateFindsNothing(c) \/ CreateTakesOver(c)
    \/ InsertOperation(c) \/ InsertLosesRace(c) \/ RetakeOperation(c)
    \/ ProcessorCreates(c) \/ CheckpointCreated(c) \/ CreateFails(c) \/ SaveRecoveryRequired(c)

Sign(c) == SignRead(c) \/ SignSave(c)

Submit(c) ==
    \/ SubmitAdoptsSignature(c) \/ AdoptSignature(c) \/ SubmitRead(c)
    \/ StatusFinal(c) \/ StatusPending(c) \/ StatusFails(c) \/ ConfirmSubmitted(c) \/ Reclaim(c)
    \/ Claim(c) \/ ClaimLost(c) \/ Send(c) \/ SendAnswerLost(c) \/ SendFails(c) \/ RecordSubmitted(c)

Next ==
    \/ MinutePasses
    \/ \E p \in PaymentIds : DecideOpen(p)
    \/ \E c \in Calls : Create(c) \/ Sign(c) \/ Submit(c) \/ SaveFails(c) \/ Crash(c)

Spec == Init /\ [][Next]_vars

-----------------------------------------------------------------------------
Pcs == {"idle", "inserting", "retaking", "creating", "checkpointing", "failing", "signing", "adopting",
        "asking", "confirming", "reclaiming", "claiming", "sending", "recording"}

\* The shape of every variable.
TypeOK ==
    /\ env \in Setups
    /\ row \in Rows
    /\ recent \in BOOLEAN
    /\ created \in 0..MaxPayments
    /\ settled \in [PaymentIds -> Nat]
    /\ verdict \in [PaymentIds -> Verdicts]
    /\ given \subseteq PaymentIds
    /\ call \in [Calls -> [pc : Pcs, op : Rows]]

\* What the operation is for: under one idempotency key the processor carries
\* out at most one payment, once, through lost answers, crashes and retries
\* (createPayment, submitTransaction).
PaidOnce ==
    \A p \in PaymentIds :
        /\ settled[p] <= 1
        /\ \A q \in PaymentIds : settled[p] > 0 /\ settled[q] > 0 => p = q

\* SUBMITTED says that the processor has received the payment, not that it was
\* carried out: it is saved for PENDING, PROCESSING and FAILED as well.  The answer
\* saved with it is the processor's: never CONFIRMED of a payment that was not
\* carried out, never FAILED of one that was.
SubmittedIsAnswered ==
    row.state = "SUBMITTED" =>
        /\ row.pay # 0 /\ verdict[row.pay] # "none" /\ row.answer # "none"
        /\ row.answer = "accepted" => settled[row.pay] > 0
        /\ row.answer = "refused" => settled[row.pay] = 0

\* A payment that the processor has received is still the row's payment, and the
\* row says that it was or may have been submitted: no later call takes it for
\* unsent.  (A late save of a client's signature may reset it, where clients sign.)
ReceivedIsRemembered ==
    ~ClientSigns => \A p \in PaymentIds : verdict[p] # "none" =>
        /\ row.pay = p /\ row.signed = p
        /\ row.state \in {"SUBMITTING", "RECOVERY_REQUIRED", "SUBMITTED"}

\* README, "Recovery checkpoints": "A repeated create request with the same
\* processor, key, and request returns its saved response": however many calls
\* create at once, as long as none fails or takes more than a minute.
OneResponse == Disturbed = {} => \A p, q \in given : p = q
-----------------------------------------------------------------------------
\* The deployments for which the above is promised: one caller at a time creates
\* and signs while any number submit, or, if nothing fails, any number create and
\* one caller at a time signs.  Clients sign only for a processor that is safe to
\* call again.
OneMaker(s) == \E c \in Calls : \A d \in Calls \ {c} : s.may[d] \subseteq {"submit"}
OneSigner(s) == \A c, d \in Calls : "sign" \in s.may[c] /\ "sign" \in s.may[d] => c = d
Supported(s) ==
    /\ s \in Setup
    /\ s.clientSigns => s.safe
    /\ OneMaker(s) \/ (s.enabled = {} /\ OneSigner(s))

-----------------------------------------------------------------------------
\* The inductive invariant.
Submitting == {"asking", "confirming", "reclaiming", "claiming", "sending", "recording"}
Sent == {"SUBMITTING", "RECOVERY_REQUIRED", "SUBMITTED"}
FailsToCreate(c) == At(c, "failing") /\ row.pay = 0
Making(c) == call[c].pc \in {"retaking", "creating", "checkpointing"} \/ FailsToCreate(c)
FailsToSubmit(c) == At(c, "failing") /\ row.pay # 0

\* What a call is about to save.
Entities ==
    \A c \in Calls :
        /\ At(c, "inserting") => "create" \in May[c]
        /\ Making(c) => call[c].op.signed = 0
        /\ call[c].pc \in {"retaking", "creating"} => call[c].op.pay = 0 /\ call[c].op.state = "CREATING"
        /\ At(c, "checkpointing") => call[c].op.pay # 0 /\ call[c].op.state = "CREATED"
        /\ At(c, "failing") => call[c].op.state = "RECOVERY_REQUIRED" /\ Disturbed # {}
        /\ call[c].pc \in {"signing", "adopting"} => call[c].op.state = "SIGNED"
        /\ call[c].pc \in {"reclaiming", "sending"} => call[c].op.state = "SUBMITTING"
        /\ call[c].pc \in {"confirming", "recording"} =>
              call[c].op.state = "SUBMITTED" /\ verdict[call[c].op.pay] # "none" /\ call[c].op.answer # "none"

\* Decisions are repeated as they were taken, by the row and by entities.
Truthful(r) == r.answer \in {"none", "open"} \/ (r.pay # 0 /\ r.answer = verdict[r.pay])
AnswersAreTrue ==
    /\ Truthful(row) /\ \A c \in Calls : Truthful(call[c].op)
    /\ row.state = "SUBMITTED" => row.pay # 0 /\ verdict[row.pay] # "none" /\ row.answer # "none"
    /\ \A p \in PaymentIds : settled[p] > 0 <=> verdict[p] = "accepted"

\* While there is no payment at most one call makes one; nothing is signed then.
OneMaking ==
    /\ row.state = "absent" => row = NoRow
    /\ row.pay = 0 => row.signed = 0 /\ row.state \in {"absent", "CREATING", "RECOVERY_REQUIRED"}
    /\ row.pay = 0 /\ Disturbed = {} /\ row.state # "absent" => row.state = "CREATING" /\ recent
    /\ \A c \in Calls : Making(c) => row.pay = 0 /\ row.state # "absent" /\ "create" \in May[c]
    /\ \A c, d \in Calls : Making(c) /\ Making(d) => c = d

\* The row's payment is the one that calls sign, submit and give out; a payment is
\* submitted with the signature the row has.
OnePayment ==
    /\ given \subseteq {row.pay} \ {0}
    /\ \A p \in PaymentIds : verdict[p] # "none" => row.pay = p /\ row.signed = p
    /\ row.signed \in {0, row.pay}
    /\ \A c \in Calls :
          call[c].pc \in Submitting \union {"signing", "adopting"} \/ FailsToSubmit(c) =>
              row.pay # 0 /\ call[c].op.pay = row.pay /\ call[c].op.signed = row.pay
    /\ \A c \in Calls : call[c].pc \in Submitting \/ FailsToSubmit(c) => row.signed = row.pay

\* Where clients do not sign: the one signature is saved before any submission, and
\* what is being submitted does not go back to SIGNED.
SignedOnce ==
    ~ClientSigns =>
        /\ row.signed # 0 => row.state \in Sent \union {"SIGNED"}
        /\ row.signed = 0 => row.state \notin {"SIGNED", "SUBMITTING", "SUBMITTED"}
        /\ \A c \in Calls : ~At(c, "adopting")
        /\ \A c \in Calls : At(c, "signing") => "sign" \in May[c] /\ row.signed = 0
        /\ \A c \in Calls : call[c].pc \in Submitting \ {"claiming"} \/ FailsToSubmit(c) => row.state \in Sent
        /\ \A p \in PaymentIds : verdict[p] # "none" => row.state \in Sent

\* A processor that must not be called twice is not.
SentOnce ==
    /\ \A p \in PaymentIds : settled[p] <= 1
    /\ ~SafeRetry =>
          /\ \A c \in Calls : ~At(c, "reclaiming")
          /\ \A c \in Calls : At(c, "sending") => verdict[row.pay] = "none"
          /\ \A c, d \in Calls : At(c, "sending") /\ At(d, "sending") => c = d

IInv ==
    TypeOK /\ Supported(env) /\ Entities /\ OneMaking /\ OnePayment /\ SignedOnce /\ SentOnce /\ AnswersAreTrue
=============================================================================
