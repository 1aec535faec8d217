------------------------------- MODULE Services -------------------------------
(***************************************************************************)
(* The services that share one shape: calls that read a row or a map,      *)
(* await something and write.  The rigid variable service chooses one of   *)
(* them.  Approval intents have their own variables; v1, ..., v8 are those *)
(* of the other services, in the order of their vars.  What a service does *)
(* not use stays as it is.  Constants have the meaning they have in the    *)
(* service's module; Calls and Enabled are shared.                         *)
(***************************************************************************)
EXTENDS ApprovalIntents

CONSTANTS
    Requests, MaxPayments, Setups,                           \* payments; Requests also of the trade lock
    MaxTokens,                                               \* refresh tokens
    MaxAttempts, MaxDeaths,                                  \* retry scheduler; MaxAttempts also of webhooks
    MaxRows,                                                 \* pause control
    MaxTransfers,                                            \* ownership transfer
    Keys, MaxTrades, MaxExpiries, NoRequest,                 \* trade lock
    Events, MaxEntries, MaxIds,                              \* event dead letters
    Subscribers, MaxDeliveries,                              \* webhooks
    Size, Batch, MaxRetries,                                 \* backfill
    Transactions, Memo, Listed, Hash,                       \* reconciliation
    Reference, None, Expected, MaxManuals,                   \* likewise
    Length, Handled, CheckpointEvery,                        \* event replay
    Instances, Ahead, Slowest, Fastest, Limit, Window, Burst,
    CheckEvery, MaxTime, MaxAdmitted                         \* rate limiter

\* Sizes and bounds are numbers; "nobody" is not a request.
ASSUME ServicesAssumption ==
    /\ MaxPayments \in Nat
    /\ Transactions \in Nat /\ Listed \in Nat /\ Hash \in [1..Listed -> 0..Transactions]
    /\ Size \in Nat /\ Batch \in Nat
    /\ MaxEntries \in Nat
    /\ MaxDeliveries \in Nat /\ Subscribers \in 1..MaxDeliveries
    /\ NoRequest \notin Requests

\* A policy admits something; the clocks of all instances are within the bounds.
ASSUME LimiterAssumption ==
    /\ Limit \in Nat \ {0} /\ Window \in Nat \ {0} /\ Burst \in Nat \ {0}
    /\ Slowest \in Int /\ Fastest \in Int /\ Slowest <= Fastest
    /\ \A i \in Instances : Ahead[i] \in Slowest..Fastest
    /\ "redis" \notin Instances

VARIABLES service, v1, v2, v3, v4, v5, v6, v7, v8

others == <<v1, v2, v3, v4, v5, v6, v7, v8>>
ServicesVars == <<service, vars, others>>

PR == INSTANCE PaymentRecovery WITH
        Calls <- Requests,
        env <- v1, row <- v2, recent <- v3, created <- v4, settled <- v5, given <- v6, call <- v7,
        verdict <- v8

\* What payments are to the outside: the row's payment, and what the processor and
\* the callers of createPayment have seen.
PO == INSTANCE PaymentOnce WITH
        Candidates <- 1..MaxPayments,
        chosen <- {v2.pay} \ {0}, carriedOut <- v5, told <- v6

RT == INSTANCE RefreshTokens WITH
        row <- v1, store <- v2, lapsed <- v3, call <- v4, reported <- v5, late <- v6, unseen <- v7

RS == INSTANCE RetryScheduler WITH
        row <- v1, call <- v2, deaths <- v3, requeues <- v4, leaked <- v5

PC == INSTANCE PauseControl WITH
        row <- v1, call <- v2, clean <- v3, held <- v4

OT == INSTANCE OwnershipTransfer WITH
        status <- v1, due <- v2, call <- v3, settled <- v4

TL == INSTANCE TradeLock WITH
        lock <- v1, waiters <- v2, req <- v3, cache <- v4, trades <- v5, expired <- v6, crowded <- v7

ED == INSTANCE EventDeadLetters WITH
        entries <- v1, registered <- v2, call <- v3, nextId <- v4, failing <- v5, handled <- v6, excused <- v7

WD == INSTANCE WebhookDelivery WITH
        Workers <- Calls,
        event <- v1, delivery <- v2, dead <- v3, jobs <- v4, worker <- v5, overtaken <- v6, disturbed <- v7

RL == INSTANCE RateLimiter WITH
        strategy <- v1, now <- v2, redis <- v3, memory <- v4, health <- v5, admitted <- v6, forgotten <- v7

BJ == INSTANCE BackfillJob WITH
        row <- v1, file <- v2, worker <- v3, mine <- v4, lost <- v5

RE == INSTANCE Reconciliation WITH
        created <- v1, paid <- v2, tx <- v3, cursor <- v4, call <- v5, manuals <- v6, credits <- v7,
        stored <- v8

ER == INSTANCE EventReplay WITH
        Replicas <- Calls,
        log <- v1, checkpoint <- v2, active <- v3, previous <- v4, rebuild <- v5, skipped <- v6

\* The deployments considered are among those for which payments make promises.
ASSUME DeploymentAssumption == \A s \in Setups : PR!Supported(s)

-----------------------------------------------------------------------------
NoFive == v5 = 0 /\ v6 = 0 /\ v7 = 0 /\ v8 = 0
NoSix == v6 = 0 /\ v7 = 0 /\ v8 = 0

OtherInit ==
    \/ service = "payments" /\ PR!Init
    \/ service = "refreshTokens" /\ RT!Init /\ v8 = 0
    \/ service = "retryScheduler" /\ RS!Init /\ NoSix
    \/ service = "pauseControl" /\ PC!Init /\ NoFive
    \/ service = "ownershipTransfer" /\ OT!Init /\ NoFive
    \/ service = "tradeLock" /\ TL!Init /\ v8 = 0
    \/ service = "eventDeadLetters" /\ ED!Init /\ v8 = 0
    \/ service = "webhookDelivery" /\ WD!Init /\ v8 = 0
    \/ service = "rateLimiter" /\ RL!Init /\ v8 = 0
    \/ service = "backfillJob" /\ BJ!Init /\ NoSix
    \/ service = "reconciliation" /\ RE!Init
    \/ service = "eventReplay" /\ ER!Init /\ v7 = 0 /\ v8 = 0

ServicesInit ==
    /\ Init
    /\ \/ service = "approvalIntents" /\ v1 = 0 /\ v2 = 0 /\ v3 = 0 /\ v4 = 0 /\ NoFive
       \/ OtherInit

OtherNext ==
    /\ UNCHANGED <<service, vars>>
    /\ \/ service = "payments" /\ PR!Next
       \/ service = "refreshTokens" /\ RT!Next /\ UNCHANGED v8
       \/ service = "retryScheduler" /\ RS!Next /\ UNCHANGED <<v6, v7, v8>>
       \/ service = "pauseControl" /\ PC!Next /\ UNCHANGED <<v5, v6, v7, v8>>
       \/ service = "ownershipTransfer" /\ OT!Next /\ UNCHANGED <<v5, v6, v7, v8>>
       \/ service = "tradeLock" /\ TL!Next /\ UNCHANGED v8
       \/ service = "eventDeadLetters" /\ ED!Next /\ UNCHANGED v8
       \/ service = "webhookDelivery" /\ WD!Next /\ UNCHANGED v8
       \/ service = "rateLimiter" /\ RL!Next /\ UNCHANGED v8
       \/ service = "backfillJob" /\ BJ!Next /\ UNCHANGED <<v6, v7, v8>>
       \/ service = "reconciliation" /\ RE!Next
       \/ service = "eventReplay" /\ ER!Next /\ UNCHANGED <<v7, v8>>

ServicesNext ==
    \/ service = "approvalIntents" /\ Next /\ UNCHANGED <<service, others>>
    \/ OtherNext

ServicesSpec == ServicesInit /\ [][ServicesNext]_ServicesVars

-----------------------------------------------------------------------------
\* submitTransaction: one idempotency key pays at most once.
PaidOnce == service = "payments" => PR!PaidOnce

\* createPayment, signTransaction, submitTransaction implement PaymentOnce: through
\* saves of entities that were read earlier, lost answers, crashes and takeovers the
\* row's payment is never replaced, and only it is given out and carried out, once.
ImplementsPaymentOnce ==
    /\ service = "payments" => PO!Init
    /\ [][service = "payments" => PO!Next \/ UNCHANGED PO!vars]_ServicesVars

\* signTransaction, submitTransaction: the row's status is true of the processor:
\* SUBMITTED stands beside the answer it gave, and what it received is not taken for
\* unsent.
RowIsTrue == service = "payments" => PR!SubmittedIsAnswered /\ PR!ReceivedIsRemembered

\* createPayment: racing creators receive one and the same payment.
OneResponse == service = "payments" => PR!OneResponse

\* rotate, revokeFamily: only tokens a revocation could not see outlive it.
SurvivorsWereUnseen == service = "refreshTokens" => RT!SurvivorsWereUnseen

\* retryDeadLetter: one re-queueing per dead letter, and only of retryable ones.
RequeueIsEarned == service = "retryScheduler" => RS!RequeueIsEarned

\* activatePause: an acknowledged pause holds until a resume or an expiry.
AcknowledgedPauseHolds == service = "pauseControl" => PC!AcknowledgedPauseHolds

\* acceptTransfer, cancelTransfer, rejectTransfer: an undisturbed decision stands.
QuietDecisionStands == service = "ownershipTransfer" => OT!QuietDecisionStands

\* executeTrade: one trade of a user at a time unless two waiters woke together.
ExclusiveUnlessCrowded == service = "tradeLock" => TL!ExclusiveUnlessCrowded

\* dispatch, replay, discard, trim: a failed event stays in the store.
FailureIsKept == service = "eventDeadLetters" => ED!FailureIsKept

\* processDelivery, publishEvent: the event's counts are those of its deliveries.
CountsAreExact == service = "webhookDelivery" => WD!CountsAreExact

\* consume: each store admits no more than the policy, whatever the others do.
EachStoreHolds == service = "rateLimiter" => RL!EachStoreHolds

\* run, rollback: what the job wrote can be undone from the stored checkpoint.
AppliedIsUndoable == service = "backfillJob" => BJ!AppliedIsUndoable

\* ingestTransaction: repeated deliveries of a payment credit it once.
DuplicatesCreditOnce == service = "reconciliation" => RE!DuplicatesCreditOnce

\* pollHorizon: the cursor never passes a payment of a transaction without a row.
CursorNeverSkips == service = "reconciliation" => RE!CursorNeverSkips

\* rebuild: what is published has every event once, through crashes and resumption.
PublishedIsExact == service = "eventReplay" => ER!PublishedIsExact
=============================================================================
