# Trellis-API: TLA+ models, checks and proofs

Trellis-API is a NestJS service for on-chain oracles, payments and DeFi. Several
API instances run against one PostgreSQL database, a set of Redis nodes, payment
processors and blockchain RPC providers. Most of its hard behaviour has one
shape: a handler loads a row, awaits something slow, and saves what it holds,
while other handlers, on this or another instance, do the same. This directory
holds TLA+ modules of the parts where that matters, TLC configurations that check
them on small instances, and TLAPS proofs for every size.

The repository is large (about 150 000 lines), and most of it is not of that kind:
controllers, DTOs, modules and entities, policy tables and reports, and numerical
services that compute from one request's input. The models cover the protocols
between actors, which are few lines among many.

Paths below are relative to the repository's `src/` directory.

## 1. Inventory

### Components that are modelled

| Component | Code | State | Operations | Module |
|---|---|---|---|---|
| Bounded work queue | `common/backpressure/bounded-work-queue.ts` | `running`, `waiting`, `idleWaiters`, retry counter per task | `submit`, `idle`, `start`/`pump`, `runWithRetry` | `BoundedWorkQueue` |
| Nonce management | `blockchain/oracle/services/nonce-management.service.ts` | one `submission_nonces` row per address, a nonce cache per instance | `getAndIncrementNonce`, `getCurrentNonce`, `setNonce`, `resetNonce`, `cleanupOldNonces`, `clearStaleCache` | `OracleNonce` |
| Payload submission | `blockchain/oracle/services/{oracle,submitter}.service.ts` | one `signed_payloads` row, background monitors | `createPayload`, `signPayload`, `cleanupExpiredPayloads`, `submitPayload`, `retrySubmission`, `monitorTransaction` | `OracleSubmission` |
| Idempotency | `common/idempotency` | one `idempotency_records` row per (scope, key) | `execute`, `resolveExisting`, `purgeExpired` | `Idempotency` |
| Payment operations | `payments/payments.service.ts` | one `payment_operations` row per (owner, processor, key) | `createPayment`, `signTransaction`, `submitTransaction`, `signAndSubmit`, `resumePayment` | `PaymentRecovery`, implementing `PaymentOnce` |
| Distributed lock | `infrastructure/distributed-lock` | a key on every Redis node, a `Lock` per caller | `acquire`, `extend`, `release`, the `@DistributedLock` wrapper | `Redlock`, implementing `LeaseMutex` |
| Approval intents | `infrastructure/audit/approval-intents` | one row per intent, an evidence log that may fail | `propose`, `cancel`, `expireIntent`, `expireDueIntents`, `execute` | `ApprovalIntents` |
| Refresh tokens | `core/auth/refresh-token-rotation.service.ts` | a row per token of a family, a revocation store | `rotate`, `revokeFamily`, `revokeToken` | `RefreshTokens` |
| Retry scheduler | `infrastructure/retry-scheduler` | one row per operation | `getDueOperations`, the marks, `moveToDeadLetter`, `retryDeadLetter(s)` | `RetryScheduler` |
| Pause control | `infrastructure/pause-control`, `applyWithEvidence` of `infrastructure/audit/admin-config` | pause rows of a scope | `activatePause`, `resumePause`, automatic expiry, rollback without evidence | `PauseControl` |
| Ownership transfer | `core/ownership/ownership-transfer.service.ts` | one row per transfer | `initiateTransfer`, `acceptTransfer`, `cancelTransfer`, `rejectTransfer`, expiry on read | `OwnershipTransfer` |
| Event dead letters | `common/events/dead-letter` | a bounded in-memory store, the handler registry | `dispatch`, `replay`, `replayAll`, `discard`, `trim` | `EventDeadLetters` |
| Webhook delivery | `infrastructure/webhooks/services` | event, delivery and dead-letter rows, a job queue | `publishEvent`, `processDelivery`, `retryDeadLetter` | `WebhookDelivery` |
| Trade lock | `defi/trade-lock.service.ts` | a promise per user, an idempotency cache | `executeTrade` | `TradeLock` |
| Rate limiter | `rate-limiting/rate-limiter.service.ts` | a Redis key, an in-memory fallback and a health flag per instance | `consume`, `reset` | `RateLimiter` |
| Backfill jobs | `common/backfill`, `notifications/backfill` | records, a checkpoint file with a journal | run, resume, dry run, `rollback`, `--restart` | `BackfillJob` |
| Reconciliation | `reconciliation/reconciliation.service.ts` | invoices, transaction rows, a polling cursor | `ingestTransaction`, `pollHorizon`, `createInvoice`, `manualReconcile` | `Reconciliation` |
| Event replay | `common/events/replay/event-replay.ts` | checkpoint, published and previous projection | `rebuild`, `rollback` | `EventReplay` |

How they interact. A write request passes the global rate limiter and the global
idempotency interceptor, which calls `execute` around the controller; the
controllers call the services above. A payload receives its nonce from
`NonceManagementService`, is then signed and given to `SubmitterService`, which
broadcasts it and starts a monitor in the background. The distributed lock wraps
methods by decorator; pause control and approval intents call the audit log,
which here is a call that may fail. The work queue is a library class used in one
process. The components share no variables: they meet through rows and calls,
so each is modelled by itself, with its neighbours as inputs.

What is hard, and what makes each correct:

* **Work queue.** Continuations of settling tasks, submissions and `idle()`
  callers interleave. It must respect its limits, never strand a waiting task or
  an `idle()` caller, and serve in arrival order.
* **Nonces.** Concurrent first use (there is no row to lock), crashes inside the
  transaction, administrators who overwrite, a cleanup that deletes, and a cache
  per instance. No nonce may be handed out twice and none skipped.
* **Submission.** Unlocked read-await-save everywhere, a broadcast whose answer
  may be lost, and monitors that outlive the request. What a row says about the
  chain must be true, and a payload should be broadcast once.
* **Idempotency.** Claims race, expire while the handler runs, and are removed by
  others; the database may fail before or after applying a statement. A handler
  must run at most once under fresh claims and replays must be genuine.
* **Payments.** Claiming, asking the processor, and recovering after a lost answer,
  a failed save or a crash. The processor must carry out one payment, once, and the row must
  not say more of it than the processor answered.
* **Distributed lock.** Commands that are lost, late, repeated or reordered,
  drifting clocks, extensions of locks that have expired. At most one valid lock.
* **Approval intents.** Withdrawals, expiry and executions race by conditional
  updates, while `propose` retracts by a plain save when its evidence fails late. One
  run per intent, none after a withdrawal, and a receipt that only that save can erase.
* **Refresh tokens.** A family revocation lists, then revokes, while rotations add
  tokens. Nothing the revocation could see may survive it.
* **Retry scheduler, webhooks, event dead letters.** Work that is taken without a
  claim, reported late, buried and re-queued. A burial earns one re-queueing; counts
  are those of the rows; a failure is kept or somebody decided otherwise.
* **Pause control, ownership transfer.** Read-check-save on the row another
  administrator is changing, and rollbacks of changes without evidence. What was
  acknowledged holds.
* **Trade lock.** Waiters on one promise wake in one turn of the event loop. One trade
  at a time, one per key.
* **Rate limiter.** Two stores, an outage between them, clocks that disagree and keys
  that expire. Each store admits what the policy allows.
* **Backfill, event replay.** Checkpoints, crashes between two saves, resumption, at
  least once delivery. What was written can be undone; what is published has every event
  once.
* **Reconciliation.** Deliveries of one transaction by webhook, by overlapping polls and
  after restarts. It is credited once, and the cursor passes no payment whose transaction
  is not stored.

### Components that are not modelled

`PROJECT.json` lists all of them with the reason. In short:

* *Nothing to model yet.* Oracle batch submission is a placeholder that sends nothing
  and makes up a transaction hash (`submission-batch.service.ts:190`); the client
  operation queue is provided and called by no module; the quota budgets do not compile
  as they stand.
* *Candidates.* Repair jobs (a backfill without journal or rollback), sign-in challenges and
  session recovery, the circuit breaker, the concurrency helpers, background workers,
  payment webhooks and the dashboard's socket bookkeeping. They are small, and repeat
  shapes that are modelled.
* *No state that several actors change.* Guards, pipes, formatting, policy evaluation,
  transition tables, feature flags, reports, health and drills; single-row reads and writes
  (users, invitations, API keys, billing).
* *Numerical.* Portfolio, backtesting, yield and risk: floating-point, out of TLC's reach.
* *External.* TypeORM, PostgreSQL, Bull queues, Redis, chains: modelled only through how
  the code uses them.

## 2. Modelling conventions

* **Steps.** JavaScript runs to completion between two awaits, so one action is
  one stretch between awaits. The name of the place where a call is suspended is
  its `pc`.
* **Saves.** `repository.save(entity)` writes back the entity read earlier. The
  modules carry it in the call's local state and write all of it, so lost updates
  are possible wherever the code allows them. Conditional `UPDATE`s, unique
  indexes and `SELECT ... FOR UPDATE` are the database's own atomic steps.
* **One key at a time.** Rows of different addresses, payloads, keys, scopes, users and
  operations never touch each other, so a module follows one of each.
* **External parts** (PostgreSQL, Redis, processors, the chain, the process that
  may die) are modelled from how the code uses them, and marked so in the map.
* **Disturbances** (lost answers, database faults, crashes, delays) are actions
  guarded by the constant `Enabled` or by the rigid variable `env`, so that a
  configuration states exactly what may go wrong.
* **History variables** record what the program does not. Some count effects (`ran`,
  `issued`, `created`, `settled`, `credits`, `stored`, `admitted`, `trades`, `requeues`). Others mark
  the race after which the code promises nothing, so that a property states precisely
  what is left and everything outside the race is still checked: `overwritten`
  (nonces), `filed` (approval receipts), `late`/`unseen` (tokens), `leaked` (retries), `clean`/`held` (pauses),
  `crowded` (trades), `excused` (dead letters), `overtaken`/`disturbed` (webhooks),
  `forgotten` (rate limits), `lost` (backfill), `skipped` (replay), `trouble` (which kinds
  of fault a key's requests have met), `calm` (submission: no two calls overlapped and
  nothing failed). Each such race is described under section 5.
* A definition whose comment begins with `mutant:` is a plausible mistake in the
  definition that follows it. None is part of a specification; each shows that
  some property would notice the mistake.
* **Bounds** of the models, not of the code: `MaxNonce`, `MaxIssued`, `MaxTx`,
  `MaxPayments`, `MaxTime`, `MaxSent`, `MaxTokens`, `MaxDeaths`, `MaxRows`,
  `MaxTransfers`, `MaxTrades`, `MaxExpiries`, `MaxIds`, `MaxDeliveries`, `MaxAdmitted`,
  `MaxManuals`, `Transactions`, `Listed`, `Size`, `Length`, and the sizes of the sets of calls, workers,
  intents and monitors. All other constants are parameters of the code.

## 3. Modules and the code

**BoundedWorkQueue.** `SubmitStart` and `SubmitWait` are the two accepting paths of
`submit`; rejections change nothing and have no action. `Settle` is the `finally`
block of `start` with the whole of `pump` inside it, since no await separates
them. `phase` is where a task's promise stands. Statistics are left out: control
flow never reads them.

**OracleNonce.** `IncRead`/`IncCommit` are the locked transaction of
`getAndIncrementNonce`; `IncReadMissing`/`IncInsert` its first use, where nothing
is locked and the unique index decides; `IncFails` a rollback. `GetFetch`,
`GetCreate` and `GetFill` are `getCurrentNonce` with the cache fill after the
await. `SetFetch`/`SetSave` are `setNonce`, an unlocked read and a save.
`Restart` kills an instance.

**OracleSubmission.** A worker is one call of either service. `SubmitBegin`,
`Broadcast`, `Record` and `CatchError` are the retry loop of `submitPayload`; the
save of SUBMITTED is inside its `try`, so `RecordFails` goes round the loop again.
`Monitor*` is `monitorTransaction`, started without being awaited. `WorkerFault` and
`MonitorFault` are the steps that something outside makes fail. They end `calm`, and so do a
call that begins while another one is under way, and `retrySubmission`.

**Idempotency.** `Find*` is the lookup with `resolveExisting`, `Remove` the delete
by id, `Insert*` the claim, `Save*` the two saves. Faults come in both forms: the
statement was applied, or it was not. `trouble` collects the kinds of fault that have
happened, so that a property can say "as long as the database answers" in a run where
later it does not.

**PaymentRecovery, PaymentOnce.** `Create*`, `Sign*` and `Submit*`/`Status*`/`Claim`/`Send*` follow
the three methods of the service; `signAndSubmit` and `resumePayment` call them in
sequence and add no state. The fingerprint check turns requests away before
anything happens. `SaveColumns` writes every column as the entity has it. The processor may
give any answer to a submission (`Send`): FAILED, CONFIRMED, or one that decides nothing
(PENDING, PROCESSING and SUBMITTED, together `"open"`), after which it decides by itself
(`DecideOpen`). The service saves SUBMITTED with whatever it was told, and so does `StatusFinal` for
every status but PENDING; `verdict` is what the processor has really made of the payment. The
processor is one that carries out what was submitted. A hosted gateway such as
Grantfox, which works from its own `createPayment` on and only reports its status when asked to
submit, is outside the module. `PaymentOnce` is
what the outside relies on: one payment is chosen for good, and only it is made known to
callers and carried out, once. `Services` maps the row's payment, the processor's count and
the answers of `createPayment` to its three variables.

**Redlock, LeaseMutex.** `SendToAll` is the start of `onAllNodes`; `Deliver*` are
the three Redis commands on a node. A command once sent stays deliverable, which
covers delay, reordering and duplication; an answer may always be lost, and a
caller may stop waiting at any time (`nodeTimeoutMs`). A key's life on its node is any
value between `TTL - Drift` and `TTL`: the assumption on clocks that `drift()`
encodes. `Valid` is `Lock.isValid`. `LeaseMutex` is what callers rely on: one owner at
a time, and no handover without a moment in which nobody owns the lock.

**ApprovalIntents.** All intents have one commitment, so each is a twin of the others.
`Propose`, `ProposeSave` and `ProposeEvidenced` are `propose` up to its evidence;
`EvidenceFails` and `Retract` its `catch`, a save of CANCELLED that looks at nothing. The entity
is the one that was inserted, in which TypeORM has set the columns without a value to null, so the save
also puts null over a receipt that was stored meanwhile. `filed` remembers that there was one.
`CancelRead`, `ExpireRead` and `ExecuteFindsExpired` lead to `Withdraw`, the conditional
UPDATE, or `WithdrawLost`. `Claim` is the UPDATE of `execute`, `RunOperation` the caller's
operation and `Finish` the save of its receipt.

**RefreshTokens.** `Find` and `CheckStore` are the lookup and the test of the revocation
store; `SaveReplacement`, `Retire` and `StoreRetired` the three writes of a rotation;
`ListFamily`/`RevokeListed` (and `ListOne` for one token) the revocations, in the order
of the code: rows first, then the store.

**RetryScheduler.** A worker's attempt is `GetDue`, `MarkInProgress*`, `OutcomeRead` and
`MarkSucceeded` or `MarkFailed`, each a read and a later save of the whole row;
`MoveToDeadLetter` follows in the same call. `Requeue` is the one conditional UPDATE.

**PauseControl.** `Activate`, `ApplyRead`, `Update` or `Insert` and `Acknowledge` are
`activatePause` inside `applyWithEvidence`; `EvidenceFails`, `RevertRead` and `Restore` or
`Lift` its rollback, which restores the row if there was one before and lifts the pause
otherwise. `Resume*`, `Unresume` and `Expire*` are the same for the other changes.

**OwnershipTransfer.** `Accept`, `AcceptExpired` and `Decline` read and check, `Decide`
saves; `Refresh` and `SaveExpired` are the expiry inside `getTransfer` and
`listTransfers`, which save one row after the other.

**EventDeadLetters.** A call is suspended only while the handler runs; what it then does
to the in-memory store is one turn of the event loop, `trim` included. `Matching` and
`Found` are the lookup by event that keeps a second failure from adding a second entry.

**WebhookDelivery.** `CreateDelivery`, `Enqueue` and `ClosePublish` are `publishEvent`, whose
last save writes the entity of its beginning. A worker goes through `TakeJob`,
`SaveDelivering`, `Post`, one of `SaveSuccess`, `SaveFailed`, `SaveDead`, and the counts;
`Stall` hands a job out again, as the queue does with a worker that seems dead.

**TradeLock.** `Finish` is the turn in which a timer fires: the result is cached, the
promise resolved, and every waiter runs up to its next timer (`WakeToTrade`).

**RateLimiter.** `Script` is either Lua script with its EXPIRE, evaluated at once by Redis
with the caller's clock; `ConsumeMemory` the fallback; `AnswerLost` a script that ran
although the call fell back. `Delete*` are the ways `reset` ends, a deletion whose answer
was lost included. `StartPing`/`PingEnds` are the health check, shared by
requests of both kinds. Tokens are kept in units of which the refill of a second is a whole
number, so no fraction is rounded away. The sorted set of the window is a set of scores,
each with a number that stands for the request id. `admitted` has, for every store, the times
at which it admitted a request since it was last reset; what a script admitted counts even if
its answer was lost.

**BackfillJob.** `Scan` reads a page, `Record` and `Journal` decide and put a batch into
the journal of the checkpoint, saved before `Apply`; `EndBatch` moves the cursor. The
record is written only if it still has the value read (`ApplyConflict`); `Edit` is the
application. `Restore` and `SaveShortened` are the rollback, record by record; a restore that
fails may have been carried out (`RestoreThrows`).

**Reconciliation.** `FindNew`, `Insert` (or `InsertRefused` by the unique index), `Match`,
`Credit`, `Audit` and `Close` are `ingestTransaction`, with one save per step.
Horizon lists records; `Hash` gives the transaction of each one that is a payment, and
several may belong to one transaction. A row is a transaction's, as the code looks rows up by
`transaction_hash`, and `stored` has the records whose amounts were inserted. `PollHorizon`
and `PageArrives` fetch a page; `ReadOn` is the loop over it, which moves the cursor after each
payment and past the records of other types. `CreateInvoice`/`Register`/`List` and
`ManualReconcile` run the second half over stored transactions (`Retry`), in any order, since
`observedAt` may be given by the caller. Amounts are units: an invoice takes two.

**EventReplay.** A rebuild starts from the checkpoint or from nothing, takes the next event
or an earlier one again (`Apply`, `Ignore`, `Poison*`, `Regression`), saves every
`CheckpointEvery` events, swaps and clears. It may stop reading before the end of the log, as a
source that is behind or the `limit` option makes it. A state is the sequence of events applied.

## 4. Runs

| Run | Instance | Shows | Distinct states |
|---|---|---|---|
| `MCBoundedWorkQueue` | 6 tasks, 3 actors (one without permission), 2 slots, 2 waiting places, 1 per actor, 2 attempts | limits, work conservation, wakers for `idle()`, no overtaking; every accepted task settles | 1 399 |
| `MCOracleNonce` | 2 instances, 3 calls, 2 increments, administrators who set 0 or 2 | nonces are 0, 1, ... once each until an administrator overwrites; no lost update under the lock; caches lag, never lead; the row never goes down | 2 395 250 |
| `MCOracleSubmission` | 2 workers with every disturbance, either 2 monitors or a retry inside the loop; and 1 worker without disturbance, with fairness | CONFIRMED implies an executed transaction, SUBMITTED names a broadcast one; until calls overlap or something fails, one broadcast and CONFIRMED is final; sequentially SUBMITTED resolves | 448 549 |
| `MCOracleSubmissionTwice` | 2 workers, no disturbance | *violation* of `BroadcastOnce` | |
| `MCIdempotency` | 3 requests, one with another payload, with faults and crashes; 4 without; expiry at any time, purge | fresh claims are exclusive, replays genuine; as long as the database answers, one write per fresh claim and stored successes stay; until anything fails, no abandoned claim | 3 289 588 |
| `MCIdempotencyRerun` | 3 requests, database faults | *violation* of `EffectOnce` | |
| `MCRedlock` | 2 callers, 3 nodes, TTL 3, drift 1, 4 ticks, 3 numbered commands | one valid lock, backed by a majority; refinement of `LeaseMutex` | 1 658 158 |
| `MCServices` | 13 instances, below | what each service promises its callers; refinement of `PaymentOnce` | 3 158 884 |
| `MCPaymentRecoverySign` | 2 `signAndSubmit` calls, no disturbance | *violation* of `PaidOnce` | |
| `MCWebhookDeliveryRetry` | 1 subscriber, 1 worker, fairness | *violation* of `FailedIsRetried` | |
| `MCTradeLockTwice` | 3 requests of one user | *violation* of `KeyTradesOnce` | |
| `MCReconciliationRetry` | 1 payment, 1 call at a time | *violation* of `CreditedOnce` | |

`MCServices` asks one question of the services that read, await and write: does any
interleaving of their calls break what they promise? The rigid variable `service`
chooses the instance; they share the run's generic variables, never a step. The module
`Services` composes them, with all sizes as constants, states the properties and is what the
proofs are about; `MCServices` has the values that are not plain numbers. Each service has
its inductive invariant `IInv` at the end of its own module.

| Instance | Size | Property |
|---|---|---|
| approval intents | 2 intents, 2 calls, evidence and database faults, crashes | `IntentRunsOnce`, `WithdrawnNeverRuns`, `TwinsAreConcurrent` |
| payments | 3 calls, 2 payments, 3 deployments | `ImplementsPaymentOnce`, `RowIsTrue`, `OneResponse` |
| refresh tokens | 3 tokens, 2 calls, database faults | `SurvivorsWereUnseen`: after a reported replay, only tokens the revocation could not see are live |
| retry scheduler | 2 calls, 2 attempts, 3 burials | `RequeueIsEarned`: one re-queueing per burial, unforced only if retryable |
| pause control | 2 rows, 2 calls, evidence and database faults | `AcknowledgedPauseHolds` |
| ownership transfer | 2 transfers, 2 calls | `QuietDecisionStands` |
| trade lock | 3 requests, 2 keys, 1 expiry | `ExclusiveUnlessCrowded` |
| event dead letters | 2 events, a store of 2, 4 ids | `FailureIsKept` |
| webhooks | 2 subscribers, 3 deliveries, 2 attempts, 2 workers, faults, stalled jobs | `CountsAreExact` |
| rate limiter | 2 API instances with clocks a second apart, outages, restarts and resets; both strategies; 2 requests in 2 seconds | `EachStoreHolds` |
| backfill | 3 records in pages of 2, 1 retry, every fault | `AppliedIsUndoable` |
| reconciliation | 2 transactions in 4 records (two payments of the first, a record of another type, a payment of the second), 1 invoice, 2 calls, faults and restarts | `DuplicatesCreditOnce`, `CursorNeverSkips` |
| event replay | 3 events, 2 replicas, a checkpoint after every event | `PublishedIsExact` |

The deployments of the payments instance: one caller creates and signs while all
submit, to a processor that must not be called twice; the same with a processor that
recognises repeated payloads and with signatures brought by clients; and three
racing creators without faults. The first two include every disturbance. In the first and the
third only one caller uses `signTransaction`, because two signers and an unsafe
processor do not work (`MCPaymentRecoverySign`).

**Why the bounds are enough.** Each instance is large enough for every step of the
module to happen and for the shortest race of each kind: two concurrent increments
with a third call reading or setting; two submitters with a monitor each; a claim
that is removed, replaced and removed again by a slow remover (three requests of
one payload); an interrupted submission that two others find; a lock
acquired, expired and acquired by another caller while commands of the first are
still under way (`MaxTime` 4 exceeds `TTL` 3); a rotation that saves while a revocation
has listed; a burial that is re-queued and buried again while a first worker still
holds its row; two waiters on one promise; a full store with a replay under way; a batch
that ends inside the records and a page that follows it; a page with a record to pass over and a
second payment of a transaction; an event that the projection
ignores between two it handles, and rebuilds that resume behind each of them. With `MaxTime` 2 the rate limiter sees its whole window pass
and an entry leave it while later ones stay; `MaxAdmitted` 4, over all stores, lets
one of them admit a request more than the limit beside what another admits. The proofs of section 6 remove the bounds on the number of actors for the
properties that have one.

**Symmetry** is used over calls, requests, callers and nodes that no definition tells
apart, and only in runs without liveness properties. In `MCServices` it is over `p1` and
`p2`; `p0` plays a part of its own.

**Deadlock** is checked except where the system may really stop: when the requests of
a key are all answered, when a payload or a service has reached its final state, or when
time, transactions or another bound is used up (`MCOracleSubmission*`, `MCIdempotency*`,
`MCRedlock`, `MCServices`, and the runs of single services).

**Fairness.** `BoundedWorkQueue!LiveSpec` assumes that a running task's promise
settles and that `setTimeout` fires; the class has no timeout of its own, so a task
that never settles would keep its slot, and the assumption is needed. A task may
fail; what it may not do is neither resolve nor fail for good forever, which the
bounded number of attempts excludes. `OracleSubmission!LiveSpec`, and `MCSpec` for its
sequential instance, assume that accepted transactions are mined and that the event
loop resumes a suspended monitor. Nothing is assumed of callers: nobody has to submit,
sign or retry. Monitors run in the process, so liveness is stated without crashes:
after a crash nothing watches a SUBMITTED payload until somebody calls `submitPayload`
again. `WebhookDelivery!LiveSpec` assumes that a publication that has begun is carried
through and that the queue hands out its jobs; under it a failed delivery still stays
FAILED, because no job exists.

## 5. Findings

* **Two concurrent `submitPayload` calls broadcast twice**
  (`MCOracleSubmissionTwice`). The status is checked on an unlocked read and
  nothing is claimed before the broadcast, while the comment promises idempotency.
* **A handler that succeeded runs again** (`MCIdempotencyRerun`). One `try` covers
  the handler and the save of its response: if the save fails, the record becomes
  FAILED and a retry repeats the write, although the handler is said to run at most
  once while a record is fresh.
* **A late save of `signTransaction` undoes a claim** (`MCPaymentRecoverySign`). It
  saves its whole entity as SIGNED; a claim made in between is lost, and a second
  submission wins it again.
* **A failed webhook delivery is never retried** (`MCWebhookDeliveryRetry`). It is saved
  as FAILED with a `nextRetryAt` that nothing reads; the queue makes one attempt per job.
* **Two waiters on one trade lock both trade** (`MCTradeLockTwice`). They wake in one
  turn, and neither looks whether the other has taken the lock or traded the key.
* **`manualReconcile` credits a partial payment again** (`MCReconciliationRetry`). It
  selects PARTIAL payments, whose amount the invoice already contains.

Observations made on the way, not turned into runs of their own. Where a property would fail
for one of them, the model contains it and the property excepts it by the name given in
brackets; the others are states that the models reach and no property is about, or that
the text says are outside the model:

* *Nonces.* `getCurrentNonce` may fill the cache, after its await, with a value older than
  the invalidation that happened meanwhile; it is served until `CACHE_TTL`.
* *Submission.* `retrySubmission` puts a CONFIRMED payload back to PENDING;
  it ends `calm`, and `CalmIsFinal` is stated until then. `submitPayload` on a
  SUBMITTED payload starts a further monitor each time.
* *Payments.* `createPayment` that takes more than a minute is taken over while it runs,
  and two payments are created; `OneResponse` is stated without delays for that reason.
  An operation is saved as SUBMITTED whatever the processor answered, FAILED included, and every
  later submission then returns that answer: a refused payment cannot be tried again under
  its key, and one that was left pending is never asked about (`SubmittedIsAnswered` therefore
  speaks of the saved answer, not of the state).
* *Idempotency.* A request with another payload is answered 409 by an expired record too.
* *Lock.* `Lock.extend` with a shorter TTL than before can leave nodes with different
  expiries; the model uses one TTL, as the wrapper does. A failed extension is only
  logged: the body goes on after its lock has expired. The lock's promise is about
  `isValid`, not about the body.
* *Approval intents.* The retraction of a proposal whose evidence fails late erases the receipt of an
  operation that has run meanwhile and leaves its row CANCELLED (`filed`). Two identical
  proposals that overlap are both stored (`before`). A crash between the claim and `finish` leaves EXECUTING for good. Expiry is
  tested before the claim only.
* *Refresh tokens.* A rotation that has looked its token up and saves the replacement after a
  reuse was detected and the family listed leaves a live token in a revoked family
  (`late`, `unseen`).
* *Retry scheduler.* A failure reported late by an earlier attempt reopens an operation
  that has succeeded. A crash leaves IN_PROGRESS, which `getDueOperations` does not
  select. An unforced re-queueing checks a row read earlier; if the operation was
  re-queued and failed for good in between, the refused kind of failure is let through (`leaked`).
* *Webhooks.* The last save of `publishEvent` writes zero over counts made meanwhile (`overtaken`). A crash
  leaves DELIVERING. `retryDeadLetter` creates a delivery without a job, and two calls
  create two.
* *Event dead letters.* A failed event whose entry was replayed gets a second entry. A store
  full of pending entries evicts the oldest (`excused`).
* *Pause control.* The rollback of a first activation may lift a pause that another
  administrator was told is active (`clean`). A change that fails after its save is not
  rolled back. Two activations may insert two rows, of which a resume clears one.
* *Ownership transfer.* `acceptTransfer` tests expiry before the status, so an attempt after
  the expiry rewrites ACCEPTED to EXPIRED. Two initiations may leave two open transfers.
* *Rate limiter.* The denying branch of the bucket script lets the key expire after
  `ceil((cost - tokens + 1) / rate)` seconds, possibly before the bucket is full, and a missing
  key counts as full (`rate-limiter.service.ts:52`; `forgotten`). `enableFallback` (`RATE_LIMIT_FALLBACK_TO_MEMORY`)
  is stored and never looked at. In an outage limits add up over the instances.
* *Backfill.* An apply that was carried out and reported as failed is taken for a
  conflict by its retry, and its journal entry is dropped (`lost`); `docs/BACKFILL.md` says an
  applied row always has rollback data. The lock against a second run is per process.
* *Reconciliation.* Two payments credited at once lose one update of `paidAmount`.
  `createInvoice` that overlaps an ingestion credits a payment twice. When the save that
  closes an ingestion fails, a credited payment stays UNMATCHED. Of several payments in one
  transaction the first is stored and the others are ignored as its duplicates, and the cursor passes them
  (`SiblingStored`); records that are not of type `payment`, such as path payments, are passed
  unstored (`NoPayment`). Only the oldest invoice of a
  destination is ever considered, so a payment meant for a later one stays UNMATCHED.
* *Event replay.* An event that was skipped and checkpointed is not reconsidered by a resumed
  rebuild that would halt on it (`skipped`).

## 6. Proofs

Checked by TLAPS, for all values of the constants that satisfy the named
assumptions.

| Module | Theorems | Assumption |
|---|---|---|
| `BoundedWorkQueue_proofs` | `QueueIsSafe`, `AlwaysWorkConserving`, `WaitersAreWoken`, `NeverOvertakes` | `QueueOptions`: the constructor's checks, finitely many tasks |
| `OracleNonce_proofs` | `TypeCorrect`, `NoncesAreUnique`, `CachesLagBehind`, `LockedReadsAreCurrent`, `RowIsMonotonic` | `NonceAssumption` |
| `OracleSubmission_proofs` | `Typing`, `ConfirmationsAreReal`, `SubmissionsAreTraceable`, `CalmPayloadsGoOnce`, `CalmVerdictsAreFinal` | `SubmissionAssumption` |
| `Idempotency_proofs` | `ClaimsAreExclusive`, `WritesAreAppliedOnce`, `ReplaysAreGenuine`, `ClaimsAreOwned`, `SuccessesAreKept` | `IdempotencyAssumption` |
| `Redlock_proofs` | `MutualExclusion`, `ValidLocksAreBacked`, `Refinement` | `RedlockAssumption`: finitely many nodes, drift at most the TTL |
| `ApprovalIntents_proofs` | `TypeCorrect`, `IntentsRunOnce`, `WithdrawalsHold`, `TwinsOverlapped` | none |
| `PaymentServices_proofs` | `PaymentsCreditOnce`, `CursorsNeverSkip` (reconciliation); `PaymentsRefine`, `OperationsPayOnce`, `RowsAreTrue`, `CreatorsAgree` (payments) | `ServicesAssumption`: sizes are numbers; `DeploymentAssumption`: the deployments are `Supported` |
| `PlatformServices_proofs` | `FamiliesDie`, `RequeuesAreEarned`, `DecisionsStand`, `PausesHold`, `PublishedStaysExact`, `AppliedStaysUndoable`, `FailuresStayKept`, `TradesAreExclusive`, `CountsStayExact`, `StoresHold` | `ServicesAssumption`; for `StoresHold` `LimiterAssumption`: limit, window and burst are positive, and every clock is ahead of Redis' by a number between two bounds |

Each proof has an inductive invariant, with `Init => IInv`, one lemma or case per action,
and a temporal conclusion. It is stated in the module of the proofs or, for the services,
in the module of the service. Type invariants of these modules are part of it, and so
proved rather than run. The theorems about services are about `ServicesSpec`: a step of
another service leaves the variables of this one alone, or `service` names another.

* **Queue.** `IInv` is the conjunction of the type invariant, the limits, the exact
  backlog, work conservation and the wakers; they are inductive together. Work
  conservation needs the exact backlog, and the wakers of `idle()` need work conservation.
* **Nonces.** `Locked` (the row lock belongs to exactly the call whose transaction is
  open, and that call's copy is current) always holds. `Counted` (the row's nonce is
  the number of nonces issued, an unlocked copy is not ahead of it, and a row once
  used is never at 0 and so never cleaned up) holds until an administrator overwrites.
  Uniqueness follows: the next nonce equals the length of the history.
* **Submission.** The saved row is some call's snapshot, so the invariant says of every
  snapshot, in a worker or a monitor, what it says of the row. Facts about the
  chain are stable, so a stale snapshot stays true of it.
  While `calm`, at most one call is under way, beside any number of monitors (`OneAtATime`); a
  call that will broadcast holds a row no transaction was sent for, and every monitor
  watches the one transaction and saves what became of it (`CalmState`). Then no call
  broadcasts a second time, and nothing that is saved after CONFIRMED differs from it.
* **Idempotency.** A running request whose claim is fresh owns the row (`OwnsRow`), and
  what a remover is about to delete by id is expired or finished for good
  (`RemovesReleased`). Exclusion follows as there is one row; it survives faults because
  a slow remover can only name an id that no running fresh claim has.
  Until something fails, a record in progress has exactly the request that inserted it at
  work (`ClaimHasOwner` is inductive with the rest while `trouble` is empty). What
  holds only while the database answers (`EffectOwnsRow`, part of `Released`) is an implication
  from `trouble`, so the same invariant holds before and after the first fault.
* **Redlock.** Each vote a caller has counted is a node that stores its token until at
  least the caller's computed expiry (`VotesKept`), and a held lock has a majority of
  such nodes (`LocksKept`); no release for a token in use has been sent
  (`NotReleased`). Two valid locks would need two majorities with different tokens,
  and majorities intersect. The refinement maps `owner` to the caller with a valid lock; a
  step that grants a lock finds no other valid one, by the same argument.
* **Approval intents.** A claim and a withdrawal are UPDATEs that take only a proposed
  intent, so at most one call works on an intent (`OneWorker`), one that is withdrawn
  was never claimed (`NeverClaimed`), and a run is still to be counted or is counted
  once (`Progress`). The difficulty is the retraction, which overwrites whatever
  status and receipt there are: the invariant therefore speaks of the worker and of `filed`, which
  a retraction cannot undo, and says that while a run is under way or to come nothing is
  filed (`NothingFiled`). For twins, `TwinsDecided` says that an
  intent which existed when another was looked for has left "proposed", which is stable.

* **Reconciliation.** The unique index lets one ingestion of a transaction past its insert, so
  at most one is before its credit (`OneIngestion`). For the cursor, the transactions of all payments
  before the record that a poll is at, or will fetch, have rows (`PagesFollow`); the loop finds its
  record's row or inserts it before it goes on, up to the next payment. A row was inserted for one of its
  transaction's payments (`RowsAreStored`), so what the cursor has passed is stored, no payment or
  a sibling of what is stored.
* **Payments.** While the row has no payment one call at most makes one (`OneMaking`), so a
  second creator finds the row of the first. From then on every entity in a call's hands
  names the row's payment (`OnePayment`), and where the service signs, the row has its one
  signature before anything is submitted and does not go back to SIGNED (`SignedOnce`):
  this needs one signer, and is what `MCPaymentRecoverySign` breaks. A claim is a conditional
  UPDATE, so one call is about to send at a time and it sends what was not carried out
  (`SentOnce`). The processor's decisions are final, so an answer saved late is still true of it
  (`AnswersAreTrue`). `Supported` states the deployments; no weaker condition was found to hold.
  The refinement to `PaymentOnce` follows step by step (`StepIsVisible`): a save writes the payment of
  an entity that was read earlier, which is the row's if the row has one, so the chosen
  payment stays; a call to the processor that changes anything is the first (`CarriesOutOnce`).
  It says more than `OperationsPayOnce`: that the row is never pointed to another payment, and
  that nothing is given out or carried out before it is stored.
* **Refresh tokens.** Tokens never come back to life, so what a call has listed still contains all
  that is live of what it knew (`ListedIsComplete`); after the revocation whatever is live, or
  about to be saved, was not seen (`RestIsUnseen`).
* **Retry scheduler.** Stale rows are saved over the current one, but none of them as a dead
  letter: a row that is one is the latest burial, and has not been re-queued (`LatestDeath`).
* **Ownership transfer.** A call at work on a settled transfer can only be expiring it
  (`SettledIsClosed`).
* **Pause control.** While a clean activation is being recorded, and once it was acknowledged, a
  pause is active and no call can make it inactive (`NobodyLifts`); an activation that finds
  it restores it when it rolls back.
* **Event replay.** The state of a rebuild in memory is as exact as the stored ones
  (`RebuildIsExact`): every event up to its sequence, in order, once, but those skipped.
* **Backfill.** The stored journal is not enough, as it is overwritten by the copies in memory: all
  copies have what the job wrote, and before a record is written they all have it
  (`AllHold`). A page is read before it is applied, so it must not show a record as unwritten
  that has been written since (`PageIsFresh`).
* **Event dead letters.** Ids are unique, and the entry with the id of a replay under way, if there
  still is one, is about the replay's event (`ReplaysAgree`). `trim` removes one position, the oldest
  settled entry if there is one, so it takes a pending entry only from a store that has no other.
* **Trade lock.** While no promise woke two waiters, who trades holds the lock and only the holder is
  waited for (`OneHolder`); results account for all trades but the one in progress.
* **Webhooks.** While nothing was disturbed or overtaken, a delivery has one job or one handler
  (`OneHandler`), and the counts are those of the rows whose handler has counted (`Tally`).
* **Rate limiter.** The promise is about every interval of the history, the state knows only what is
  left of it. For the window (`Logged`), each admission that may still count is in the log under
  its own number, with a score that is not too early by the slowest clock; so if the m-th
  to the last all count, the log has as many entries, and the script, which finds fewer than the
  limit, may add one. For the bucket (`Accounted`), what was spent since an admission together with
  what is left does not exceed the capacity and the refill since; a refill by any clock
  keeps this, as a clock that was ahead leaves a later time stamp behind. Both must
  survive the expiry of the key: a window is kept until its latest admission no longer
  counts (`KeptLongEnough`), and a bucket that is dropped is full by the slowest clock, or the
  step sets `forgotten`. One lemma each shows that refreshing, deciding and expiring keep a
  store's part, and every action leaves a store as it was, empties it or decides (`StoresInv`).

Only model-checked:

* Liveness, `AcceptedTaskSettles` and `SequentialResolves`: fairness is outside the prover's reach.
* The violations, which are counterexamples.

Not covered by the models: Redis nodes that lose keys on restart (the lock's
documentation leaves persistence to operations), more than one extension in flight
for one lock, refunds and quotes of `PaymentsService` (they keep no state), signature
verification and hashing, amounts other than one unit in `Reconciliation`, request costs
other than one in `RateLimiter`, and time beyond expired / not expired except in
`Redlock` and `RateLimiter`.

## 7. Plan

Every invariant and action property that a run checks is proved. Left, in this order:

1. `RepairJob`, sign-in challenges and session recovery.
2. A composition of `OracleNonce` and `OracleSubmission`: a payload's nonce is used by one
   transaction.
3. Action properties of the services: a stored checkpoint's cursor, a settled intent or a
   buried operation never goes back except by the named operation.
4. An abstract specification of the idempotency interceptor, in the manner of `PaymentOnce`.
