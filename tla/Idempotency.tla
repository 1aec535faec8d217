----------------------------- MODULE Idempotency -----------------------------
(***************************************************************************)
(* common/idempotency: IdempotencyService.execute and purgeExpired, as the *)
(* global IdempotencyInterceptor calls them.                               *)
(*                                                                         *)
(* Keys are independent of each other, so the model follows one            *)
(* (scope, Idempotency-Key) pair: Requests are all the requests that carry *)
(* it, on any API instance, and the table holds at most one row for it     *)
(* (unique index).  A step is what happens between two awaits.  A request  *)
(* inserts at most one claim, so its name is also its row's id; the row's  *)
(* requestHash is the one of the request that inserted it.                 *)
(***************************************************************************)
EXTENDS Naturals

CONSTANTS
    Requests,  \* the requests that carry the key
    HashOf,    \* requestHash: what each request asks for
    None,      \* no request
    Enabled    \* which of Disturbances may happen

Disturbances == {"dbFault", "crash"}

ASSUME IdempotencyAssumption ==
    /\ None \notin Requests
    /\ Enabled \subseteq Disturbances

VARIABLES
    row,      \* the idempotency_records row: id and status
    expired,  \* claims whose expiresAt has passed
    pc,       \* per request: where execute is suspended
    pass,     \* per request: the claim loop's attempt
    seen,     \* per request: the row it is about to remove
    effects,  \* requests whose handler ran to its end: the write happened
    reply,    \* per request: what the client got, and from whose handler
    trouble   \* history: the Disturbances that have happened

vars == <<row, expired, pc, pass, seen, effects, reply, trouble>>

NoRow == [id |-> None, status |-> "absent"]
Claim(r, s) == [id |-> r, status |-> s]
Reply(k, r) == [kind |-> k, from |-> r]
Running == {"handler", "completing", "failing"}

Init ==
    /\ row = NoRow
    /\ expired = {}
    /\ pc = [r \in Requests |-> "find"]
    /\ pass = [r \in Requests |-> 0]
    /\ seen = [r \in Requests |-> None]
    /\ effects = {}
    /\ reply = [r \in Requests |-> Reply("none", None)]
    /\ trouble = {}

Exists == row # NoRow
Goto(r, p) == pc' = [pc EXCEPT ![r] = p]
Answer(r, k, from) == Goto(r, "done") /\ reply' = [reply EXCEPT ![r] = Reply(k, from)]

-----------------------------------------------------------------------------
\* The lookup of the claim loop and resolveExisting, up to its next await.
FindNothing(r) ==
    /\ pc[r] = "find" /\ ~Exists
    /\ Goto(r, "insert")
    /\ UNCHANGED <<row, expired, pass, seen, effects, reply>>

\* Another payload, whatever the row's age, or the same one still in progress: 409.
FindConflict(r) ==
    /\ pc[r] = "find" /\ Exists
    /\ \/ HashOf[row.id] # HashOf[r]
       \/ row.id \notin expired /\ row.status = "IN_PROGRESS"
    /\ Answer(r, "conflict", None)
    /\ UNCHANGED <<row, expired, pass, seen, effects>>

FindCompletedAnyPayload(r) ==  \* mutant: the stored hash is not compared
    /\ pc[r] = "find" /\ Exists
    /\ row.id \notin expired /\ row.status = "COMPLETED"
    /\ Answer(r, "replayed", row.id)
    /\ UNCHANGED <<row, expired, pass, seen, effects>>

FindCompleted(r) ==
    /\ pc[r] = "find" /\ Exists
    /\ HashOf[row.id] = HashOf[r]
    /\ row.id \notin expired /\ row.status = "COMPLETED"
    /\ Answer(r, "replayed", row.id)
    /\ UNCHANGED <<row, expired, pass, seen, effects>>

\* An expired or a failed record is to be removed.
FindRemovableInProgress(r) ==  \* mutant: an unfinished record counts as failed
    /\ pc[r] = "find" /\ Exists
    /\ HashOf[row.id] = HashOf[r]
    /\ row.id \in expired \/ row.status # "COMPLETED"
    /\ seen' = [seen EXCEPT ![r] = row.id]
    /\ Goto(r, "remove")
    /\ UNCHANGED <<row, expired, pass, effects, reply>>

FindRemovable(r) ==
    /\ pc[r] = "find" /\ Exists
    /\ HashOf[row.id] = HashOf[r]
    /\ row.id \in expired \/ row.status = "FAILED"
    /\ seen' = [seen EXCEPT ![r] = row.id]
    /\ Goto(r, "remove")
    /\ UNCHANGED <<row, expired, pass, effects, reply>>

\* repo.remove deletes by id: a row that took its place in between stays.
RemoveByKey(r) ==  \* mutant: the row is deleted by its key
    /\ pc[r] = "remove"
    /\ row' = NoRow
    /\ Goto(r, "insert")
    /\ UNCHANGED <<expired, pass, seen, effects, reply>>

Remove(r) ==
    /\ pc[r] = "remove"
    /\ row' = IF row.id = seen[r] THEN NoRow ELSE row
    /\ Goto(r, "insert")
    /\ UNCHANGED <<expired, pass, seen, effects, reply>>

\* The claim: an INSERT that the unique index lets through only once.
InsertClaimUpsert(r) ==  \* mutant: the claim is upserted
    /\ pc[r] = "insert"
    /\ row' = Claim(r, "IN_PROGRESS")
    /\ Goto(r, "handler")
    /\ UNCHANGED <<expired, pass, seen, effects, reply>>

InsertClaim(r) ==
    /\ pc[r] = "insert" /\ ~Exists
    /\ row' = Claim(r, "IN_PROGRESS")
    /\ Goto(r, "handler")
    /\ UNCHANGED <<expired, pass, seen, effects, reply>>

\* Lost the insert race: one more pass, then 409.
InsertLosesRace(r) ==
    /\ pc[r] = "insert" /\ Exists
    /\ IF pass[r] < 1 THEN Goto(r, "find") /\ pass' = [pass EXCEPT ![r] = @ + 1] /\ UNCHANGED reply
                      ELSE Answer(r, "conflict", None) /\ UNCHANGED pass
    /\ UNCHANGED <<row, expired, seen, effects>>

-----------------------------------------------------------------------------
\* The protected handler either finishes, its write applied, or throws.
HandlerReturns(r) ==
    /\ pc[r] = "handler"
    /\ effects' = effects \union {r}
    /\ Goto(r, "completing")
    /\ UNCHANGED <<row, expired, pass, seen, reply>>

HandlerThrows(r) ==
    /\ pc[r] = "handler"
    /\ Goto(r, "failing")
    /\ UNCHANGED <<row, expired, pass, seen, effects, reply>>

\* repo.save(record): an UPDATE of r's row, or a new INSERT when that row is
\* gone, which the unique index refuses if another claim took its place.
CanSave(r) == row.id \in {r, None}

SaveCompletedWithoutStatus(r) ==  \* mutant: the response is returned but not stored
    /\ pc[r] = "completing" /\ CanSave(r)
    /\ Answer(r, "fresh", r)
    /\ UNCHANGED <<row, expired, pass, seen, effects>>

SaveCompleted(r) ==
    /\ pc[r] = "completing" /\ CanSave(r)
    /\ row' = Claim(r, "COMPLETED")
    /\ Answer(r, "fresh", r)
    /\ UNCHANGED <<expired, pass, seen, effects>>

\* A throw of that save lands in the catch block of the handler.
SaveCompletedRefused(r) ==
    /\ pc[r] = "completing" /\ ~CanSave(r)
    /\ Goto(r, "failing")
    /\ UNCHANGED <<row, expired, pass, seen, effects, reply>>

SaveFailed(r) ==
    /\ pc[r] = "failing"
    /\ row' = IF CanSave(r) THEN Claim(r, "FAILED") ELSE row
    /\ Answer(r, "error", None)
    /\ UNCHANGED <<expired, pass, seen, effects>>

-----------------------------------------------------------------------------
\* purgeExpired.
PurgeExpired ==
    /\ row.id \in expired
    /\ row' = NoRow
    /\ UNCHANGED <<expired, pc, pass, seen, effects, reply>>

\* External: a query throws, before or after the database applied it.
FindOrRemoveFails(r) ==
    /\ "dbFault" \in Enabled /\ pc[r] \in {"find", "remove"}
    /\ Answer(r, "error", None)
    /\ row' = row \/ (pc[r] = "remove" /\ row.id = seen[r] /\ row' = NoRow)
    /\ UNCHANGED <<expired, pass, seen, effects>>

InsertFails(r) ==
    /\ "dbFault" \in Enabled /\ pc[r] = "insert"
    /\ Answer(r, "error", None)
    /\ row' = row \/ (~Exists /\ row' = Claim(r, "IN_PROGRESS"))
    /\ UNCHANGED <<expired, pass, seen, effects>>

SaveCompletedFails(r) ==
    /\ "dbFault" \in Enabled /\ pc[r] = "completing"
    /\ Goto(r, "failing")
    /\ row' = row \/ (CanSave(r) /\ row' = Claim(r, "COMPLETED"))
    /\ UNCHANGED <<expired, pass, seen, effects, reply>>

SaveFailedFails(r) ==
    /\ "dbFault" \in Enabled /\ pc[r] = "failing"
    /\ Answer(r, "error", None)
    /\ row' = row \/ (CanSave(r) /\ row' = Claim(r, "FAILED"))
    /\ UNCHANGED <<expired, pass, seen, effects>>

\* External: the instance that runs r dies; r's time to live passes.
Crash(r) ==
    /\ "crash" \in Enabled /\ pc[r] # "done"
    /\ Goto(r, "done")
    /\ UNCHANGED <<row, expired, pass, seen, effects, reply>>

ClaimExpires(r) ==
    /\ row.id = r \/ pc[r] \in Running
    /\ expired' = expired \union {r}
    /\ UNCHANGED <<row, pc, pass, seen, effects, reply>>

Step(r) ==
    \/ FindNothing(r) \/ FindConflict(r) \/ FindCompleted(r) \/ FindRemovable(r)
    \/ Remove(r) \/ InsertClaim(r) \/ InsertLosesRace(r)
    \/ HandlerReturns(r) \/ HandlerThrows(r)
    \/ SaveCompleted(r) \/ SaveCompletedRefused(r) \/ SaveFailed(r)

DbFault(r) == FindOrRemoveFails(r) \/ InsertFails(r) \/ SaveCompletedFails(r) \/ SaveFailedFails(r)

Next ==
    \/ UNCHANGED trouble /\ (PurgeExpired \/ \E r \in Requests : Step(r) \/ ClaimExpires(r))
    \/ trouble' = trouble \union {"dbFault"} /\ \E r \in Requests : DbFault(r)
    \/ trouble' = trouble \union {"crash"} /\ \E r \in Requests : Crash(r)

Spec == Init /\ [][Next]_vars

-----------------------------------------------------------------------------
\* The shape of every variable; the claim loop of execute makes two passes.
TypeOK ==
    /\ row \in [id : Requests \union {None}, status : {"absent", "IN_PROGRESS", "COMPLETED", "FAILED"}]
    /\ row.id = None <=> row.status = "absent"
    /\ expired \subseteq Requests
    /\ pc \in [Requests -> {"find", "remove", "insert", "done"} \union Running]
    /\ pass \in [Requests -> 0..1]
    /\ seen \in [Requests -> Requests \union {None}]
    /\ effects \subseteq Requests
    /\ trouble \subseteq Enabled
    /\ reply \in [Requests -> [kind : {"none", "conflict", "replayed", "fresh", "error"},
                               from : Requests \union {None}]]

\* "concurrent duplicates are rejected with 409 instead of double-executing":
\* two requests whose claims are fresh are never both inside the handler or
\* storing its outcome, through database faults and crashes too.
ClaimIsExclusive ==
    \A a, b \in Requests \ expired : pc[a] \in Running /\ pc[b] \in Running => a = b

\* "the handler runs at most once while a record is fresh": of two requests
\* whose write was applied, one had outlived its claim.  A fault of the
\* database breaks it: the finished write is then recorded as FAILED.
EffectOnce == \A a, b \in effects : a # b => a \in expired \/ b \in expired

\* ... it holds for as long as the database answers, crashes or not.
EffectOnceWhileAnswered == "dbFault" \notin trouble => EffectOnce

\* A replayed response is the outcome of a handler that really ran to its end,
\* for the same payload.
ReplayIsGenuine ==
    \A r \in Requests : reply[r].kind = "replayed" =>
        reply[r].from \in effects /\ HashOf[reply[r].from] = HashOf[r]

\* "failures are not cached": until an instance crashes or the database fails, a
\* fresh record in progress has a request that will settle it, so nobody is
\* answered 409 by an abandoned claim.
ClaimHasOwner ==
    trouble = {} /\ row.status = "IN_PROGRESS" /\ row.id \notin expired => pc[row.id] \in Running

\* "successes are replayed from storage for ttlSeconds": for as long as the database
\* answers, and in its first fault too, a fresh completed record is neither changed
\* nor removed.
CompletedIsKept ==
    [][/\ "dbFault" \notin trouble
       /\ row.status = "COMPLETED" /\ row.id \notin expired
       => row' = row]_vars
=============================================================================
