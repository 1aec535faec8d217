-------------------------- MODULE Idempotency_proofs --------------------------
(***************************************************************************)
(* For every set of requests: fresh claims are exclusive whatever fails    *)
(* (ClaimIsExclusive), and while the database answers, a write is applied  *)
(* once per fresh claim (EffectOnceWhileAnswered) and stays recorded.      *)
(*                                                                         *)
(* The argument is about ownership.  A request that is past its claim and  *)
(* still fresh owns the row.  A row may be taken away from its owner only  *)
(* by a request that saw it expired or FAILED, and FAILED is written by an *)
(* owner that stops there and, if its saves are answered, has applied      *)
(* nothing; both facts still hold when the removal is carried out later.   *)
(***************************************************************************)
EXTENDS Idempotency, TLAPS

\* r has given up its claim: it is over and, faults apart, left no effect.
Released(r) == pc[r] = "done" /\ ("dbFault" \in trouble \/ r \notin effects)

\* A fresh request past its claim owns the row.
OwnsRow ==
    \A r \in Requests \ expired : pc[r] \in Running => row.id = r /\ row.status # "FAILED"

\* Faults apart, a fresh request whose write was applied owns the row.
EffectOwnsRow ==
    "dbFault" \notin trouble =>
        \A r \in effects \ expired : row.id = r /\ row.status # "FAILED" /\ pc[r] # "failing"

\* A request that has not claimed has no effect.
EffectAfterClaim == \A r \in effects : pc[r] \in {"completing", "failing", "done"}

\* A fresh FAILED row was given up by its owner.
FailedIsReleased == row.status = "FAILED" /\ row.id \notin expired => Released(row.id)

\* What a request is about to remove is expired or given up.
RemovesReleased ==
    \A r \in Requests : pc[r] = "remove" =>
        seen[r] \in Requests /\ (seen[r] \in expired \/ Released(seen[r]))

\* A handler that returned, and a COMPLETED row, stand for an applied write.
CompletedHasEffect ==
    /\ \A r \in Requests : pc[r] = "completing" => r \in effects
    /\ row.status = "COMPLETED" => row.id \in effects

IInv ==
    /\ TypeOK
    /\ OwnsRow
    /\ EffectOwnsRow
    /\ EffectAfterClaim
    /\ FailedIsReleased
    /\ RemovesReleased
    /\ CompletedHasEffect
    /\ ReplayIsGenuine
    /\ ClaimHasOwner

-----------------------------------------------------------------------------
\* FindNothing keeps the ownership of the row.
LEMMA FindNothingKeeps ==
    ASSUME IInv, NEW r \in Requests, FindNothing(r), UNCHANGED trouble
    PROVE  IInv'
<1> USE IdempotencyAssumption DEF FindNothing, Goto, Exists
<1>0. TypeOK /\ OwnsRow /\ EffectOwnsRow /\ EffectAfterClaim /\ FailedIsReleased /\ RemovesReleased /\ CompletedHasEffect /\ ReplayIsGenuine /\ ClaimHasOwner
  BY DEF IInv
<1>1. TypeOK'
  BY <1>0 DEF TypeOK, Running, Claim, NoRow, Reply
<1>2. OwnsRow'
  BY <1>0 DEF TypeOK, OwnsRow, RemovesReleased, Released, Running, Claim, NoRow
<1>3. EffectOwnsRow'
  BY <1>0 DEF TypeOK, OwnsRow, EffectOwnsRow, EffectAfterClaim, RemovesReleased, Released, Running, Claim, NoRow
<1>4. EffectAfterClaim'
  BY <1>0 DEF TypeOK, EffectAfterClaim
<1>5. FailedIsReleased'
  BY <1>0 DEF TypeOK, OwnsRow, EffectOwnsRow, EffectAfterClaim, FailedIsReleased, Released, Running, Claim, NoRow
<1>6. RemovesReleased'
  BY <1>0 DEF TypeOK, EffectAfterClaim, FailedIsReleased, RemovesReleased, Released, Running, NoRow
<1>7. CompletedHasEffect'
  BY <1>0 DEF TypeOK, CompletedHasEffect, Running, Claim, NoRow
<1>8. ReplayIsGenuine'
  BY <1>0 DEF TypeOK, CompletedHasEffect, ReplayIsGenuine, Reply
<1>9. ClaimHasOwner'
  BY <1>0 DEF TypeOK, ClaimHasOwner, Running, Claim, NoRow
<1> QED
  BY <1>1, <1>2, <1>3, <1>4, <1>5, <1>6, <1>7, <1>8, <1>9 DEF IInv

\* FindConflict keeps the ownership of the row.
LEMMA FindConflictKeeps ==
    ASSUME IInv, NEW r \in Requests, FindConflict(r), UNCHANGED trouble
    PROVE  IInv'
<1> USE IdempotencyAssumption DEF FindConflict, Answer, Goto, Reply, Exists
<1>0. TypeOK /\ OwnsRow /\ EffectOwnsRow /\ EffectAfterClaim /\ FailedIsReleased /\ RemovesReleased /\ CompletedHasEffect /\ ReplayIsGenuine /\ ClaimHasOwner
  BY DEF IInv
<1>1. TypeOK'
  BY <1>0 DEF TypeOK, Running, Claim, NoRow, Reply
<1>2. OwnsRow'
  BY <1>0 DEF TypeOK, OwnsRow, RemovesReleased, Released, Running, Claim, NoRow
<1>3. EffectOwnsRow'
  BY <1>0 DEF TypeOK, OwnsRow, EffectOwnsRow, EffectAfterClaim, RemovesReleased, Released, Running, Claim, NoRow
<1>4. EffectAfterClaim'
  BY <1>0 DEF TypeOK, EffectAfterClaim
<1>5. FailedIsReleased'
  BY <1>0 DEF TypeOK, OwnsRow, EffectOwnsRow, EffectAfterClaim, FailedIsReleased, Released, Running, Claim, NoRow
<1>6. RemovesReleased'
  BY <1>0 DEF TypeOK, EffectAfterClaim, FailedIsReleased, RemovesReleased, Released, Running, NoRow
<1>7. CompletedHasEffect'
  BY <1>0 DEF TypeOK, CompletedHasEffect, Running, Claim, NoRow
<1>8. ReplayIsGenuine'
  BY <1>0 DEF TypeOK, CompletedHasEffect, ReplayIsGenuine, Reply
<1>9. ClaimHasOwner'
  BY <1>0 DEF TypeOK, ClaimHasOwner, Running, Claim, NoRow
<1> QED
  BY <1>1, <1>2, <1>3, <1>4, <1>5, <1>6, <1>7, <1>8, <1>9 DEF IInv

\* FindCompleted keeps the ownership of the row.
LEMMA FindCompletedKeeps ==
    ASSUME IInv, NEW r \in Requests, FindCompleted(r), UNCHANGED trouble
    PROVE  IInv'
<1> USE IdempotencyAssumption DEF FindCompleted, Answer, Goto, Reply, Exists
<1>0. TypeOK /\ OwnsRow /\ EffectOwnsRow /\ EffectAfterClaim /\ FailedIsReleased /\ RemovesReleased /\ CompletedHasEffect /\ ReplayIsGenuine /\ ClaimHasOwner
  BY DEF IInv
<1>1. TypeOK'
  BY <1>0 DEF TypeOK, Running, Claim, NoRow, Reply
<1>2. OwnsRow'
  BY <1>0 DEF TypeOK, OwnsRow, RemovesReleased, Released, Running, Claim, NoRow
<1>3. EffectOwnsRow'
  BY <1>0 DEF TypeOK, OwnsRow, EffectOwnsRow, EffectAfterClaim, RemovesReleased, Released, Running, Claim, NoRow
<1>4. EffectAfterClaim'
  BY <1>0 DEF TypeOK, EffectAfterClaim
<1>5. FailedIsReleased'
  BY <1>0 DEF TypeOK, OwnsRow, EffectOwnsRow, EffectAfterClaim, FailedIsReleased, Released, Running, Claim, NoRow
<1>6. RemovesReleased'
  BY <1>0 DEF TypeOK, EffectAfterClaim, FailedIsReleased, RemovesReleased, Released, Running, NoRow
<1>7. CompletedHasEffect'
  BY <1>0 DEF TypeOK, CompletedHasEffect, Running, Claim, NoRow
<1>8. ReplayIsGenuine'
  BY <1>0 DEF TypeOK, CompletedHasEffect, ReplayIsGenuine, Reply
<1>9. ClaimHasOwner'
  BY <1>0 DEF TypeOK, ClaimHasOwner, Running, Claim, NoRow
<1> QED
  BY <1>1, <1>2, <1>3, <1>4, <1>5, <1>6, <1>7, <1>8, <1>9 DEF IInv

\* FindRemovable keeps the ownership of the row.
LEMMA FindRemovableKeeps ==
    ASSUME IInv, NEW r \in Requests, FindRemovable(r), UNCHANGED trouble
    PROVE  IInv'
<1> USE IdempotencyAssumption DEF FindRemovable, Goto, Exists
<1>0. TypeOK /\ OwnsRow /\ EffectOwnsRow /\ EffectAfterClaim /\ FailedIsReleased /\ RemovesReleased /\ CompletedHasEffect /\ ReplayIsGenuine /\ ClaimHasOwner
  BY DEF IInv
<1>1. TypeOK'
  BY <1>0 DEF TypeOK, Running, Claim, NoRow, Reply
<1>2. OwnsRow'
  BY <1>0 DEF TypeOK, OwnsRow, RemovesReleased, Released, Running, Claim, NoRow
<1>3. EffectOwnsRow'
  BY <1>0 DEF TypeOK, OwnsRow, EffectOwnsRow, EffectAfterClaim, RemovesReleased, Released, Running, Claim, NoRow
<1>4. EffectAfterClaim'
  BY <1>0 DEF TypeOK, EffectAfterClaim
<1>5. FailedIsReleased'
  BY <1>0 DEF TypeOK, OwnsRow, EffectOwnsRow, EffectAfterClaim, FailedIsReleased, Released, Running, Claim, NoRow
<1>6. RemovesReleased'
  BY <1>0 DEF TypeOK, EffectAfterClaim, FailedIsReleased, RemovesReleased, Released, Running, NoRow
<1>7. CompletedHasEffect'
  BY <1>0 DEF TypeOK, CompletedHasEffect, Running, Claim, NoRow
<1>8. ReplayIsGenuine'
  BY <1>0 DEF TypeOK, CompletedHasEffect, ReplayIsGenuine, Reply
<1>9. ClaimHasOwner'
  BY <1>0 DEF TypeOK, ClaimHasOwner, Running, Claim, NoRow
<1> QED
  BY <1>1, <1>2, <1>3, <1>4, <1>5, <1>6, <1>7, <1>8, <1>9 DEF IInv

\* Remove keeps the ownership of the row.
LEMMA RemoveKeeps ==
    ASSUME IInv, NEW r \in Requests, Remove(r), UNCHANGED trouble
    PROVE  IInv'
<1> USE IdempotencyAssumption DEF Remove, Goto
<1>0. TypeOK /\ OwnsRow /\ EffectOwnsRow /\ EffectAfterClaim /\ FailedIsReleased /\ RemovesReleased /\ CompletedHasEffect /\ ReplayIsGenuine /\ ClaimHasOwner
  BY DEF IInv
<1>1. TypeOK'
  BY <1>0 DEF TypeOK, Running, Claim, NoRow, Reply
<1>2. OwnsRow'
  BY <1>0 DEF TypeOK, OwnsRow, RemovesReleased, Released, Running, Claim, NoRow
<1>3. EffectOwnsRow'
  BY <1>0 DEF TypeOK, OwnsRow, EffectOwnsRow, EffectAfterClaim, RemovesReleased, Released, Running, Claim, NoRow
<1>4. EffectAfterClaim'
  BY <1>0 DEF TypeOK, EffectAfterClaim
<1>5. FailedIsReleased'
  BY <1>0 DEF TypeOK, OwnsRow, EffectOwnsRow, EffectAfterClaim, FailedIsReleased, Released, Running, Claim, NoRow
<1>6. RemovesReleased'
  BY <1>0 DEF TypeOK, EffectAfterClaim, FailedIsReleased, RemovesReleased, Released, Running, NoRow
<1>7. CompletedHasEffect'
  BY <1>0 DEF TypeOK, CompletedHasEffect, Running, Claim, NoRow
<1>8. ReplayIsGenuine'
  BY <1>0 DEF TypeOK, CompletedHasEffect, ReplayIsGenuine, Reply
<1>9. ClaimHasOwner'
  BY <1>0 DEF TypeOK, ClaimHasOwner, Running, Claim, NoRow
<1> QED
  BY <1>1, <1>2, <1>3, <1>4, <1>5, <1>6, <1>7, <1>8, <1>9 DEF IInv

\* InsertClaim keeps the ownership of the row.
LEMMA InsertClaimKeeps ==
    ASSUME IInv, NEW r \in Requests, InsertClaim(r), UNCHANGED trouble
    PROVE  IInv'
<1> USE IdempotencyAssumption DEF InsertClaim, Goto, Exists
<1>0. TypeOK /\ OwnsRow /\ EffectOwnsRow /\ EffectAfterClaim /\ FailedIsReleased /\ RemovesReleased /\ CompletedHasEffect /\ ReplayIsGenuine /\ ClaimHasOwner
  BY DEF IInv
<1>1. TypeOK'
  BY <1>0 DEF TypeOK, Running, Claim, NoRow, Reply
<1>2. OwnsRow'
  BY <1>0 DEF TypeOK, OwnsRow, RemovesReleased, Released, Running, Claim, NoRow
<1>3. EffectOwnsRow'
  BY <1>0 DEF TypeOK, OwnsRow, EffectOwnsRow, EffectAfterClaim, RemovesReleased, Released, Running, Claim, NoRow
<1>4. EffectAfterClaim'
  BY <1>0 DEF TypeOK, EffectAfterClaim
<1>5. FailedIsReleased'
  BY <1>0 DEF TypeOK, OwnsRow, EffectOwnsRow, EffectAfterClaim, FailedIsReleased, Released, Running, Claim, NoRow
<1>6. RemovesReleased'
  BY <1>0 DEF TypeOK, EffectAfterClaim, FailedIsReleased, RemovesReleased, Released, Running, NoRow
<1>7. CompletedHasEffect'
  BY <1>0 DEF TypeOK, CompletedHasEffect, Running, Claim, NoRow
<1>8. ReplayIsGenuine'
  BY <1>0 DEF TypeOK, CompletedHasEffect, ReplayIsGenuine, Reply
<1>9. ClaimHasOwner'
  BY <1>0 DEF TypeOK, ClaimHasOwner, Running, Claim, NoRow
<1> QED
  BY <1>1, <1>2, <1>3, <1>4, <1>5, <1>6, <1>7, <1>8, <1>9 DEF IInv

\* InsertLosesRace keeps the ownership of the row.
LEMMA InsertLosesRaceKeeps ==
    ASSUME IInv, NEW r \in Requests, InsertLosesRace(r), UNCHANGED trouble
    PROVE  IInv'
<1> USE IdempotencyAssumption DEF InsertLosesRace, Goto, Answer, Reply, Exists
<1>0. TypeOK /\ OwnsRow /\ EffectOwnsRow /\ EffectAfterClaim /\ FailedIsReleased /\ RemovesReleased /\ CompletedHasEffect /\ ReplayIsGenuine /\ ClaimHasOwner
  BY DEF IInv
<1>1. TypeOK'
  BY <1>0 DEF TypeOK, Running, Claim, NoRow, Reply
<1>2. OwnsRow'
  BY <1>0 DEF TypeOK, OwnsRow, RemovesReleased, Released, Running, Claim, NoRow
<1>3. EffectOwnsRow'
  BY <1>0 DEF TypeOK, OwnsRow, EffectOwnsRow, EffectAfterClaim, RemovesReleased, Released, Running, Claim, NoRow
<1>4. EffectAfterClaim'
  BY <1>0 DEF TypeOK, EffectAfterClaim
<1>5. FailedIsReleased'
  BY <1>0 DEF TypeOK, OwnsRow, EffectOwnsRow, EffectAfterClaim, FailedIsReleased, Released, Running, Claim, NoRow
<1>6. RemovesReleased'
  BY <1>0 DEF TypeOK, EffectAfterClaim, FailedIsReleased, RemovesReleased, Released, Running, NoRow
<1>7. CompletedHasEffect'
  BY <1>0 DEF TypeOK, CompletedHasEffect, Running, Claim, NoRow
<1>8. ReplayIsGenuine'
  BY <1>0 DEF TypeOK, CompletedHasEffect, ReplayIsGenuine, Reply
<1>9. ClaimHasOwner'
  BY <1>0 DEF TypeOK, ClaimHasOwner, Running, Claim, NoRow
<1> QED
  BY <1>1, <1>2, <1>3, <1>4, <1>5, <1>6, <1>7, <1>8, <1>9 DEF IInv

\* HandlerReturns keeps the ownership of the row.
LEMMA HandlerReturnsKeeps ==
    ASSUME IInv, NEW r \in Requests, HandlerReturns(r), UNCHANGED trouble
    PROVE  IInv'
<1> USE IdempotencyAssumption DEF HandlerReturns, Goto
<1>0. TypeOK /\ OwnsRow /\ EffectOwnsRow /\ EffectAfterClaim /\ FailedIsReleased /\ RemovesReleased /\ CompletedHasEffect /\ ReplayIsGenuine /\ ClaimHasOwner
  BY DEF IInv
<1>1. TypeOK'
  BY <1>0 DEF TypeOK, Running, Claim, NoRow, Reply
<1>2. OwnsRow'
  BY <1>0 DEF TypeOK, OwnsRow, RemovesReleased, Released, Running, Claim, NoRow
<1>3. EffectOwnsRow'
  BY <1>0 DEF TypeOK, OwnsRow, EffectOwnsRow, EffectAfterClaim, RemovesReleased, Released, Running, Claim, NoRow
<1>4. EffectAfterClaim'
  BY <1>0 DEF TypeOK, EffectAfterClaim
<1>5. FailedIsReleased'
  BY <1>0 DEF TypeOK, OwnsRow, EffectOwnsRow, EffectAfterClaim, FailedIsReleased, Released, Running, Claim, NoRow
<1>6. RemovesReleased'
  BY <1>0 DEF TypeOK, EffectAfterClaim, FailedIsReleased, RemovesReleased, Released, Running, NoRow
<1>7. CompletedHasEffect'
  BY <1>0 DEF TypeOK, CompletedHasEffect, Running, Claim, NoRow
<1>8. ReplayIsGenuine'
  BY <1>0 DEF TypeOK, CompletedHasEffect, ReplayIsGenuine, Reply
<1>9. ClaimHasOwner'
  BY <1>0 DEF TypeOK, ClaimHasOwner, Running, Claim, NoRow
<1> QED
  BY <1>1, <1>2, <1>3, <1>4, <1>5, <1>6, <1>7, <1>8, <1>9 DEF IInv

\* HandlerThrows keeps the ownership of the row.
LEMMA HandlerThrowsKeeps ==
    ASSUME IInv, NEW r \in Requests, HandlerThrows(r), UNCHANGED trouble
    PROVE  IInv'
<1> USE IdempotencyAssumption DEF HandlerThrows, Goto
<1>0. TypeOK /\ OwnsRow /\ EffectOwnsRow /\ EffectAfterClaim /\ FailedIsReleased /\ RemovesReleased /\ CompletedHasEffect /\ ReplayIsGenuine /\ ClaimHasOwner
  BY DEF IInv
<1>1. TypeOK'
  BY <1>0 DEF TypeOK, Running, Claim, NoRow, Reply
<1>2. OwnsRow'
  BY <1>0 DEF TypeOK, OwnsRow, RemovesReleased, Released, Running, Claim, NoRow
<1>3. EffectOwnsRow'
  BY <1>0 DEF TypeOK, OwnsRow, EffectOwnsRow, EffectAfterClaim, RemovesReleased, Released, Running, Claim, NoRow
<1>4. EffectAfterClaim'
  BY <1>0 DEF TypeOK, EffectAfterClaim
<1>5. FailedIsReleased'
  BY <1>0 DEF TypeOK, OwnsRow, EffectOwnsRow, EffectAfterClaim, FailedIsReleased, Released, Running, Claim, NoRow
<1>6. RemovesReleased'
  BY <1>0 DEF TypeOK, EffectAfterClaim, FailedIsReleased, RemovesReleased, Released, Running, NoRow
<1>7. CompletedHasEffect'
  BY <1>0 DEF TypeOK, CompletedHasEffect, Running, Claim, NoRow
<1>8. ReplayIsGenuine'
  BY <1>0 DEF TypeOK, CompletedHasEffect, ReplayIsGenuine, Reply
<1>9. ClaimHasOwner'
  BY <1>0 DEF TypeOK, ClaimHasOwner, Running, Claim, NoRow
<1> QED
  BY <1>1, <1>2, <1>3, <1>4, <1>5, <1>6, <1>7, <1>8, <1>9 DEF IInv

\* SaveCompleted keeps the ownership of the row.
LEMMA SaveCompletedKeeps ==
    ASSUME IInv, NEW r \in Requests, SaveCompleted(r), UNCHANGED trouble
    PROVE  IInv'
<1> USE IdempotencyAssumption DEF SaveCompleted, Answer, Goto, Reply, CanSave
<1>0. TypeOK /\ OwnsRow /\ EffectOwnsRow /\ EffectAfterClaim /\ FailedIsReleased /\ RemovesReleased /\ CompletedHasEffect /\ ReplayIsGenuine /\ ClaimHasOwner
  BY DEF IInv
<1>1. TypeOK'
  BY <1>0 DEF TypeOK, Running, Claim, NoRow, Reply
<1>2. OwnsRow'
  BY <1>0 DEF TypeOK, OwnsRow, RemovesReleased, Released, Running, Claim, NoRow
<1>3. EffectOwnsRow'
  BY <1>0 DEF TypeOK, OwnsRow, EffectOwnsRow, EffectAfterClaim, RemovesReleased, Released, Running, Claim, NoRow
<1>4. EffectAfterClaim'
  BY <1>0 DEF TypeOK, EffectAfterClaim
<1>5. FailedIsReleased'
  BY <1>0 DEF TypeOK, OwnsRow, EffectOwnsRow, EffectAfterClaim, FailedIsReleased, Released, Running, Claim, NoRow
<1>6. RemovesReleased'
  BY <1>0 DEF TypeOK, EffectAfterClaim, FailedIsReleased, RemovesReleased, Released, Running, NoRow
<1>7. CompletedHasEffect'
  BY <1>0 DEF TypeOK, CompletedHasEffect, Running, Claim, NoRow
<1>8. ReplayIsGenuine'
  BY <1>0 DEF TypeOK, CompletedHasEffect, ReplayIsGenuine, Reply
<1>9. ClaimHasOwner'
  BY <1>0 DEF TypeOK, ClaimHasOwner, Running, Claim, NoRow
<1> QED
  BY <1>1, <1>2, <1>3, <1>4, <1>5, <1>6, <1>7, <1>8, <1>9 DEF IInv

\* SaveCompletedRefused keeps the ownership of the row.
LEMMA SaveCompletedRefusedKeeps ==
    ASSUME IInv, NEW r \in Requests, SaveCompletedRefused(r), UNCHANGED trouble
    PROVE  IInv'
<1> USE IdempotencyAssumption DEF SaveCompletedRefused, Goto, CanSave
<1>0. TypeOK /\ OwnsRow /\ EffectOwnsRow /\ EffectAfterClaim /\ FailedIsReleased /\ RemovesReleased /\ CompletedHasEffect /\ ReplayIsGenuine /\ ClaimHasOwner
  BY DEF IInv
<1>1. TypeOK'
  BY <1>0 DEF TypeOK, Running, Claim, NoRow, Reply
<1>2. OwnsRow'
  BY <1>0 DEF TypeOK, OwnsRow, RemovesReleased, Released, Running, Claim, NoRow
<1>3. EffectOwnsRow'
  BY <1>0 DEF TypeOK, OwnsRow, EffectOwnsRow, EffectAfterClaim, RemovesReleased, Released, Running, Claim, NoRow
<1>4. EffectAfterClaim'
  BY <1>0 DEF TypeOK, EffectAfterClaim
<1>5. FailedIsReleased'
  BY <1>0 DEF TypeOK, OwnsRow, EffectOwnsRow, EffectAfterClaim, FailedIsReleased, Released, Running, Claim, NoRow
<1>6. RemovesReleased'
  BY <1>0 DEF TypeOK, EffectAfterClaim, FailedIsReleased, RemovesReleased, Released, Running, NoRow
<1>7. CompletedHasEffect'
  BY <1>0 DEF TypeOK, CompletedHasEffect, Running, Claim, NoRow
<1>8. ReplayIsGenuine'
  BY <1>0 DEF TypeOK, CompletedHasEffect, ReplayIsGenuine, Reply
<1>9. ClaimHasOwner'
  BY <1>0 DEF TypeOK, ClaimHasOwner, Running, Claim, NoRow
<1> QED
  BY <1>1, <1>2, <1>3, <1>4, <1>5, <1>6, <1>7, <1>8, <1>9 DEF IInv

\* SaveFailed keeps the ownership of the row.
LEMMA SaveFailedKeeps ==
    ASSUME IInv, NEW r \in Requests, SaveFailed(r), UNCHANGED trouble
    PROVE  IInv'
<1> USE IdempotencyAssumption DEF SaveFailed, Answer, Goto, Reply, CanSave
<1>0. TypeOK /\ OwnsRow /\ EffectOwnsRow /\ EffectAfterClaim /\ FailedIsReleased /\ RemovesReleased /\ CompletedHasEffect /\ ReplayIsGenuine /\ ClaimHasOwner
  BY DEF IInv
<1>1. TypeOK'
  BY <1>0 DEF TypeOK, Running, Claim, NoRow, Reply
<1>2. OwnsRow'
  BY <1>0 DEF TypeOK, OwnsRow, RemovesReleased, Released, Running, Claim, NoRow
<1>3. EffectOwnsRow'
  BY <1>0 DEF TypeOK, OwnsRow, EffectOwnsRow, EffectAfterClaim, RemovesReleased, Released, Running, Claim, NoRow
<1>4. EffectAfterClaim'
  BY <1>0 DEF TypeOK, EffectAfterClaim
<1>5. FailedIsReleased'
  BY <1>0 DEF TypeOK, OwnsRow, EffectOwnsRow, EffectAfterClaim, FailedIsReleased, Released, Running, Claim, NoRow
<1>6. RemovesReleased'
  BY <1>0 DEF TypeOK, EffectAfterClaim, FailedIsReleased, RemovesReleased, Released, Running, NoRow
<1>7. CompletedHasEffect'
  BY <1>0 DEF TypeOK, CompletedHasEffect, Running, Claim, NoRow
<1>8. ReplayIsGenuine'
  BY <1>0 DEF TypeOK, CompletedHasEffect, ReplayIsGenuine, Reply
<1>9. ClaimHasOwner'
  BY <1>0 DEF TypeOK, ClaimHasOwner, Running, Claim, NoRow
<1> QED
  BY <1>1, <1>2, <1>3, <1>4, <1>5, <1>6, <1>7, <1>8, <1>9 DEF IInv

\* FindOrRemoveFails keeps the ownership of the row.
LEMMA FindOrRemoveFailsKeeps ==
    ASSUME IInv, NEW r \in Requests, FindOrRemoveFails(r), trouble' = trouble \union {"dbFault"}
    PROVE  IInv'
<1> USE IdempotencyAssumption DEF FindOrRemoveFails, Answer, Goto, Reply
<1>0. TypeOK /\ OwnsRow /\ EffectOwnsRow /\ EffectAfterClaim /\ FailedIsReleased /\ RemovesReleased /\ CompletedHasEffect /\ ReplayIsGenuine /\ ClaimHasOwner
  BY DEF IInv
<1>1. TypeOK'
  BY <1>0 DEF TypeOK, Running, Claim, NoRow, Reply
<1>2. OwnsRow'
  BY <1>0 DEF TypeOK, OwnsRow, RemovesReleased, Released, Running, Claim, NoRow
<1>3. EffectOwnsRow'
  BY <1>0 DEF TypeOK, OwnsRow, EffectOwnsRow, EffectAfterClaim, RemovesReleased, Released, Running, Claim, NoRow
<1>4. EffectAfterClaim'
  BY <1>0 DEF TypeOK, EffectAfterClaim
<1>5. FailedIsReleased'
  BY <1>0 DEF TypeOK, OwnsRow, EffectOwnsRow, EffectAfterClaim, FailedIsReleased, Released, Running, Claim, NoRow
<1>6. RemovesReleased'
  BY <1>0 DEF TypeOK, EffectAfterClaim, FailedIsReleased, RemovesReleased, Released, Running, NoRow
<1>7. CompletedHasEffect'
  BY <1>0 DEF TypeOK, CompletedHasEffect, Running, Claim, NoRow
<1>8. ReplayIsGenuine'
  BY <1>0 DEF TypeOK, CompletedHasEffect, ReplayIsGenuine, Reply
<1>9. ClaimHasOwner'
  BY <1>0 DEF TypeOK, ClaimHasOwner, Running, Claim, NoRow
<1> QED
  BY <1>1, <1>2, <1>3, <1>4, <1>5, <1>6, <1>7, <1>8, <1>9 DEF IInv

\* InsertFails keeps the ownership of the row.
LEMMA InsertFailsKeeps ==
    ASSUME IInv, NEW r \in Requests, InsertFails(r), trouble' = trouble \union {"dbFault"}
    PROVE  IInv'
<1> USE IdempotencyAssumption DEF InsertFails, Answer, Goto, Reply, Exists
<1>0. TypeOK /\ OwnsRow /\ EffectOwnsRow /\ EffectAfterClaim /\ FailedIsReleased /\ RemovesReleased /\ CompletedHasEffect /\ ReplayIsGenuine /\ ClaimHasOwner
  BY DEF IInv
<1>1. TypeOK'
  BY <1>0 DEF TypeOK, Running, Claim, NoRow, Reply
<1>2. OwnsRow'
  BY <1>0 DEF TypeOK, OwnsRow, RemovesReleased, Released, Running, Claim, NoRow
<1>3. EffectOwnsRow'
  BY <1>0 DEF TypeOK, OwnsRow, EffectOwnsRow, EffectAfterClaim, RemovesReleased, Released, Running, Claim, NoRow
<1>4. EffectAfterClaim'
  BY <1>0 DEF TypeOK, EffectAfterClaim
<1>5. FailedIsReleased'
  BY <1>0 DEF TypeOK, OwnsRow, EffectOwnsRow, EffectAfterClaim, FailedIsReleased, Released, Running, Claim, NoRow
<1>6. RemovesReleased'
  BY <1>0 DEF TypeOK, EffectAfterClaim, FailedIsReleased, RemovesReleased, Released, Running, NoRow
<1>7. CompletedHasEffect'
  BY <1>0 DEF TypeOK, CompletedHasEffect, Running, Claim, NoRow
<1>8. ReplayIsGenuine'
  BY <1>0 DEF TypeOK, CompletedHasEffect, ReplayIsGenuine, Reply
<1>9. ClaimHasOwner'
  BY <1>0 DEF TypeOK, ClaimHasOwner, Running, Claim, NoRow
<1> QED
  BY <1>1, <1>2, <1>3, <1>4, <1>5, <1>6, <1>7, <1>8, <1>9 DEF IInv

\* SaveCompletedFails keeps the ownership of the row.
LEMMA SaveCompletedFailsKeeps ==
    ASSUME IInv, NEW r \in Requests, SaveCompletedFails(r), trouble' = trouble \union {"dbFault"}
    PROVE  IInv'
<1> USE IdempotencyAssumption DEF SaveCompletedFails, Goto, CanSave
<1>0. TypeOK /\ OwnsRow /\ EffectOwnsRow /\ EffectAfterClaim /\ FailedIsReleased /\ RemovesReleased /\ CompletedHasEffect /\ ReplayIsGenuine /\ ClaimHasOwner
  BY DEF IInv
<1>1. TypeOK'
  BY <1>0 DEF TypeOK, Running, Claim, NoRow, Reply
<1>2. OwnsRow'
  BY <1>0 DEF TypeOK, OwnsRow, RemovesReleased, Released, Running, Claim, NoRow
<1>3. EffectOwnsRow'
  BY <1>0 DEF TypeOK, OwnsRow, EffectOwnsRow, EffectAfterClaim, RemovesReleased, Released, Running, Claim, NoRow
<1>4. EffectAfterClaim'
  BY <1>0 DEF TypeOK, EffectAfterClaim
<1>5. FailedIsReleased'
  BY <1>0 DEF TypeOK, OwnsRow, EffectOwnsRow, EffectAfterClaim, FailedIsReleased, Released, Running, Claim, NoRow
<1>6. RemovesReleased'
  BY <1>0 DEF TypeOK, EffectAfterClaim, FailedIsReleased, RemovesReleased, Released, Running, NoRow
<1>7. CompletedHasEffect'
  BY <1>0 DEF TypeOK, CompletedHasEffect, Running, Claim, NoRow
<1>8. ReplayIsGenuine'
  BY <1>0 DEF TypeOK, CompletedHasEffect, ReplayIsGenuine, Reply
<1>9. ClaimHasOwner'
  BY <1>0 DEF TypeOK, ClaimHasOwner, Running, Claim, NoRow
<1> QED
  BY <1>1, <1>2, <1>3, <1>4, <1>5, <1>6, <1>7, <1>8, <1>9 DEF IInv

\* SaveFailedFails keeps the ownership of the row.
LEMMA SaveFailedFailsKeeps ==
    ASSUME IInv, NEW r \in Requests, SaveFailedFails(r), trouble' = trouble \union {"dbFault"}
    PROVE  IInv'
<1> USE IdempotencyAssumption DEF SaveFailedFails, Answer, Goto, Reply, CanSave
<1>0. TypeOK /\ OwnsRow /\ EffectOwnsRow /\ EffectAfterClaim /\ FailedIsReleased /\ RemovesReleased /\ CompletedHasEffect /\ ReplayIsGenuine /\ ClaimHasOwner
  BY DEF IInv
<1>1. TypeOK'
  BY <1>0 DEF TypeOK, Running, Claim, NoRow, Reply
<1>2. OwnsRow'
  BY <1>0 DEF TypeOK, OwnsRow, RemovesReleased, Released, Running, Claim, NoRow
<1>3. EffectOwnsRow'
  BY <1>0 DEF TypeOK, OwnsRow, EffectOwnsRow, EffectAfterClaim, RemovesReleased, Released, Running, Claim, NoRow
<1>4. EffectAfterClaim'
  BY <1>0 DEF TypeOK, EffectAfterClaim
<1>5. FailedIsReleased'
  BY <1>0 DEF TypeOK, OwnsRow, EffectOwnsRow, EffectAfterClaim, FailedIsReleased, Released, Running, Claim, NoRow
<1>6. RemovesReleased'
  BY <1>0 DEF TypeOK, EffectAfterClaim, FailedIsReleased, RemovesReleased, Released, Running, NoRow
<1>7. CompletedHasEffect'
  BY <1>0 DEF TypeOK, CompletedHasEffect, Running, Claim, NoRow
<1>8. ReplayIsGenuine'
  BY <1>0 DEF TypeOK, CompletedHasEffect, ReplayIsGenuine, Reply
<1>9. ClaimHasOwner'
  BY <1>0 DEF TypeOK, ClaimHasOwner, Running, Claim, NoRow
<1> QED
  BY <1>1, <1>2, <1>3, <1>4, <1>5, <1>6, <1>7, <1>8, <1>9 DEF IInv

\* Crash keeps the ownership of the row.
LEMMA CrashKeeps ==
    ASSUME IInv, NEW r \in Requests, Crash(r), trouble' = trouble \union {"crash"}
    PROVE  IInv'
<1> USE IdempotencyAssumption DEF Crash, Goto
<1>0. TypeOK /\ OwnsRow /\ EffectOwnsRow /\ EffectAfterClaim /\ FailedIsReleased /\ RemovesReleased /\ CompletedHasEffect /\ ReplayIsGenuine /\ ClaimHasOwner
  BY DEF IInv
<1>1. TypeOK'
  BY <1>0 DEF TypeOK, Running, Claim, NoRow, Reply
<1>2. OwnsRow'
  BY <1>0 DEF TypeOK, OwnsRow, RemovesReleased, Released, Running, Claim, NoRow
<1>3. EffectOwnsRow'
  BY <1>0 DEF TypeOK, OwnsRow, EffectOwnsRow, EffectAfterClaim, RemovesReleased, Released, Running, Claim, NoRow
<1>4. EffectAfterClaim'
  BY <1>0 DEF TypeOK, EffectAfterClaim
<1>5. FailedIsReleased'
  BY <1>0 DEF TypeOK, OwnsRow, EffectOwnsRow, EffectAfterClaim, FailedIsReleased, Released, Running, Claim, NoRow
<1>6. RemovesReleased'
  BY <1>0 DEF TypeOK, EffectAfterClaim, FailedIsReleased, RemovesReleased, Released, Running, NoRow
<1>7. CompletedHasEffect'
  BY <1>0 DEF TypeOK, CompletedHasEffect, Running, Claim, NoRow
<1>8. ReplayIsGenuine'
  BY <1>0 DEF TypeOK, CompletedHasEffect, ReplayIsGenuine, Reply
<1>9. ClaimHasOwner'
  BY <1>0 DEF TypeOK, ClaimHasOwner, Running, Claim, NoRow
<1> QED
  BY <1>1, <1>2, <1>3, <1>4, <1>5, <1>6, <1>7, <1>8, <1>9 DEF IInv

\* ClaimExpires keeps the ownership of the row.
LEMMA ClaimExpiresKeeps ==
    ASSUME IInv, NEW r \in Requests, ClaimExpires(r), UNCHANGED trouble
    PROVE  IInv'
<1> USE IdempotencyAssumption DEF ClaimExpires
<1>0. TypeOK /\ OwnsRow /\ EffectOwnsRow /\ EffectAfterClaim /\ FailedIsReleased /\ RemovesReleased /\ CompletedHasEffect /\ ReplayIsGenuine /\ ClaimHasOwner
  BY DEF IInv
<1>1. TypeOK'
  BY <1>0 DEF TypeOK, Running, Claim, NoRow, Reply
<1>2. OwnsRow'
  BY <1>0 DEF TypeOK, OwnsRow, RemovesReleased, Released, Running, Claim, NoRow
<1>3. EffectOwnsRow'
  BY <1>0 DEF TypeOK, OwnsRow, EffectOwnsRow, EffectAfterClaim, RemovesReleased, Released, Running, Claim, NoRow
<1>4. EffectAfterClaim'
  BY <1>0 DEF TypeOK, EffectAfterClaim
<1>5. FailedIsReleased'
  BY <1>0 DEF TypeOK, OwnsRow, EffectOwnsRow, EffectAfterClaim, FailedIsReleased, Released, Running, Claim, NoRow
<1>6. RemovesReleased'
  BY <1>0 DEF TypeOK, EffectAfterClaim, FailedIsReleased, RemovesReleased, Released, Running, NoRow
<1>7. CompletedHasEffect'
  BY <1>0 DEF TypeOK, CompletedHasEffect, Running, Claim, NoRow
<1>8. ReplayIsGenuine'
  BY <1>0 DEF TypeOK, CompletedHasEffect, ReplayIsGenuine, Reply
<1>9. ClaimHasOwner'
  BY <1>0 DEF TypeOK, ClaimHasOwner, Running, Claim, NoRow
<1> QED
  BY <1>1, <1>2, <1>3, <1>4, <1>5, <1>6, <1>7, <1>8, <1>9 DEF IInv

\* PurgeExpired keeps the ownership of the row.
LEMMA PurgeExpiredKeeps ==
    ASSUME IInv, PurgeExpired, UNCHANGED trouble
    PROVE  IInv'
<1> USE IdempotencyAssumption DEF PurgeExpired
<1>0. TypeOK /\ OwnsRow /\ EffectOwnsRow /\ EffectAfterClaim /\ FailedIsReleased /\ RemovesReleased /\ CompletedHasEffect /\ ReplayIsGenuine /\ ClaimHasOwner
  BY DEF IInv
<1>1. TypeOK'
  BY <1>0 DEF TypeOK, Running, Claim, NoRow, Reply
<1>2. OwnsRow'
  BY <1>0 DEF TypeOK, OwnsRow, RemovesReleased, Released, Running, Claim, NoRow
<1>3. EffectOwnsRow'
  BY <1>0 DEF TypeOK, OwnsRow, EffectOwnsRow, EffectAfterClaim, RemovesReleased, Released, Running, Claim, NoRow
<1>4. EffectAfterClaim'
  BY <1>0 DEF TypeOK, EffectAfterClaim
<1>5. FailedIsReleased'
  BY <1>0 DEF TypeOK, OwnsRow, EffectOwnsRow, EffectAfterClaim, FailedIsReleased, Released, Running, Claim, NoRow
<1>6. RemovesReleased'
  BY <1>0 DEF TypeOK, EffectAfterClaim, FailedIsReleased, RemovesReleased, Released, Running, NoRow
<1>7. CompletedHasEffect'
  BY <1>0 DEF TypeOK, CompletedHasEffect, Running, Claim, NoRow
<1>8. ReplayIsGenuine'
  BY <1>0 DEF TypeOK, CompletedHasEffect, ReplayIsGenuine, Reply
<1>9. ClaimHasOwner'
  BY <1>0 DEF TypeOK, ClaimHasOwner, Running, Claim, NoRow
<1> QED
  BY <1>1, <1>2, <1>3, <1>4, <1>5, <1>6, <1>7, <1>8, <1>9 DEF IInv

\* Every step of the specification keeps the inductive invariant.
LEMMA IInvStep == IInv /\ [Next]_vars => IInv'
<1> SUFFICES ASSUME IInv, [Next]_vars PROVE IInv'
  OBVIOUS
<1>1. CASE UNCHANGED vars
  BY <1>1 DEF vars, IInv, TypeOK, OwnsRow, EffectOwnsRow, EffectAfterClaim, FailedIsReleased,
              RemovesReleased, CompletedHasEffect, ReplayIsGenuine, ClaimHasOwner, Released
<1>2. CASE UNCHANGED trouble /\ PurgeExpired
  BY <1>2, PurgeExpiredKeeps
<1>3. ASSUME NEW r \in Requests, UNCHANGED trouble, Step(r) \/ ClaimExpires(r) PROVE IInv'
  BY <1>3, FindNothingKeeps, FindConflictKeeps, FindCompletedKeeps, FindRemovableKeeps, RemoveKeeps,
     InsertClaimKeeps, InsertLosesRaceKeeps, HandlerReturnsKeeps, HandlerThrowsKeeps,
     SaveCompletedKeeps, SaveCompletedRefusedKeeps, SaveFailedKeeps, ClaimExpiresKeeps DEF Step
<1>4. ASSUME NEW r \in Requests, trouble' = trouble \union {"dbFault"}, DbFault(r) PROVE IInv'
  BY <1>4, FindOrRemoveFailsKeeps, InsertFailsKeeps, SaveCompletedFailsKeeps, SaveFailedFailsKeeps DEF DbFault
<1>5. ASSUME NEW r \in Requests, trouble' = trouble \union {"crash"}, Crash(r) PROVE IInv'
  BY <1>5, CrashKeeps
<1> QED
  BY <1>1, <1>2, <1>3, <1>4, <1>5 DEF Next

\* No request has claimed the key at first.
LEMMA IInvInit == Init => IInv
<1> SUFFICES ASSUME Init PROVE IInv
  OBVIOUS
<1> USE IdempotencyAssumption DEF Init, NoRow, Reply
<1>1. TypeOK
  BY DEF TypeOK, Running
<1>2. OwnsRow /\ EffectOwnsRow /\ EffectAfterClaim /\ FailedIsReleased /\ RemovesReleased
  BY DEF OwnsRow, EffectOwnsRow, EffectAfterClaim, FailedIsReleased, RemovesReleased, Running
<1>3. CompletedHasEffect /\ ReplayIsGenuine /\ ClaimHasOwner
  BY DEF CompletedHasEffect, ReplayIsGenuine, ClaimHasOwner
<1> QED
  BY <1>1, <1>2, <1>3 DEF IInv

\* The ownership of the row holds in every reachable state.
LEMMA Invariance == Spec => []IInv
  BY IInvInit, IInvStep, PTL DEF Spec

\* Concurrent duplicates never double-execute: fresh claims on one key are
\* exclusive, whatever the database and the instances do (execute).
THEOREM ClaimsAreExclusive == Spec => []ClaimIsExclusive
<1>1. IInv => ClaimIsExclusive
  BY DEF IInv, OwnsRow, ClaimIsExclusive
<1> QED
  BY <1>1, Invariance, PTL

\* While the database answers, the handler's write is applied at most once
\* among fresh claims (execute), crashes included.
THEOREM WritesAreAppliedOnce == Spec => []EffectOnceWhileAnswered
<1>1. IInv => EffectOnceWhileAnswered
  BY DEF IInv, EffectOwnsRow, EffectOnceWhileAnswered, EffectOnce
<1> QED
  BY <1>1, Invariance, PTL

\* A replay returns what a finished handler produced for the same payload
\* (resolveExisting), faults included.
THEOREM ReplaysAreGenuine == Spec => []ReplayIsGenuine
<1>1. IInv => ReplayIsGenuine
  BY DEF IInv
<1> QED
  BY <1>1, Invariance, PTL

\* Until something fails, no claim is abandoned: whoever inserted a fresh record
\* in progress is still on its way to settle it (execute).
THEOREM ClaimsAreOwned == Spec => []ClaimHasOwner
<1>1. IInv => ClaimHasOwner
  BY DEF IInv
<1> QED
  BY <1>1, Invariance, PTL

\* While the database answers, a fresh stored success stays as it is
\* (resolveExisting, execute, purgeExpired).
THEOREM SuccessesAreKept == Spec => CompletedIsKept
<1>1. ASSUME IInv, [Next]_vars, "dbFault" \notin trouble, row.status = "COMPLETED", row.id \notin expired
      PROVE  row' = row
  <2> USE IdempotencyAssumption
  <2>0. /\ TypeOK /\ EffectOwnsRow /\ RemovesReleased /\ CompletedHasEffect
        /\ row.id \in effects /\ row.id \in Requests
    BY <1>1 DEF IInv, CompletedHasEffect, TypeOK
  <2>1. CASE UNCHANGED vars
    BY <2>1 DEF vars
  <2>2. CASE PurgeExpired
    BY <2>2, <1>1 DEF PurgeExpired
  <2>3. ASSUME NEW r \in Requests, Step(r) PROVE row' = row
    <3>1. CASE Remove(r)
      BY <3>1, <2>0, <1>1 DEF Remove, RemovesReleased, Released
    <3>2. CASE InsertClaim(r)
      BY <3>2, <2>0 DEF InsertClaim, Exists, NoRow
    <3>3. CASE SaveCompleted(r)
      BY <3>3, <2>0, <1>1 DEF SaveCompleted, CanSave, Claim, TypeOK
    <3>4. CASE SaveFailed(r)
      BY <3>4, <2>0, <1>1 DEF SaveFailed, CanSave, EffectOwnsRow
    <3> QED
      BY <2>3, <3>1, <3>2, <3>3, <3>4
         DEF Step, FindNothing, FindConflict, FindCompleted, FindRemovable, InsertLosesRace,
             HandlerReturns, HandlerThrows, SaveCompletedRefused
  <2>4. ASSUME NEW r \in Requests, DbFault(r) PROVE row' = row
    <3>1. CASE FindOrRemoveFails(r)
      BY <3>1, <2>0, <1>1 DEF FindOrRemoveFails, RemovesReleased, Released
    <3>2. CASE InsertFails(r)
      BY <3>2, <2>0 DEF InsertFails, Exists, NoRow
    <3>3. CASE SaveCompletedFails(r)
      BY <3>3, <2>0, <1>1 DEF SaveCompletedFails, CanSave, Claim, TypeOK
    <3>4. CASE SaveFailedFails(r)
      BY <3>4, <2>0, <1>1 DEF SaveFailedFails, CanSave, EffectOwnsRow
    <3> QED
      BY <2>4, <3>1, <3>2, <3>3, <3>4 DEF DbFault
  <2>5. ASSUME NEW r \in Requests, Crash(r) \/ ClaimExpires(r) PROVE row' = row
    BY <2>5 DEF Crash, ClaimExpires
  <2> QED
    BY <1>1, <2>1, <2>2, <2>3, <2>4, <2>5 DEF Next
<1>2. IInv /\ [Next]_vars
      => [/\ "dbFault" \notin trouble
          /\ row.status = "COMPLETED" /\ row.id \notin expired
          => row' = row]_vars
  BY <1>1
<1> QED
  BY <1>2, Invariance, PTL DEF Spec, CompletedIsKept
=============================================================================
