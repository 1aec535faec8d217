----------------------- MODULE PlatformServices_proofs -----------------------
(*************************************************************************)
(* Proofs about the services of the platform: sessions, schedules,       *)
(* ownership, pauses, rebuilds, backfills, dead letters, trades,         *)
(* webhooks and rate limits.  The inductive invariants are in the        *)
(* services' modules.                                                    *)
(*************************************************************************)
EXTENDS Services, SequenceTheorems, FiniteSetTheorems, WellFoundedInduction, TLAPS

LEMMA ServiceIsFixed == [ServicesNext]_ServicesVars => service' = service
  BY DEF ServicesNext, OtherNext, ServicesVars

-----------------------------------------------------------------------------
(* Refresh tokens *)

USE DEF RT!At, RT!Goto, RT!Return, RT!Idle, RT!Saved, RT!Live, RT!Rotating

LEMMA RefreshInit == RT!Init => RT!IInv
  BY DEF RT!Init, RT!IInv, RT!Shape, RT!ListedIsComplete, RT!RestIsUnseen, RT!Revoked

\* rotate finds its token; what it finds live after a revocation was not seen by it.
LEMMA FindInv ==
  ASSUME RT!IInv, NEW c \in Calls, NEW t \in RT!Tokens, RT!Find(c, t)
  PROVE  RT!IInv'
<1> USE DEF RT!Find, RT!IInv
<1>1. RT!Shape'
  BY DEF RT!Shape
<1>2. RT!ListedIsComplete'
  BY DEF RT!Shape, RT!ListedIsComplete
<1>3. RT!RestIsUnseen'
  <2>1. v4'[c].pc = (IF v1[t] = "revoked" THEN "listing" ELSE "checking") /\ \A d \in Calls : d # c => v4'[d] = v4[d]
    BY DEF RT!Shape
  <2>2. RT!Revoked' => RT!Revoked
    BY <2>1 DEF RT!Revoked
  <2>3. ASSUME RT!Revoked PROVE RT!Rotating' \subseteq v7'
    <3>1. RT!Live \subseteq v6 /\ RT!Rotating \subseteq v7
      BY <2>3 DEF RT!RestIsUnseen
    <3>2. c \in RT!Rotating' => t \in RT!Live
      BY <2>1 DEF RT!Shape
    <3> QED BY <2>1, <3>1, <3>2
  <2> QED BY <2>2, <2>3 DEF RT!RestIsUnseen
<1> QED BY <1>1, <1>2, <1>3

\* The replacement of a rotation that a revocation did not see is late.
LEMMA SaveReplacementInv ==
  ASSUME RT!IInv, NEW c \in Calls, NEW n \in RT!Tokens, RT!SaveReplacement(c, n)
  PROVE  RT!IInv'
<1> USE DEF RT!SaveReplacement, RT!IInv
<1>0. n \notin RT!Saved
  BY DEF RT!Tokens
<1>1. RT!Shape'
  BY DEF RT!Shape
<1>2. RT!ListedIsComplete'
  BY <1>0 DEF RT!Shape, RT!ListedIsComplete
<1>3. RT!RestIsUnseen'
  BY DEF RT!Shape, RT!RestIsUnseen, RT!Revoked
<1> QED BY <1>1, <1>2, <1>3

\* Steps that only move a call on, revoke tokens or note it in the store.
LEMMA RetiresInv ==
  ASSUME RT!IInv, NEW c \in Calls,
         RT!CheckStore(c) \/ RT!Retire(c) \/ RT!StoreRetired(c) \/ RT!Fail(c)
  PROVE  RT!IInv'
<1> USE DEF RT!CheckStore, RT!Retire, RT!StoreRetired, RT!Fail, RT!IInv
<1>1. RT!Shape'
  BY DEF RT!Shape
<1>2. RT!ListedIsComplete'
  BY DEF RT!Shape, RT!ListedIsComplete
<1>3. RT!RestIsUnseen'
  BY DEF RT!Shape, RT!RestIsUnseen, RT!Revoked
<1> QED BY <1>1, <1>2, <1>3

LEMMA LogoutInv ==
  ASSUME RT!IInv, NEW c \in Calls, NEW t \in RT!Tokens, RT!Logout(c, t)
  PROVE  RT!IInv'
<1> USE DEF RT!Logout, RT!IInv
<1>1. RT!Shape'
  BY DEF RT!Shape
<1>2. RT!ListedIsComplete'
  BY DEF RT!Shape, RT!ListedIsComplete
<1>3. RT!RestIsUnseen'
  BY DEF RT!Shape, RT!RestIsUnseen, RT!Revoked
<1> QED BY <1>1, <1>2, <1>3

LEMMA ListFamilyInv ==
  ASSUME RT!IInv, NEW c \in Calls, RT!ListFamily(c)
  PROVE  RT!IInv'
<1> USE DEF RT!ListFamily, RT!IInv
<1>1. RT!Shape'
  BY DEF RT!Shape
<1>2. RT!ListedIsComplete'
  BY DEF RT!Shape, RT!ListedIsComplete
<1>3. RT!RestIsUnseen'
  BY DEF RT!Shape, RT!RestIsUnseen, RT!Revoked
<1> QED BY <1>1, <1>2, <1>3

\* revokeFamily: what it listed dies; what is left was saved later.
LEMMA RevokeListedInv ==
  ASSUME RT!IInv, NEW c \in Calls, RT!RevokeListed(c)
  PROVE  RT!IInv'
<1> USE DEF RT!RevokeListed, RT!IInv
<1>1. RT!Shape'
  BY DEF RT!Shape
<1>2. RT!ListedIsComplete'
  BY DEF RT!Shape, RT!ListedIsComplete
<1>3. RT!RestIsUnseen'
  <2>1. RT!Live' \subseteq v6'
    BY DEF RT!Shape, RT!ListedIsComplete
  <2>2. RT!Rotating' \subseteq v7'
    BY DEF RT!Shape
  <2> QED BY <2>1, <2>2 DEF RT!RestIsUnseen
<1> QED BY <1>1, <1>2, <1>3

LEMMA ReportReuseInv ==
  ASSUME RT!IInv, NEW c \in Calls, RT!ReportReuse(c)
  PROVE  RT!IInv'
<1> USE DEF RT!ReportReuse, RT!IInv
<1>1. RT!Shape'
  BY DEF RT!Shape
<1>2. RT!ListedIsComplete'
  BY DEF RT!Shape, RT!ListedIsComplete
<1>3. RT!RestIsUnseen'
  BY DEF RT!Shape, RT!RestIsUnseen, RT!Revoked
<1> QED BY <1>1, <1>2, <1>3

LEMMA RefreshStutters ==
  ASSUME RT!IInv, UNCHANGED <<v1, v4, v5, v6, v7>>
  PROVE  RT!IInv'
  BY DEF RT!IInv, RT!Shape, RT!ListedIsComplete, RT!RestIsUnseen, RT!Revoked

LEMMA RefreshStep ==
  ASSUME RT!IInv, RT!Next
  PROVE  RT!IInv'
<1>1. CASE RT!Lapse
  BY <1>1, RefreshStutters DEF RT!Lapse
<1>2. ASSUME NEW c \in Calls,
             \/ RT!CheckStore(c) \/ RT!Retire(c) \/ RT!StoreRetired(c)
             \/ RT!ListFamily(c) \/ RT!RevokeListed(c) \/ RT!ReportReuse(c) \/ RT!Fail(c)
      PROVE  RT!IInv'
  BY <1>2, RetiresInv, ListFamilyInv, RevokeListedInv, ReportReuseInv
<1> QED BY <1>1, <1>2, FindInv, LogoutInv, SaveReplacementInv DEF RT!Next

LEMMA RefreshInv == ServicesSpec => [](service = "refreshTokens" => RT!IInv)
<1>1. ServicesInit => (service = "refreshTokens" => RT!IInv)
  BY RefreshInit DEF ServicesInit, OtherInit
<1>2. (service = "refreshTokens" => RT!IInv) /\ [ServicesNext]_ServicesVars => (service = "refreshTokens" => RT!IInv)'
  <2> SUFFICES ASSUME service' = "refreshTokens", service = "refreshTokens" => RT!IInv, [ServicesNext]_ServicesVars
               PROVE  RT!IInv'
    OBVIOUS
  <2>1. service = "refreshTokens"
    BY ServiceIsFixed
  <2>2. RT!Next \/ UNCHANGED others
    BY <2>1 DEF ServicesNext, OtherNext, ServicesVars
  <2> QED BY <2>1, <2>2, RefreshStep, RefreshStutters DEF others
<1> QED BY <1>1, <1>2, PTL DEF ServicesSpec

\* revokeFamily: for any number of tokens and calls, once a replay was reported a
\* live token of the family comes from a rotation the revocation could not see.
THEOREM FamiliesDie == ServicesSpec => []SurvivorsWereUnseen
<1>1. (service = "refreshTokens" => RT!IInv) => SurvivorsWereUnseen
  BY DEF RT!IInv, RT!RestIsUnseen, RT!Revoked, SurvivorsWereUnseen, RT!SurvivorsWereUnseen
<1> QED BY <1>1, RefreshInv, PTL

HIDE DEF RT!At, RT!Goto, RT!Return, RT!Idle, RT!Saved, RT!Live, RT!Rotating

-----------------------------------------------------------------------------
(* Retry scheduler *)

USE DEF RS!At, RS!Goto, RS!GotoWith, RS!Return, RS!Idle, RS!IsRetryable

LEMMA SchedulerInit == RS!Init => RS!IInv
  BY DEF RS!Init, RS!IInv, RS!Shape, RS!IsRow, RS!LatestDeath, RS!SeenRetryable

\* A worker or a caller reads the row, gives up or dies.
LEMMA MovesOnInv ==
  ASSUME RS!IInv, NEW c \in Calls, NEW w, UNCHANGED <<v1, v3, v4, v5>>,
         \/ RS!Return(c) \/ RS!Goto(c, "listed") \/ RS!GotoWith(c, "starting", w) \/ RS!GotoWith(c, "reporting", w)
  PROVE  RS!IInv'
<1> USE DEF RS!Idle, RS!IInv
<1>1. RS!Shape'
  BY DEF RS!Shape, RS!IsRow
<1>2. RS!LatestDeath'
  BY DEF RS!LatestDeath
<1>3. RS!SeenRetryable'
  BY DEF RS!Shape, RS!SeenRetryable
<1>4. ~v5'
  OBVIOUS
<1> QED BY <1>1, <1>2, <1>3, <1>4

\* An unforced retry has seen that the failure is retryable.
LEMMA RetryDeadLetterReadInv ==
  ASSUME RS!IInv, NEW c \in Calls, NEW force \in BOOLEAN, RS!RetryDeadLetterRead(c, force)
  PROVE  RS!IInv'
<1> USE DEF RS!RetryDeadLetterRead, RS!IInv
<1>1. RS!Shape'
  BY DEF RS!Shape, RS!IsRow
<1>2. RS!LatestDeath'
  BY DEF RS!LatestDeath
<1>3. RS!SeenRetryable'
  BY DEF RS!Shape, RS!SeenRetryable
<1>4. ~v5'
  OBVIOUS
<1> QED BY <1>1, <1>2, <1>3, <1>4

\* A stale row is saved: it is not a dead letter.
LEMMA SavesInv ==
  ASSUME RS!IInv, NEW c \in Calls, RS!MarkInProgressSave(c) \/ RS!MarkSucceeded(c) \/ RS!MarkFailed(c)
  PROVE  RS!IInv'
<1> USE DEF RS!MarkInProgressSave, RS!MarkSucceeded, RS!MarkFailed, RS!IInv
<1>1. RS!Shape'
  <2>1. RS!IsRow(v1')
    BY DEF RS!Shape, RS!IsRow
  <2>2. v2' = [d \in Calls |-> v2'[d]] /\ \A d \in Calls : v2'[d] = v2[d] \/ v2'[d].pc \in {"idle", "running"}
    BY DEF RS!Shape
  <2> QED BY <2>1, <2>2 DEF RS!Shape
<1>2. RS!LatestDeath'
  BY DEF RS!Shape, RS!IsRow, RS!LatestDeath
<1>3. RS!SeenRetryable'
  <2>1. v1'.status # "dead_letter" /\ v3' = v3
    BY DEF RS!Shape, RS!IsRow
  <2>2. \A d \in Calls : v2'[d] = v2[d] \/ v2'[d].pc \in {"idle", "running"}
    BY DEF RS!Shape
  <2> QED BY <2>1, <2>2 DEF RS!SeenRetryable
<1>4. ~v5'
  OBVIOUS
<1> QED BY <1>1, <1>2, <1>3, <1>4

\* The operation fails for good.
LEMMA MoveToDeadLetterInv ==
  ASSUME RS!IInv, NEW c \in Calls, RS!MoveToDeadLetter(c)
  PROVE  RS!IInv'
<1> USE DEF RS!MoveToDeadLetter, RS!IInv
<1>1. RS!Shape'
  <2>1. RS!IsRow(v1')
    BY DEF RS!Shape, RS!IsRow
  <2>2. v2' = [d \in Calls |-> v2'[d]] /\ \A d \in Calls : v2'[d] = v2[d] \/ v2'[d].pc \in {"idle", "running"}
    BY DEF RS!Shape
  <2> QED BY <2>1, <2>2 DEF RS!Shape
<1>2. RS!LatestDeath'
  BY DEF RS!Shape, RS!IsRow, RS!LatestDeath
<1>3. RS!SeenRetryable'
  BY DEF RS!Shape, RS!IsRow, RS!SeenRetryable
<1>4. ~v5'
  OBVIOUS
<1> QED BY <1>1, <1>2, <1>3, <1>4

\* The conditional UPDATE finds the latest dead letter.
LEMMA RequeueInv ==
  ASSUME RS!IInv, NEW c \in Calls, RS!Requeue(c)
  PROVE  RS!IInv'
<1> USE DEF RS!Requeue, RS!IInv
<1>1. RS!Shape'
  <2>1. RS!IsRow(v1')
    BY DEF RS!Shape, RS!IsRow
  <2>2. v2' = [d \in Calls |-> v2'[d]] /\ \A d \in Calls : v2'[d] = v2[d] \/ v2'[d].pc \in {"idle", "running"}
    BY DEF RS!Shape
  <2> QED BY <2>1, <2>2 DEF RS!Shape
<1>2. RS!LatestDeath'
  BY DEF RS!Shape, RS!IsRow, RS!LatestDeath
<1>3. RS!SeenRetryable'
  BY DEF RS!Shape, RS!IsRow, RS!SeenRetryable
<1>4. ~v5'
  BY DEF RS!SeenRetryable
<1> QED BY <1>1, <1>2, <1>3, <1>4

LEMMA SchedulerStep ==
  ASSUME RS!IInv, RS!Next
  PROVE  RS!IInv'
<1> SUFFICES ASSUME NEW c \in Calls,
                    \/ RS!GetDue(c) \/ RS!MarkInProgressRead(c) \/ RS!MarkInProgressSave(c)
                    \/ \E o \in {"succeeded", "failed", "fatal"} : RS!OutcomeRead(c, o)
                    \/ RS!MarkSucceeded(c) \/ RS!MarkFailed(c) \/ RS!MoveToDeadLetter(c)
                    \/ \E force \in BOOLEAN : RS!RetryDeadLetterRead(c, force)
                    \/ RS!Requeue(c) \/ RS!AlreadyRetried(c) \/ RS!Fault(c)
             PROVE  RS!IInv'
  BY DEF RS!Next
<1>1. CASE RS!GetDue(c) \/ RS!AlreadyRetried(c) \/ RS!Fault(c)
  BY <1>1, MovesOnInv DEF RS!GetDue, RS!AlreadyRetried, RS!Fault
<1>2. CASE RS!MarkInProgressRead(c) \/ \E o \in {"succeeded", "failed", "fatal"} : RS!OutcomeRead(c, o)
  BY <1>2, MovesOnInv DEF RS!MarkInProgressRead, RS!OutcomeRead
<1> QED BY <1>1, <1>2, SavesInv, MoveToDeadLetterInv, RetryDeadLetterReadInv, RequeueInv

LEMMA SchedulerStutters ==
  ASSUME RS!IInv, UNCHANGED others
  PROVE  RS!IInv'
  BY DEF others, RS!IInv, RS!Shape, RS!LatestDeath, RS!SeenRetryable

LEMMA SchedulerInv == ServicesSpec => [](service = "retryScheduler" => RS!IInv)
<1>1. ServicesInit => (service = "retryScheduler" => RS!IInv)
  BY SchedulerInit DEF ServicesInit, OtherInit
<1>2. (service = "retryScheduler" => RS!IInv) /\ [ServicesNext]_ServicesVars => (service = "retryScheduler" => RS!IInv)'
  <2> SUFFICES ASSUME service' = "retryScheduler", service = "retryScheduler" => RS!IInv, [ServicesNext]_ServicesVars
               PROVE  RS!IInv'
    OBVIOUS
  <2>1. service = "retryScheduler"
    BY ServiceIsFixed
  <2>2. RS!Next \/ UNCHANGED others
    BY <2>1 DEF ServicesNext, OtherNext, ServicesVars
  <2> QED BY <2>1, <2>2, SchedulerStep, SchedulerStutters DEF others
<1> QED BY <1>1, <1>2, PTL DEF ServicesSpec

\* retryDeadLetter: for any number of workers and callers, attempts and failures,
\* each dead letter is re-queued once, and unforced only if it may be.
THEOREM RequeuesAreEarned == ServicesSpec => []RequeueIsEarned
<1>1. (service = "retryScheduler" => RS!IInv) => RequeueIsEarned
  BY DEF RS!IInv, RS!LatestDeath, RequeueIsEarned, RS!RequeueIsEarned
<1> QED BY <1>1, SchedulerInv, PTL


HIDE DEF RS!At, RS!Goto, RS!GotoWith, RS!Return, RS!Idle, RS!IsRetryable

-----------------------------------------------------------------------------
(* Ownership transfer *)

USE DEF OT!At, OT!Goto, OT!Return, OT!Idle, OT!Pending, OT!Decisions

LEMMA OwnershipInit == OT!Init => OT!IInv
  BY DEF OT!Init, OT!IInv, OT!Shape, OT!Decides, OT!SettledIsClosed

\* A call decides on what it has read: the transfer is pending, or expired.
LEMMA LoadsInv ==
  ASSUME OT!IInv, NEW c \in Calls, OT!At(c, "idle"), NEW pc, NEW ids, NEW s, OT!Goto(c, pc, ids, s),
         \/ pc = "creating" /\ ids = {}
         \/ pc = "deciding" /\ s \in OT!Decisions /\ ids \subseteq OT!Pending
         \/ pc = "expiring" /\ ids \subseteq v2,
         UNCHANGED <<v1, v2, v4>>
  PROVE  OT!IInv'
<1> USE DEF OT!Goto, OT!IInv
<1>1. OT!Shape'
  BY DEF OT!Shape
<1>2. OT!Decides'
  BY DEF OT!Shape, OT!Decides
<1>3. OT!SettledIsClosed'
  BY DEF OT!Shape, OT!Decides, OT!SettledIsClosed
<1> QED BY <1>1, <1>2, <1>3

\* A new transfer has an id of its own.
LEMMA CreateTransferInv ==
  ASSUME OT!IInv, NEW c \in Calls, NEW i \in OT!Ids, OT!Create(c, i)
  PROVE  OT!IInv'
<1> USE DEF OT!Create, OT!IInv
<1>1. v1[i] = "absent"
  BY DEF OT!Ids
<1>2. OT!Shape'
  BY DEF OT!Shape
<1>3. OT!Decides'
  BY DEF OT!Shape, OT!Decides
<1>4. OT!SettledIsClosed'
  BY <1>1 DEF OT!Shape, OT!Decides, OT!SettledIsClosed
<1> QED BY <1>1, <1>2, <1>3, <1>4

\* A decision is saved; if nobody else is at work on the transfer it is settled.
LEMMA DecideInv ==
  ASSUME OT!IInv, NEW c \in Calls, OT!Decide(c)
  PROVE  OT!IInv'
<1> USE DEF OT!Decide, OT!IInv
<1>1. OT!Shape'
  BY DEF OT!Shape
<1>2. OT!Decides'
  BY DEF OT!Shape, OT!Decides
<1>3. OT!SettledIsClosed'
  BY DEF OT!Shape, OT!Decides, OT!SettledIsClosed
<1> QED BY <1>1, <1>2, <1>3

\* An expiry is saved.
LEMMA SaveExpiredInv ==
  ASSUME OT!IInv, NEW c \in Calls, NEW i \in OT!Ids, OT!SaveExpired(c, i)
  PROVE  OT!IInv'
<1> USE DEF OT!SaveExpired, OT!IInv
<1>1. OT!Shape'
  BY DEF OT!Shape
<1>2. OT!Decides'
  BY DEF OT!Shape, OT!Decides
<1>3. OT!SettledIsClosed'
  BY DEF OT!Shape, OT!Decides, OT!SettledIsClosed
<1> QED BY <1>1, <1>2, <1>3

\* The expiry passes.
LEMMA TransferExpiryInv ==
  ASSUME OT!IInv, NEW i \in OT!Ids, OT!ExpiryPasses(i)
  PROVE  OT!IInv'
<1> USE DEF OT!ExpiryPasses, OT!IInv
<1>1. OT!Shape'
  BY DEF OT!Shape
<1>2. OT!Decides'
  BY DEF OT!Shape, OT!Decides
<1>3. OT!SettledIsClosed'
  BY DEF OT!Shape, OT!Decides, OT!SettledIsClosed
<1> QED BY <1>1, <1>2, <1>3

\* A call fails.
LEMMA TransferFaultInv ==
  ASSUME OT!IInv, NEW c \in Calls, OT!Fault(c)
  PROVE  OT!IInv'
<1> USE DEF OT!Fault, OT!IInv
<1>1. OT!Shape'
  BY DEF OT!Shape
<1>2. OT!Decides'
  BY DEF OT!Shape, OT!Decides
<1>3. OT!SettledIsClosed'
  BY DEF OT!Shape, OT!Decides, OT!SettledIsClosed
<1> QED BY <1>1, <1>2, <1>3

LEMMA OwnershipStep ==
  ASSUME OT!IInv, OT!Next
  PROVE  OT!IInv'
<1>1. CASE \E i \in OT!Ids : OT!ExpiryPasses(i)
  BY <1>1, TransferExpiryInv
<1>2. ASSUME NEW c \in Calls, OT!Initiate(c) \/ OT!Refresh(c)
      PROVE  OT!IInv'
  <2>1. CASE OT!Initiate(c)
    <3>1. OT!At(c, "idle") /\ OT!Goto(c, "creating", {}, "pending") /\ UNCHANGED <<v1, v2, v4>>
      BY <2>1 DEF OT!Initiate
    <3> QED BY <3>1, LoadsInv
  <2>2. CASE OT!Refresh(c)
    <3>1. PICK ids \in {{i} : i \in OT!Pending \intersect v2} \union ({OT!Pending \intersect v2} \ {{}}) :
                  OT!At(c, "idle") /\ OT!Goto(c, "expiring", ids, "expired") /\ UNCHANGED <<v1, v2, v4>>
      BY <2>2 DEF OT!Refresh
    <3>2. ids \subseteq v2
      BY <3>1
    <3> QED BY <3>1, <3>2, LoadsInv
  <2> QED BY <1>2, <2>1, <2>2
<1>3. ASSUME NEW c \in Calls, NEW i \in OT!Ids,
             OT!Accept(c, i) \/ OT!AcceptExpired(c, i) \/ \E d \in {"cancelled", "rejected"} : OT!Decline(c, i, d)
      PROVE  OT!IInv'
  <2>1. CASE OT!AcceptExpired(c, i)
    <3>1. OT!At(c, "idle") /\ OT!Goto(c, "expiring", {i}, "expired") /\ {i} \subseteq v2 /\ UNCHANGED <<v1, v2, v4>>
      BY <2>1 DEF OT!AcceptExpired
    <3> QED BY <3>1, LoadsInv
  <2>2. CASE OT!Accept(c, i) \/ \E d \in {"cancelled", "rejected"} : OT!Decline(c, i, d)
    <3>1. PICK d \in OT!Decisions : OT!At(c, "idle") /\ OT!Goto(c, "deciding", {i}, d) /\ {i} \subseteq OT!Pending /\ UNCHANGED <<v1, v2, v4>>
      BY <2>2 DEF OT!Accept, OT!Decline
    <3> QED BY <3>1, LoadsInv
  <2> QED BY <1>3, <2>1, <2>2
<1> QED BY <1>1, <1>2, <1>3, CreateTransferInv, DecideInv, SaveExpiredInv, TransferFaultInv DEF OT!Next

LEMMA OwnershipStutters ==
  ASSUME OT!IInv, UNCHANGED others
  PROVE  OT!IInv'
  BY DEF others, OT!IInv, OT!Shape, OT!Decides, OT!SettledIsClosed

LEMMA OwnershipInv == ServicesSpec => [](service = "ownershipTransfer" => OT!IInv)
<1>1. ServicesInit => (service = "ownershipTransfer" => OT!IInv)
  BY OwnershipInit DEF ServicesInit, OtherInit
<1>2. (service = "ownershipTransfer" => OT!IInv) /\ [ServicesNext]_ServicesVars => (service = "ownershipTransfer" => OT!IInv)'
  <2> SUFFICES ASSUME service' = "ownershipTransfer", service = "ownershipTransfer" => OT!IInv, [ServicesNext]_ServicesVars
               PROVE  OT!IInv'
    OBVIOUS
  <2>1. service = "ownershipTransfer"
    BY ServiceIsFixed
  <2>2. OT!Next \/ UNCHANGED others
    BY <2>1 DEF ServicesNext, OtherNext, ServicesVars
  <2> QED BY <2>1, <2>2, OwnershipStep, OwnershipStutters DEF others
<1> QED BY <1>1, <1>2, PTL DEF ServicesSpec

\* acceptTransfer, cancelTransfer, rejectTransfer: for any number of transfers and
\* calls, a decision reported while no other call was at work on its transfer stands.
THEOREM DecisionsStand == ServicesSpec => []QuietDecisionStands
<1>1. (service = "ownershipTransfer" => OT!IInv) => QuietDecisionStands
  BY DEF OT!IInv, OT!SettledIsClosed, QuietDecisionStands, OT!QuietDecisionStands
<1> QED BY <1>1, OwnershipInv, PTL


HIDE DEF OT!At, OT!Goto, OT!Return, OT!Idle, OT!Pending, OT!Decisions

-----------------------------------------------------------------------------
(* Pause control *)

USE DEF PC!At, PC!Return, PC!Idle, PC!NoPause, PC!Active, PC!Lifting

LEMMA PauseInit == PC!Init => PC!IInv
  BY DEF PC!Init, PC!IInv, PC!Shape, PC!Lifters, PC!NobodyLifts

\* A call may go on as r, without a write: if it now may lift a pause, it might
\* before, or there is none.
GoesOnAs(c, r) ==
    /\ r.pc # "recording"
    /\ r.pc # "idle" => /\ {"pc", "exp", "before", "loaded"} \subseteq DOMAIN r
                        /\ r.before = PC!NoPause => PC!Lifting(c) \/ PC!Active = {}
    /\ r.pc = "updating" => \A l \in r.loaded : l[1] \in PC!Ids
    /\ r.pc \in {"lifting", "resuming", "resumeSaving", "resumeRecording", "unresuming", "expiring"}
          => r.before = PC!NoPause

LEMMA PauseGoesOn ==
  ASSUME PC!IInv, NEW c \in Calls, NEW r, GoesOnAs(c, r), v2' = [v2 EXCEPT ![c] = r], UNCHANGED <<v1, v3, v4>>
  PROVE  PC!IInv'
<1> USE DEF PC!IInv, GoesOnAs
<1>0. v2' = [d \in Calls |-> v2'[d]] /\ v2'[c] = r /\ \A d \in Calls : d # c => v2'[d] = v2[d]
  BY DEF PC!Shape
<1>1. PC!Shape'
  BY <1>0 DEF PC!Shape
<1>2. PC!Lifters'
  BY <1>0 DEF PC!Lifters
<1>3. PC!NobodyLifts'
  BY <1>0 DEF PC!NobodyLifts
<1> QED BY <1>1, <1>2, <1>3

\* A row is saved.
LEMMA SaveKeepsRows ==
  ASSUME PC!Shape, NEW i, NEW s, NEW e, PC!Save(i, s, e)
  PROVE  /\ v1' = [j \in PC!Ids |-> v1'[j]]
         /\ \A j \in PC!Ids : v1'[j] = [status |-> v1'[j].status, exp |-> v1'[j].exp]
         /\ s = "active" => PC!Active \subseteq PC!Active'
         /\ s = "active" /\ i \in PC!Ids => i \in PC!Active'
  BY DEF PC!Shape, PC!Save

\* An activation is saved.
LEMMA ActivationInv ==
  ASSUME PC!IInv, NEW c \in Calls, NEW i \in PC!Ids, NEW e, PC!Save(i, "active", e),
         ~PC!At(c, "idle"), PC!Goto(c, "recording"), PC!Clean(c), UNCHANGED v4
  PROVE  PC!IInv'
<1> USE DEF PC!IInv
<1>0. /\ v2' = [d \in Calls |-> v2'[d]] /\ \A d \in Calls : d # c => v2'[d] = v2[d]
      /\ v2'[c].pc = "recording" /\ v2'[c].before = v2[c].before
      /\ {"pc", "exp", "before", "loaded"} \subseteq DOMAIN v2'[c]
  BY DEF PC!Shape, PC!Goto
<1>1. PC!Shape'
  BY <1>0, SaveKeepsRows DEF PC!Shape
<1>2. PC!Lifters'
  BY <1>0 DEF PC!Lifters
<1>3. PC!NobodyLifts'
  <2>1. PC!Active' # {}
    BY SaveKeepsRows
  <2>2. \A d \in Calls : PC!Lifting(d)' => PC!Lifting(d)
    BY <1>0
  <2>3. \A d \in v3' : d = c => \A f \in Calls \ {c} : ~PC!Lifting(f)
    BY DEF PC!Clean
  <2>4. \A d \in v3' : d # c => d \in v3
    BY DEF PC!Clean
  <2>5. ASSUME NEW d \in v3', PC!At(d, "recording")' PROVE \A f \in Calls \ {d} : ~PC!Lifting(f)'
    <3>1. CASE d = c
      BY <2>2, <2>3, <3>1
    <3>2. CASE d # c
      <4>1. d \in v3 /\ PC!At(d, "recording")
        BY <1>0, <2>4, <2>5, <3>2
      <4> QED BY <2>2, <4>1 DEF PC!NobodyLifts
    <3> QED BY <3>1, <3>2
  <2>6. v4' => \A d \in Calls : ~PC!Lifting(d)'
    BY <2>2 DEF PC!NobodyLifts
  <2> QED BY <2>1, <2>5, <2>6 DEF PC!NobodyLifts
<1>4. v3' \subseteq Calls
  BY DEF PC!Clean
<1> QED BY <1>1, <1>2, <1>3, <1>4

\* A pause is restored, by a rollback or a resume that cannot be recorded.
LEMMA RestoresInv ==
  ASSUME PC!IInv, NEW c \in Calls, NEW i, NEW e, PC!Save(i, "active", e), PC!Return(c), UNCHANGED <<v3, v4>>
  PROVE  PC!IInv'
<1> USE DEF PC!IInv
<1>0. v2' = [d \in Calls |-> v2'[d]] /\ v2'[c].pc = "idle" /\ \A d \in Calls : d # c => v2'[d] = v2[d]
  BY DEF PC!Shape
<1>1. PC!Shape'
  BY <1>0, SaveKeepsRows DEF PC!Shape
<1>2. PC!Lifters'
  BY <1>0 DEF PC!Lifters
<1>3. PC!NobodyLifts'
  <2>1. PC!Active # {} => PC!Active' # {}
    BY SaveKeepsRows
  <2> QED BY <1>0, <2>1 DEF PC!NobodyLifts
<1> QED BY <1>1, <1>2, <1>3

\* A pause is lifted: by a call that rules out a clean or an acknowledged one.
LEMMA LiftsInv ==
  ASSUME PC!IInv, NEW c \in Calls, v2[c].pc \in {"lifting", "resumeSaving", "expiring"},
         NEW i, NEW s, NEW e, PC!Save(i, s, e), NEW r, v2' = [v2 EXCEPT ![c] = r],
         r.pc \in {"idle", "resumeRecording", "expiring"},
         r.pc = "idle" \/ (r.before = v2[c].before /\ {"pc", "exp", "before", "loaded"} \subseteq DOMAIN r),
         UNCHANGED <<v3, v4>>
  PROVE  PC!IInv'
<1> USE DEF PC!IInv
<1>0. v2' = [d \in Calls |-> v2'[d]] /\ v2'[c] = r /\ \A d \in Calls : d # c => v2'[d] = v2[d]
  BY DEF PC!Shape
<1>1. PC!Shape'
  BY <1>0, SaveKeepsRows DEF PC!Shape
<1>2. PC!Lifters'
  BY <1>0 DEF PC!Lifters
<1>3. PC!NobodyLifts'
  <2>1. PC!Lifting(c)
    BY DEF PC!Lifters
  <2>2. ~v4 /\ \A d \in v3 : ~PC!At(d, "recording")
    BY <2>1 DEF PC!NobodyLifts
  <2> QED BY <1>0, <2>2 DEF PC!NobodyLifts
<1> QED BY <1>1, <1>2, <1>3

\* The caller is told that the scope is paused.
LEMMA AcknowledgeInv ==
  ASSUME PC!IInv, NEW c \in Calls, PC!Acknowledge(c)
  PROVE  PC!IInv'
<1> USE DEF PC!IInv, PC!Acknowledge
<1>1. PC!Shape'
  BY DEF PC!Shape
<1>2. PC!Lifters'
  BY DEF PC!Shape, PC!Lifters
<1>3. PC!NobodyLifts'
  BY DEF PC!Shape, PC!NobodyLifts
<1> QED BY <1>1, <1>2, <1>3

\* A resume or an expiry begins.
LEMMA LiftingBeginsInv ==
  ASSUME PC!IInv, NEW c \in Calls, NEW r, v2' = [v2 EXCEPT ![c] = r],
         r.pc \in {"resuming", "expiring"}, r.before = PC!NoPause, {"pc", "exp", "before", "loaded"} \subseteq DOMAIN r,
         UNCHANGED v1, v3' = {}, ~v4'
  PROVE  PC!IInv'
<1> USE DEF PC!IInv
<1>1. PC!Shape'
  BY DEF PC!Shape
<1>2. PC!Lifters'
  BY DEF PC!Shape, PC!Lifters
<1> QED BY <1>1, <1>2 DEF PC!NobodyLifts

LEMMA PauseExpiryInv ==
  ASSUME PC!IInv, NEW i \in PC!Ids, PC!ExpiryPasses(i)
  PROVE  PC!IInv'
<1> USE DEF PC!IInv, PC!ExpiryPasses
<1>1. PC!Shape'
  BY DEF PC!Shape
<1>2. PC!Lifters'
  BY DEF PC!Lifters
<1>3. PC!NobodyLifts'
  <2>1. PC!Active' = PC!Active
    BY DEF PC!Shape
  <2> QED BY <2>1 DEF PC!NobodyLifts
<1> QED BY <1>1, <1>2, <1>3

\* activatePause and its rollback.
LEMMA ActivatesInv ==
  ASSUME PC!IInv, NEW c \in Calls,
         \/ \E e \in PC!Expiries : PC!Activate(c, e)
         \/ \E i \in PC!Ids : PC!Insert(c, i)
         \/ PC!ApplyRead(c) \/ PC!Update(c) \/ PC!EvidenceFails(c) \/ PC!RevertRead(c) \/ PC!Restore(c) \/ PC!Lift(c)
  PROVE  PC!IInv'
<1>0. PC!At(c, "idle") \/ {"pc", "exp", "before", "loaded"} \subseteq DOMAIN v2[c]
  BY DEF PC!IInv, PC!Shape
<1>1. ASSUME NEW e \in PC!Expiries, PC!Activate(c, e) PROVE PC!IInv'
  <2>1. PICK b \in IF PC!Active = {} THEN {PC!NoPause} ELSE {v1[i] : i \in PC!Active} :
                v2' = [v2 EXCEPT ![c] = [pc |-> "applying", exp |-> e, before |-> b, loaded |-> {}]]
    BY <1>1 DEF PC!Activate, PC!Begin
  <2>2. b = PC!NoPause => PC!Active = {}
    BY <2>1
  <2> DEFINE r == [pc |-> "applying", exp |-> e, before |-> b, loaded |-> {}]
  <2>3. GoesOnAs(c, r)
    BY <2>2 DEF GoesOnAs
  <2> HIDE DEF r
  <2> QED BY <1>1, <2>1, <2>3, PauseGoesOn DEF PC!Activate, r
<1>2. ASSUME NEW i \in PC!Ids, PC!Insert(c, i) PROVE PC!IInv'
  BY <1>2, ActivationInv DEF PC!Insert
<1>3. CASE PC!Update(c)
  BY <1>3, ActivationInv DEF PC!Update, PC!IInv, PC!Shape
<1>4. CASE PC!ApplyRead(c)
  <2>1. PICK pc \in {"updating", "inserting"}, ids \in SUBSET PC!Ids : PC!Load(c, pc, ids)
    BY <1>4 DEF PC!ApplyRead
  <2> DEFINE r == [v2[c] EXCEPT !.pc = pc, !.loaded = {<<i, v1[i]>> : i \in ids}]
  <2>2. v2' = [v2 EXCEPT ![c] = r]
    BY <2>1 DEF PC!Load, PC!IInv, PC!Shape
  <2>3. r.pc = pc /\ r.before = v2[c].before /\ r.loaded = {<<i, v1[i]>> : i \in ids} /\ DOMAIN r = DOMAIN v2[c]
    BY <1>0, <1>4 DEF PC!ApplyRead
  <2> HIDE DEF r
  <2>4. GoesOnAs(c, r)
    BY <1>0, <1>4, <2>1, <2>3 DEF GoesOnAs, PC!ApplyRead
  <2> QED BY <1>4, <2>2, <2>4, PauseGoesOn DEF PC!ApplyRead
<1>5. CASE PC!EvidenceFails(c)
  <2> DEFINE r == [v2[c] EXCEPT !.pc = "reverting", !.exp = "never", !.loaded = {}]
  <2>1. v2' = [v2 EXCEPT ![c] = r]
    BY <1>5 DEF PC!EvidenceFails, PC!Goto, PC!IInv, PC!Shape
  <2>2. r.pc = "reverting" /\ r.before = v2[c].before /\ DOMAIN r = DOMAIN v2[c]
    BY <1>0, <1>5 DEF PC!EvidenceFails
  <2> HIDE DEF r
  <2>3. GoesOnAs(c, r)
    BY <1>0, <1>5, <2>2 DEF GoesOnAs, PC!EvidenceFails
  <2> QED BY <1>5, <2>1, <2>3, PauseGoesOn DEF PC!EvidenceFails
<1>6. CASE PC!RevertRead(c)
  <2>1. CASE PC!Return(c)
    <3>1. GoesOnAs(c, PC!Idle)
      BY DEF GoesOnAs
    <3> QED BY <1>6, <2>1, <3>1, PauseGoesOn DEF PC!RevertRead
  <2>2. CASE ~PC!Return(c)
    <3>1. PICK i \in PC!Active : PC!Load(c, IF v2[c].before = PC!NoPause THEN "lifting" ELSE "restoring", {i})
      BY <1>6, <2>2 DEF PC!RevertRead
    <3> DEFINE r == [v2[c] EXCEPT !.pc = IF v2[c].before = PC!NoPause THEN "lifting" ELSE "restoring",
                                  !.loaded = {<<j, v1[j]>> : j \in {i}}]
    <3>2. v2' = [v2 EXCEPT ![c] = r]
      BY <3>1 DEF PC!Load, PC!IInv, PC!Shape
    <3>3. /\ r.pc = IF v2[c].before = PC!NoPause THEN "lifting" ELSE "restoring"
          /\ r.before = v2[c].before /\ DOMAIN r = DOMAIN v2[c]
      BY <1>0, <1>6 DEF PC!RevertRead
    <3> HIDE DEF r
    <3>4. GoesOnAs(c, r)
      BY <1>0, <1>6, <3>3 DEF GoesOnAs, PC!RevertRead
    <3> QED BY <1>6, <3>2, <3>4, PauseGoesOn DEF PC!RevertRead
  <2> QED BY <2>1, <2>2
<1>7. CASE PC!Restore(c)
  BY <1>7, RestoresInv DEF PC!Restore
<1>8. CASE PC!Lift(c)
  BY <1>8, LiftsInv DEF PC!Lift
<1> QED BY <1>1, <1>2, <1>3, <1>4, <1>5, <1>6, <1>7, <1>8

\* resumePause and its rollback, expiries, faults.
LEMMA ResumesInv ==
  ASSUME PC!IInv, NEW c \in Calls,
         \/ PC!Resume(c) \/ PC!ResumeRead(c) \/ PC!ResumeSave(c) \/ PC!ResumeDone(c)
         \/ PC!ResumeEvidenceFails(c) \/ PC!Unresume(c)
         \/ PC!Expire(c) \/ PC!ExpireSave(c) \/ PC!Fault(c)
  PROVE  PC!IInv'
<1>0. PC!At(c, "idle") \/ {"pc", "exp", "before", "loaded"} \subseteq DOMAIN v2[c]
  BY DEF PC!IInv, PC!Shape
<1>1. CASE PC!Resume(c)
  <2>1. PICK i \in PC!Active : v2' = [v2 EXCEPT ![c] = [pc |-> "resuming", exp |-> "never", before |-> PC!NoPause,
                                                        loaded |-> {}, resumed |-> i]]
    BY <1>1 DEF PC!Resume
  <2> DEFINE r == [pc |-> "resuming", exp |-> "never", before |-> PC!NoPause, loaded |-> {}, resumed |-> i]
  <2>2. r.pc = "resuming" /\ r.before = PC!NoPause /\ {"pc", "exp", "before", "loaded"} \subseteq DOMAIN r
    OBVIOUS
  <2> HIDE DEF r
  <2> QED BY <1>1, <2>1, <2>2, LiftingBeginsInv DEF PC!Resume, r
<1>2. CASE PC!ResumeRead(c) \/ PC!ResumeEvidenceFails(c)
  <2>0. PICK pc \in {"resumeSaving", "resumeRecording", "unresuming"} : \E ids : PC!Load(c, pc, ids)
    BY <1>2 DEF PC!ResumeRead, PC!ResumeEvidenceFails
  <2>1. PICK ids : PC!Load(c, pc, ids)
    BY <2>0
  <2> DEFINE r == [v2[c] EXCEPT !.pc = pc, !.loaded = {<<i, v1[i]>> : i \in ids}]
  <2>2. v2' = [v2 EXCEPT ![c] = r]
    BY <2>1 DEF PC!Load, PC!IInv, PC!Shape
  <2>3. r.pc = pc /\ r.before = v2[c].before /\ DOMAIN r = DOMAIN v2[c]
    BY <1>0, <1>2 DEF PC!ResumeRead, PC!ResumeEvidenceFails
  <2> HIDE DEF r
  <2>4. v2[c].pc # "idle" /\ v2[c].before = PC!NoPause
    BY <1>2 DEF PC!ResumeRead, PC!ResumeEvidenceFails, PC!IInv, PC!Lifters
  <2>5. GoesOnAs(c, r)
    BY <1>0, <2>0, <2>3, <2>4 DEF GoesOnAs
  <2> QED BY <1>2, <2>2, <2>5, PauseGoesOn DEF PC!ResumeRead, PC!ResumeEvidenceFails
<1>3. CASE PC!ResumeSave(c)
  <2> DEFINE r == [v2[c] EXCEPT !.pc = "resumeRecording", !.exp = "never", !.loaded = {}]
  <2>1. v2' = [v2 EXCEPT ![c] = r]
    BY <1>3 DEF PC!ResumeSave, PC!Goto, PC!IInv, PC!Shape
  <2>2. r.pc = "resumeRecording" /\ r.before = v2[c].before /\ {"pc", "exp", "before", "loaded"} \subseteq DOMAIN r
    BY <1>0, <1>3 DEF PC!ResumeSave
  <2> HIDE DEF r
  <2> QED BY <1>3, <2>1, <2>2, LiftsInv DEF PC!ResumeSave
<1>4. CASE PC!ResumeDone(c) \/ PC!Fault(c)
  <2>1. GoesOnAs(c, PC!Idle)
    BY DEF GoesOnAs
  <2> QED BY <1>4, <2>1, PauseGoesOn DEF PC!ResumeDone, PC!Fault
<1>5. CASE PC!Unresume(c)
  BY <1>5, RestoresInv DEF PC!Unresume
<1>6. CASE PC!Expire(c)
  <2>1. PICK ids : v2' = [v2 EXCEPT ![c] = [pc |-> "expiring", exp |-> "never", before |-> PC!NoPause,
                                           loaded |-> {<<i, v1[i]>> : i \in ids}]]
    BY <1>6 DEF PC!Expire
  <2> DEFINE r == [pc |-> "expiring", exp |-> "never", before |-> PC!NoPause, loaded |-> {<<i, v1[i]>> : i \in ids}]
  <2>2. r.pc = "expiring" /\ r.before = PC!NoPause /\ {"pc", "exp", "before", "loaded"} \subseteq DOMAIN r
    OBVIOUS
  <2>3. UNCHANGED v1 /\ v3' = {} /\ ~v4'
    BY <1>6 DEF PC!Expire
  <2> HIDE DEF r
  <2> QED BY <2>1, <2>2, <2>3, LiftingBeginsInv DEF r
<1>7. CASE PC!ExpireSave(c)
  <2>1. PICK l \in v2[c].loaded :
          /\ PC!Save(l[1], "inactive", l[2].exp)
          /\ IF v2[c].loaded = {l} THEN PC!Return(c) ELSE v2' = [v2 EXCEPT ![c].loaded = @ \ {l}]
    BY <1>7 DEF PC!ExpireSave
  <2> DEFINE r == IF v2[c].loaded = {l} THEN PC!Idle ELSE [v2[c] EXCEPT !.loaded = v2[c].loaded \ {l}]
  <2>2. /\ r.pc \in {"idle", "expiring"}
        /\ r.pc = "idle" \/ (r.before = v2[c].before /\ {"pc", "exp", "before", "loaded"} \subseteq DOMAIN r)
    BY <1>0, <1>7 DEF PC!ExpireSave
  <2> HIDE DEF r
  <2>3. v2[c].pc = "expiring" /\ UNCHANGED <<v3, v4>>
    BY <1>7 DEF PC!ExpireSave
  <2>4. v2' = [v2 EXCEPT ![c] = r]
    <3>1. CASE v2[c].loaded = {l}
      BY <2>1, <3>1 DEF r
    <3>2. CASE v2[c].loaded # {l}
      BY <2>1, <3>2 DEF r, PC!IInv, PC!Shape
    <3> QED BY <3>1, <3>2
  <2> QED BY <2>1, <2>2, <2>3, <2>4, LiftsInv
<1> QED BY <1>1, <1>2, <1>3, <1>4, <1>5, <1>6, <1>7

LEMMA PauseStep ==
  ASSUME PC!IInv, PC!Next
  PROVE  PC!IInv'
  BY PauseExpiryInv, ActivatesInv, AcknowledgeInv, ResumesInv DEF PC!Next

LEMMA PauseStutters ==
  ASSUME PC!IInv, UNCHANGED others
  PROVE  PC!IInv'
  BY DEF others, PC!IInv, PC!Shape, PC!Lifters, PC!NobodyLifts

LEMMA PauseInv == ServicesSpec => [](service = "pauseControl" => PC!IInv)
<1>1. ServicesInit => (service = "pauseControl" => PC!IInv)
  BY PauseInit DEF ServicesInit, OtherInit
<1>2. (service = "pauseControl" => PC!IInv) /\ [ServicesNext]_ServicesVars => (service = "pauseControl" => PC!IInv)'
  <2> SUFFICES ASSUME service' = "pauseControl", service = "pauseControl" => PC!IInv, [ServicesNext]_ServicesVars
               PROVE  PC!IInv'
    OBVIOUS
  <2>1. service = "pauseControl"
    BY ServiceIsFixed
  <2>2. PC!Next \/ UNCHANGED others
    BY <2>1 DEF ServicesNext, OtherNext, ServicesVars
  <2> QED BY <2>1, <2>2, PauseStep, PauseStutters DEF others
<1> QED BY <1>1, <1>2, PTL DEF ServicesSpec

\* activatePause: for any number of pauses and calls, through failing evidence and
\* rollbacks, a pause acknowledged while nobody was lifting one holds until a resume
\* or an expiry begins.
THEOREM PausesHold == ServicesSpec => []AcknowledgedPauseHolds
<1>1. (service = "pauseControl" => PC!IInv) => AcknowledgedPauseHolds
  BY DEF PC!IInv, PC!NobodyLifts, AcknowledgedPauseHolds, PC!AcknowledgedPauseHolds
<1> QED BY <1>1, PauseInv, PTL


HIDE DEF PC!At, PC!Return, PC!Idle, PC!NoPause, PC!Active, PC!Lifting

-----------------------------------------------------------------------------
(* Event projection replay *)

USE DEF ER!At, ER!IsState

LEMMA EmptyIsExact == \A left : ER!ExactBut(ER!Nothing, left) /\ ER!ExactBut(ER!Unpublished, left)
<1>1. Len(<<>>) = 0
  BY EmptySeq
<1> QED BY <1>1 DEF ER!ExactBut, ER!Nothing, ER!Unpublished

\* Skipping more makes nothing less exact.
LEMMA MoreIsSkipped ==
  ASSUME NEW x, NEW left, NEW more, left \subseteq more, ER!ExactBut(x, left)
  PROVE  ER!ExactBut(x, more)
  BY DEF ER!ExactBut

\* Only its sequence and its state make a projection exact.
LEMMA SameIsExact ==
  ASSUME NEW x, NEW y, NEW left, ER!IsState(x), ER!ExactBut(x, left), y.sequence = x.sequence, y.state = x.state
  PROVE  ER!IsState(y) /\ ER!ExactBut(y, left)
  BY DEF ER!ExactBut

\* The next event was applied.
LEMMA AppliedIsExact ==
  ASSUME NEW x, NEW y, NEW left, ER!IsState(x), ER!ExactBut(x, left), NEW e \in Handled,
         e \in Int, e >= 1, e = x.sequence + 1, y.sequence = e, y.state = Append(x.state, e)
  PROVE  ER!IsState(y) /\ ER!ExactBut(y, left)
<1> DEFINE n == Len(x.state)
<1>1. n \in Nat /\ \A k \in 1..n : x.state[k] \in Int
  BY LenProperties, ElementOfSeq
<1>2. /\ y.state \in Seq(Int) /\ Len(y.state) = n + 1
      /\ \A k \in 1..n : y.state[k] = x.state[k]
      /\ y.state[n + 1] = e
  BY AppendProperties
<1>3. \A k \in 1..n : x.state[k] \in Handled /\ x.state[k] \in 1..x.sequence
  BY DEF ER!ExactBut
<1> DEFINE applied == {y.state[k] : k \in 1..Len(y.state)}
<1>4. applied \subseteq Handled \intersect 1..y.sequence
  BY <1>1, <1>2, <1>3
<1>5. (Handled \intersect 1..y.sequence) \ left \subseteq applied
  <2> SUFFICES ASSUME NEW f \in Handled \intersect 1..y.sequence, f \notin left
               PROVE  \E k \in 1..n + 1 : f = y.state[k]
    BY <1>2
  <2>1. CASE f = e
    BY <1>1, <1>2, <2>1
  <2>2. CASE f # e
    <3>1. f \in 1..x.sequence
      BY <2>2
    <3>2. PICK k \in 1..n : f = x.state[k]
      BY <3>1 DEF ER!ExactBut
    <3> QED BY <1>1, <1>2, <3>2
  <2> QED BY <2>1, <2>2
<1>6. \A k, l \in 1..Len(y.state) : k < l => y.state[k] < y.state[l]
  <2> SUFFICES ASSUME NEW k \in 1..n + 1, NEW l \in 1..n + 1, k < l
               PROVE  y.state[k] < y.state[l]
    BY <1>2
  <2>1. k \in 1..n /\ y.state[k] = x.state[k] /\ x.state[k] \in 1..x.sequence
    BY <1>1, <1>2, <1>3
  <2>2. CASE l = n + 1
    BY <1>2, <2>1, <2>2
  <2>3. CASE l # n + 1
    <3>1. l \in 1..n
      BY <1>1, <2>3
    <3> QED BY <1>2, <2>1, <3>1 DEF ER!ExactBut
  <2> QED BY <2>2, <2>3
<1> QED BY <1>2, <1>4, <1>5, <1>6 DEF ER!ExactBut

\* The next event was ignored or skipped.
LEMMA PassedIsExact ==
  ASSUME NEW x, NEW y, NEW left, ER!IsState(x), ER!ExactBut(x, left), NEW e, e \notin Handled \/ e \in left,
         e \in Int, e >= 1, e = x.sequence + 1, y.sequence = e, y.state = x.state
  PROVE  ER!IsState(y) /\ ER!ExactBut(y, left)
<1>1. (Handled \intersect 1..y.sequence) \ left \subseteq (Handled \intersect 1..x.sequence) \ left
  OBVIOUS
<1>2. 1..x.sequence \subseteq 1..y.sequence
  OBVIOUS
<1> QED BY <1>1, <1>2 DEF ER!ExactBut

LEMMA ReplayInit == ER!Init => ER!IInv
<1> SUFFICES ASSUME ER!Init PROVE ER!IInv
  OBVIOUS
<1>1. ER!Shape
  BY EmptySeq DEF ER!Init, ER!Shape, ER!Nothing, ER!Unpublished, ER!Idle
<1>2. ER!RebuildIsExact /\ ER!PublishedIsExact
  BY EmptyIsExact DEF ER!Init, ER!RebuildIsExact, ER!PublishedIsExact, ER!Exact, ER!Idle
<1> QED BY <1>1, <1>2 DEF ER!IInv

\* A rebuild goes on as r; what it may write is exact.
LEMMA RebuildGoesOn ==
  ASSUME ER!IInv, NEW p \in Calls, NEW r, v5' = [v5 EXCEPT ![p] = r], v1' = v1, v6 \subseteq v6',
         r.pc # "idle" => /\ {"pc", "progressed", "sequence", "state", "since"} \subseteq DOMAIN r
                          /\ ER!IsState(r) /\ ER!ExactBut(r, v6'),
         v2' = v2 \/ (ER!IsState(v2') /\ ER!ExactBut(v2', v6')),
         v3' = v3 \/ (ER!IsState(v3') /\ ER!ExactBut(v3', v6')),
         v4' \in {v3, v4}
  PROVE  ER!IInv'
<1> USE DEF ER!IInv
<1>0. v5' = [q \in Calls |-> v5'[q]] /\ v5'[p] = r /\ \A q \in Calls : q # p => v5'[q] = v5[q]
  BY DEF ER!Shape
<1>1. ER!Shape'
  BY <1>0 DEF ER!Shape
<1>2. ER!RebuildIsExact'
  BY <1>0, MoreIsSkipped DEF ER!RebuildIsExact, ER!Exact
<1>3. ER!PublishedIsExact'
  BY MoreIsSkipped DEF ER!PublishedIsExact, ER!Exact
<1> QED BY <1>1, <1>2, <1>3

\* A rebuild ends.
LEMMA StopsInv ==
  ASSUME ER!IInv, NEW p \in Calls, ER!Stop(p), UNCHANGED <<v1, v3, v4, v6>>, v2' \in {v2, ER!Nothing}
  PROVE  ER!IInv'
<1>1. ER!IsState(ER!Nothing) /\ ER!ExactBut(ER!Nothing, v6')
  BY EmptyIsExact, EmptySeq DEF ER!Nothing
<1> QED BY <1>1, RebuildGoesOn DEF ER!Stop, ER!Idle

\* A rebuild starts from nothing or from the checkpoint.
LEMMA BeginInv ==
  ASSUME ER!IInv, NEW p \in Calls, NEW options \in ER!Options, ER!Begin(p, options)
  PROVE  ER!IInv'
<1> DEFINE from == IF options.resume THEN v2 ELSE ER!Nothing
           r == [pc |-> "reading", skip |-> options.skip, dry |-> options.dry, progressed |-> FALSE,
                 sequence |-> from.sequence, state |-> from.state, since |-> 0]
<1>1. ER!IsState(from) /\ ER!ExactBut(from, v6)
  BY EmptyIsExact, EmptySeq DEF ER!IInv, ER!Shape, ER!PublishedIsExact, ER!Exact, ER!Nothing
<1> HIDE DEF from
<1>2. r.sequence = from.sequence /\ r.state = from.state /\ {"pc", "progressed", "sequence", "state", "since"} \subseteq DOMAIN r
  OBVIOUS
<1>3. v5' = [v5 EXCEPT ![p] = r] /\ UNCHANGED <<v1, v2, v3, v4, v6>>
  BY DEF ER!Begin, from
<1> HIDE DEF r
<1>4. ER!IsState(r) /\ ER!ExactBut(r, v6)
  BY <1>1, <1>2, SameIsExact
<1> QED BY <1>2, <1>3, <1>4, RebuildGoesOn

\* A new event is the one after the last, whatever is delivered again.
LEMMA NewIsNext ==
  ASSUME ER!IInv, NEW p \in Calls, NEW e \in 1..v1, ER!IsNew(p, e)
  PROVE  /\ e \in Int /\ e >= 1 /\ e = v5[p].sequence + 1
         /\ {"pc", "progressed", "sequence", "state", "since"} \subseteq DOMAIN v5[p]
         /\ ER!IsState(v5[p]) /\ ER!ExactBut(v5[p], v6)
<1>1. /\ {"pc", "progressed", "sequence", "state", "since"} \subseteq DOMAIN v5[p]
      /\ ER!IsState(v5[p]) /\ ER!ExactBut(v5[p], v6) /\ v1 \in Nat
  BY DEF ER!IInv, ER!IsNew, ER!Shape, ER!RebuildIsExact, ER!Exact
<1> QED BY <1>1 DEF ER!IsNew, ER!Delivered

LEMMA IgnoreInv ==
  ASSUME ER!IInv, NEW p \in Calls, NEW e \in 1..v1, ER!Ignore(p, e)
  PROVE  ER!IInv'
<1> DEFINE r == [v5[p] EXCEPT !.progressed = TRUE, !.sequence = e]
<1>0. ER!IsNew(p, e) /\ e \notin Handled /\ UNCHANGED <<v1, v2, v3, v4, v6>>
  BY DEF ER!Ignore
<1>1. v5' = [v5 EXCEPT ![p] = r]
  BY DEF ER!Ignore, ER!IInv, ER!Shape
<1>2. r.sequence = e /\ r.state = v5[p].state /\ DOMAIN r = DOMAIN v5[p]
  BY <1>0, NewIsNext
<1> HIDE DEF r
<1>3. ER!IsState(r) /\ ER!ExactBut(r, v6)
  BY <1>0, <1>2, NewIsNext, PassedIsExact
<1> QED BY <1>0, <1>1, <1>2, <1>3, NewIsNext, RebuildGoesOn

\* The rebuild has dealt with an event, and its state is exact.
LEMMA AdvanceInv ==
  ASSUME ER!IInv, NEW p \in Calls, NEW e \in 1..v1, ER!IsNew(p, e), NEW state, ER!Advance(p, e, state),
         state \in Seq(Int), ER!ExactBut([sequence |-> e, state |-> state], v6'),
         UNCHANGED <<v1, v2, v3, v4>>, v6 \subseteq v6'
  PROVE  ER!IInv'
<1> DEFINE saves == ~v5[p].dry /\ v5[p].since + 1 >= CheckpointEvery
           r == [v5[p] EXCEPT !.progressed = TRUE, !.sequence = e, !.state = state,
                              !.since = IF saves THEN 0 ELSE @ + 1, !.pc = IF saves THEN "saving" ELSE "reading"]
<1>1. v5' = [v5 EXCEPT ![p] = r]
  BY DEF ER!Advance, ER!IInv, ER!Shape
<1>2. r.sequence = e /\ r.state = state /\ DOMAIN r = DOMAIN v5[p]
  BY NewIsNext
<1> HIDE DEF r
<1>3. e \in Int /\ {"pc", "progressed", "sequence", "state", "since"} \subseteq DOMAIN r
  BY <1>2, NewIsNext
<1>4. ER!IsState(r) /\ ER!ExactBut(r, v6')
  <2> DEFINE x == [sequence |-> e, state |-> state]
  <2>1. ER!IsState(x) /\ x.sequence = e /\ x.state = state /\ ER!ExactBut(x, v6')
    BY <1>3
  <2> HIDE DEF x
  <2> QED BY <1>2, <2>1, SameIsExact
<1> QED BY <1>1, <1>3, <1>4, RebuildGoesOn

LEMMA ApplyEventInv ==
  ASSUME ER!IInv, NEW p \in Calls, NEW e \in 1..v1, ER!Apply(p, e)
  PROVE  ER!IInv'
<1> DEFINE state == Append(v5[p].state, e)
           x == [sequence |-> e, state |-> state]
<1>1. ER!IsNew(p, e) /\ e \in Handled /\ ER!Advance(p, e, state) /\ UNCHANGED <<v1, v2, v3, v4, v6>>
  BY DEF ER!Apply
<1>2. x.sequence = e /\ x.state = state
  OBVIOUS
<1> HIDE DEF x
<1>3. ER!IsState(x) /\ ER!ExactBut(x, v6)
  BY <1>1, <1>2, NewIsNext, AppliedIsExact
<1>4. state \in Seq(Int)
  BY <1>2, <1>3
<1> HIDE DEF state
<1> QED BY <1>1, <1>3, <1>4, AdvanceInv DEF x

LEMMA PoisonSkippedInv ==
  ASSUME ER!IInv, NEW p \in Calls, NEW e \in 1..v1, ER!PoisonSkipped(p, e)
  PROVE  ER!IInv'
<1> DEFINE x == [sequence |-> e, state |-> v5[p].state]
<1>1. ER!IsNew(p, e) /\ ER!Advance(p, e, v5[p].state) /\ UNCHANGED <<v1, v2, v3, v4>> /\ v6' = v6 \union {e}
  BY DEF ER!PoisonSkipped
<1>2. x.sequence = e /\ x.state = v5[p].state
  OBVIOUS
<1> HIDE DEF x
<1>3. ER!ExactBut(v5[p], v6') /\ ER!IsState(v5[p])
  BY <1>1, NewIsNext, MoreIsSkipped
<1>4. ER!ExactBut(x, v6')
  BY <1>1, <1>2, <1>3, NewIsNext, PassedIsExact
<1> QED BY <1>1, <1>3, <1>4, AdvanceInv DEF x

\* What a rebuild has in memory is stored or published.
LEMMA WritesInv ==
  ASSUME ER!IInv, NEW p \in Calls, ~ER!At(p, "idle"), NEW pc, ER!Goto(p, pc), pc # "idle",
         NEW x, x.sequence = v5[p].sequence, x.state = v5[p].state,
         v2' = v2 \/ v2' = x, v3' = v3 \/ v3' = x, v4' \in {v3, v4}, UNCHANGED <<v1, v6>>
  PROVE  ER!IInv'
<1> DEFINE r == [v5[p] EXCEPT !.pc = pc]
<1>1. /\ {"pc", "progressed", "sequence", "state", "since"} \subseteq DOMAIN v5[p]
      /\ ER!IsState(v5[p]) /\ ER!ExactBut(v5[p], v6)
  BY DEF ER!IInv, ER!Shape, ER!RebuildIsExact, ER!Exact
<1>2. v5' = [v5 EXCEPT ![p] = r]
  BY DEF ER!Goto, ER!IInv, ER!Shape
<1>3. r.sequence = v5[p].sequence /\ r.state = v5[p].state /\ DOMAIN r = DOMAIN v5[p]
  BY <1>1
<1> HIDE DEF r
<1>4. /\ ER!IsState(r) /\ ER!ExactBut(r, v6)
      /\ ER!IsState(x) /\ ER!ExactBut(x, v6)
  BY <1>1, <1>3, SameIsExact
<1> QED BY <1>1, <1>2, <1>3, <1>4, RebuildGoesOn

LEMMA ReplayStutters ==
  ASSUME ER!IInv, UNCHANGED others
  PROVE  ER!IInv'
  BY DEF others, ER!IInv, ER!Shape, ER!RebuildIsExact, ER!PublishedIsExact, ER!Exact

LEMMA ReplayStep ==
  ASSUME ER!IInv, ER!Next
  PROVE  ER!IInv'
<1>1. CASE ER!Rollback
  <2>1. ER!IsState(ER!Unpublished) /\ ER!ExactBut(ER!Unpublished, v6)
    BY EmptyIsExact, EmptySeq DEF ER!Unpublished
  <2> QED BY <1>1, <2>1 DEF ER!Rollback, ER!IInv, ER!Shape, ER!RebuildIsExact, ER!PublishedIsExact, ER!Exact
<1>2. CASE ER!Store
  BY <1>2 DEF ER!Store, ER!IInv, ER!Shape, ER!RebuildIsExact, ER!PublishedIsExact, ER!Exact
<1>3. ASSUME NEW p \in Calls, NEW e \in 1..v1, ER!Regression(p, e) \/ ER!PoisonHalts(p, e)
      PROVE  ER!IInv'
  BY <1>3, StopsInv DEF ER!Regression, ER!PoisonHalts
<1>4. ASSUME NEW p \in Calls, ER!EndDryRun(p) \/ ER!ClearCheckpoint(p) \/ ER!Fail(p)
      PROVE  ER!IInv'
  BY <1>4, StopsInv DEF ER!EndDryRun, ER!ClearCheckpoint, ER!Fail
<1>5. ASSUME NEW p \in Calls, ER!SaveCheckpoint(p) \/ ER!Swap(p)
      PROVE  ER!IInv'
  <2> DEFINE x == [sequence |-> v5[p].sequence, state |-> v5[p].state]
  <2>1. x.sequence = v5[p].sequence /\ x.state = v5[p].state
    OBVIOUS
  <2>2. CASE ER!SaveCheckpoint(p)
    <3>1. ~ER!At(p, "idle") /\ ER!Goto(p, "reading") /\ v2' = x /\ v3' = v3 /\ v4' = v4 /\ UNCHANGED <<v1, v6>>
      BY <2>2 DEF ER!SaveCheckpoint
    <3> HIDE DEF x
    <3> QED BY <2>1, <3>1, WritesInv
  <2>3. CASE ER!Swap(p)
    <3>1. ~ER!At(p, "idle") /\ ER!Goto(p, "clearing") /\ v3' = x /\ v2' = v2 /\ v4' \in {v3, v4} /\ UNCHANGED <<v1, v6>>
      BY <2>3 DEF ER!Swap
    <3> HIDE DEF x
    <3> QED BY <2>1, <3>1, WritesInv
  <2> QED BY <1>5, <2>2, <2>3
<1> QED BY <1>1, <1>2, <1>3, <1>4, <1>5, BeginInv, IgnoreInv, ApplyEventInv, PoisonSkippedInv DEF ER!Next

LEMMA ReplayInv == ServicesSpec => [](service = "eventReplay" => ER!IInv)
<1>1. ServicesInit => (service = "eventReplay" => ER!IInv)
  BY ReplayInit DEF ServicesInit, OtherInit
<1>2. (service = "eventReplay" => ER!IInv) /\ [ServicesNext]_ServicesVars => (service = "eventReplay" => ER!IInv)'
  <2> SUFFICES ASSUME service' = "eventReplay", service = "eventReplay" => ER!IInv, [ServicesNext]_ServicesVars
               PROVE  ER!IInv'
    OBVIOUS
  <2>1. service = "eventReplay"
    BY ServiceIsFixed
  <2>2. ER!Next \/ UNCHANGED others
    BY <2>1 DEF ServicesNext, OtherNext, ServicesVars
  <2> QED BY <2>1, <2>2, ReplayStep, ReplayStutters DEF others
<1> QED BY <1>1, <1>2, PTL DEF ServicesSpec

\* rebuild: for every log, every set of handled events, every checkpoint interval and
\* any number of replicas, what is stored and published has every event once.
THEOREM PublishedStaysExact == ServicesSpec => []PublishedIsExact
<1>1. (service = "eventReplay" => ER!IInv) => PublishedIsExact
  BY DEF ER!IInv, PublishedIsExact
<1> QED BY <1>1, ReplayInv, PTL

HIDE DEF ER!At, ER!IsState

-----------------------------------------------------------------------------
(* Sequences: what a journal holds after a step of the job *)

LEMMA SomeIsLeast ==
  ASSUME NEW I, I \subseteq Nat, I # {}
  PROVE  \E i \in I : \A j \in I : i <= j
<1> DEFINE R == OpToRel(<, Nat)
<1>1. IsWellFoundedOn(R, Nat)
  BY NatLessThanWellFounded
<1>2. \A j, k \in Nat : j < k => <<j, k>> \in R
  BY DEF OpToRel
<1> HIDE DEF R
<1>3. PICK i \in I : \A j \in I : ~(<<j, i>> \in R)
  BY <1>1, WFMin
<1>4. \A j \in I : ~(j < i)
  BY <1>2, <1>3
<1> QED BY <1>4

LEMMA RangeOfAppend ==
  ASSUME NEW S, NEW s \in Seq(S), NEW e \in S
  PROVE  /\ Append(s, e) \in Seq(S)
         /\ e \in BJ!Range(Append(s, e))
         /\ BJ!Range(s) \subseteq BJ!Range(Append(s, e))
<1>1. /\ Append(s, e) \in Seq(S) /\ Len(Append(s, e)) = Len(s) + 1 /\ Len(s) \in Nat
      /\ \A i \in 1..Len(s) : Append(s, e)[i] = s[i]
      /\ Append(s, e)[Len(s) + 1] = e
  BY AppendProperties, LenProperties
<1>2. DOMAIN s = 1..Len(s) /\ DOMAIN Append(s, e) = 1..Len(s) + 1
  BY <1>1, LenProperties
<1> QED BY <1>1, <1>2 DEF BJ!Range

LEMMA RangeOfFront ==
  ASSUME NEW S, NEW s \in Seq(S), s # <<>>
  PROVE  /\ BJ!Front(s) \in Seq(S) /\ BJ!Last(s) \in S
         /\ \A r \in BJ!Range(s) : r # BJ!Last(s) => r \in BJ!Range(BJ!Front(s))
<1> DEFINE n == Len(s)
<1>1. n \in Nat /\ n >= 1 /\ DOMAIN s = 1..n /\ \A i \in 1..n : s[i] \in S
  BY EmptySeq, LenProperties, ElementOfSeq
<1>2. /\ SubSeq(s, 1, n - 1) \in Seq(S) /\ Len(SubSeq(s, 1, n - 1)) = n - 1
      /\ \A i \in 1..n - 1 : SubSeq(s, 1, n - 1)[i] = s[i]
  BY <1>1, SubSeqProperties
<1>3. DOMAIN SubSeq(s, 1, n - 1) = 1..n - 1
  BY <1>2, LenProperties
<1>4. \A r \in BJ!Range(s) : r # s[n] => r \in BJ!Range(SubSeq(s, 1, n - 1))
  <2> SUFFICES ASSUME NEW k \in 1..n, s[k] # s[n] PROVE s[k] \in BJ!Range(SubSeq(s, 1, n - 1))
    BY <1>1 DEF BJ!Range
  <2>1. k \in 1..n - 1
    BY <1>1
  <2> QED BY <1>2, <1>3, <2>1 DEF BJ!Range
<1> QED BY <1>1, <1>2, <1>4 DEF BJ!Front, BJ!Last

\* What is left after one element was removed.
Without(s, i) == SubSeq(s, 1, i - 1) \o SubSeq(s, i + 1, Len(s))

LEMMA WithoutOne ==
  ASSUME NEW S, NEW s \in Seq(S), NEW i \in 1..Len(s)
  PROVE  /\ Without(s, i) \in Seq(S) /\ Len(Without(s, i)) = Len(s) - 1
         /\ \A k \in 1..Len(s) - 1 : Without(s, i)[k] = IF k < i THEN s[k] ELSE s[k + 1]
         /\ \A k \in 1..Len(s) : k # i => \E l \in 1..Len(s) - 1 : Without(s, i)[l] = s[k]
<1> DEFINE n == Len(s)
           a == SubSeq(s, 1, i - 1)
           b == SubSeq(s, i + 1, n)
<1>1. n \in Nat /\ DOMAIN s = 1..n /\ \A k \in 1..n : s[k] \in S
  BY LenProperties, ElementOfSeq
<1>2. a \in Seq(S) /\ Len(a) = i - 1 /\ \A k \in 1..i - 1 : a[k] = s[k]
  <2>1. \A k \in 1..i - 1 : s[k] \in S
    BY <1>1
  <2>2. /\ a \in Seq(S) /\ Len(a) = IF 1 <= i - 1 THEN i - 1 - 1 + 1 ELSE 0
        /\ \A k \in 1..i - 1 - 1 + 1 : a[k] = s[1 + k - 1]
    BY <2>1, SubSeqProperties
  <2> QED BY <1>1, <2>2
<1>3. b \in Seq(S) /\ Len(b) = n - i /\ \A k \in 1..n - i : b[k] = s[i + k]
  <2>1. \A k \in i + 1..n : s[k] \in S
    BY <1>1
  <2>2. /\ b \in Seq(S) /\ Len(b) = IF i + 1 <= n THEN n - (i + 1) + 1 ELSE 0
        /\ \A k \in 1..n - (i + 1) + 1 : b[k] = s[i + 1 + k - 1]
    BY <1>1, <2>1, SubSeqProperties
  <2> HIDE DEF b
  <2>3. \A k \in 1..n - i : i + 1 + k - 1 = i + k /\ k \in 1..n - (i + 1) + 1
    BY <1>1
  <2>4. Len(b) = n - i
    <3>1. CASE i + 1 <= n
      <4>1. Len(b) = n - (i + 1) + 1
        BY <2>2, <3>1
      <4>2. n - (i + 1) + 1 = n - i
        BY <1>1
      <4> QED BY <4>1, <4>2
    <3>2. CASE ~(i + 1 <= n)
      <4>1. Len(b) = 0
        BY <2>2, <3>2
      <4>2. n - i = 0
        <5>1. i \in Int /\ i <= n /\ n \in Int
          BY <1>1
        <5> HIDE DEF n
        <5>2. ~(i < n)
          BY <5>1, <3>2
        <5> QED BY <5>1, <5>2
      <4> QED BY <4>1, <4>2
    <3> QED BY <3>1, <3>2
  <2> QED BY <2>2, <2>3, <2>4
<1> HIDE DEF a, b
<1>4. /\ a \o b \in Seq(S) /\ Len(a \o b) = n - 1
      /\ \A k \in 1..n - 1 : (a \o b)[k] = IF k <= i - 1 THEN a[k] ELSE b[k - (i - 1)]
  <2>1. /\ a \o b \in Seq(S) /\ Len(a \o b) = Len(a) + Len(b)
        /\ \A k \in 1..Len(a) + Len(b) : (a \o b)[k] = IF k <= Len(a) THEN a[k] ELSE b[k - Len(a)]
    BY <1>2, <1>3, ConcatProperties
  <2>2. Len(a) = i - 1 /\ Len(a) + Len(b) = n - 1
    <3>1. (i - 1) + (n - i) = n - 1
      BY <1>1
    <3> QED BY <1>2, <1>3, <3>1
  <2> QED BY <2>1, <2>2
<1>5. \A k \in 1..n - 1 : (a \o b)[k] = IF k < i THEN s[k] ELSE s[k + 1]
  <2> SUFFICES ASSUME NEW k \in 1..n - 1 PROVE (a \o b)[k] = IF k < i THEN s[k] ELSE s[k + 1]
    OBVIOUS
  <2>1. CASE k < i
    BY <1>1, <1>2, <1>4, <2>1
  <2>2. CASE ~(k < i)
    <3>1. k - (i - 1) \in 1..n - i /\ i + (k - (i - 1)) = k + 1
      BY <1>1, <2>2
    <3> QED BY <1>1, <1>3, <1>4, <2>2, <3>1
  <2> QED BY <2>1, <2>2
<1>6. \A k \in 1..n : k # i => \E l \in 1..n - 1 : (a \o b)[l] = s[k]
  <2> SUFFICES ASSUME NEW k \in 1..n, k # i PROVE \E l \in 1..n - 1 : (a \o b)[l] = s[k]
    OBVIOUS
  <2>1. CASE k < i
    <3>1. k \in 1..n - 1
      BY <1>1, <2>1
    <3> QED BY <1>5, <2>1, <3>1
  <2>2. CASE k > i
    <3>1. k - 1 \in 1..n - 1 /\ ~(k - 1 < i) /\ (k - 1) + 1 = k
      BY <1>1, <2>2
    <3> QED BY <1>5, <3>1
  <2>3. k < i \/ k > i
    BY <1>1
  <2> QED BY <2>1, <2>2, <2>3
<1>7. Without(s, i) = a \o b
  BY DEF Without, a, b
<1> QED BY <1>4, <1>5, <1>6, <1>7

LEMMA RangeOfRemoveFirst ==
  ASSUME NEW S, NEW s \in Seq(S), NEW e
  PROVE  /\ BJ!RemoveFirst(s, e) \in Seq(S)
         /\ \A r \in BJ!Range(s) : r # e => r \in BJ!Range(BJ!RemoveFirst(s, e))
<1>0. Len(s) \in Nat /\ DOMAIN s = 1..Len(s)
  BY LenProperties
<1>1. CASE \A i \in 1..Len(s) : s[i] # e
  BY <1>1 DEF BJ!RemoveFirst
<1>2. CASE \E i \in 1..Len(s) : s[i] = e
  <2> DEFINE I == {i \in 1..Len(s) : s[i] = e}
             i == BJ!Min(I)
  <2>1. i \in I
    <3>0. I \subseteq Nat /\ I # {}
      BY <1>0, <1>2
    <3>1. \E k \in I : \A j \in I : k <= j
      BY <3>0, SomeIsLeast
    <3> QED BY <3>1 DEF BJ!Min
  <2>2. BJ!RemoveFirst(s, e) = Without(s, i)
    BY <1>2 DEF BJ!RemoveFirst, BJ!SelectInSeq, BJ!RemoveAt, Without
  <2> HIDE DEF i
  <2> DEFINE t == Without(s, i)
  <2>3. /\ t \in Seq(S) /\ Len(t) = Len(s) - 1
        /\ \A k \in 1..Len(s) : k # i => \E l \in 1..Len(s) - 1 : t[l] = s[k]
    BY <2>1, WithoutOne
  <2> HIDE DEF t
  <2>4. DOMAIN t = 1..Len(s) - 1
    BY <2>3, LenProperties
  <2>5. \A r \in BJ!Range(s) : r # e => r \in BJ!Range(t)
    BY <1>0, <2>1, <2>3, <2>4 DEF BJ!Range
  <2> QED BY <2>2, <2>3, <2>5 DEF t
<1> QED BY <1>1, <1>2

LEMMA FunctionIsSeq ==
  ASSUME NEW S, NEW n \in Nat, NEW f \in [1..n -> S]
  PROVE  f \in Seq(S) /\ Len(f) = n
<1>1. f \in Seq(S)
  OBVIOUS
<1> QED BY <1>1, LenProperties

-----------------------------------------------------------------------------
(* Backfill jobs *)

USE DEF BJ!At, BJ!Goto, BJ!Stop, BJ!Idle, BJ!NoFile, BJ!Running, BJ!RollingBack, BJ!Record, BJ!Journaled

LEMMA BackfillInit == BJ!Init => BJ!IInv
  BY DEF BJ!Init, BJ!IInv, BJ!Shape, BJ!PageIsFresh, BJ!AllHold, BJ!Values

\* A page stays fresh while the job writes nothing new.
LEMMA FreshForLess ==
  ASSUME NEW p, NEW V, NEW W, BJ!FreshPage(p, W), V \subseteq W
  PROVE  BJ!FreshPage(p, V)
  BY DEF BJ!FreshPage

\* What is left of a page is fresh even when its first record has been written.
LEMMA TailIsFresh ==
  ASSUME NEW p, NEW W, BJ!FreshPage(p, W), p # <<>>
  PROVE  /\ p[1].id \in BJ!Records
         /\ BJ!FreshPage(Tail(p), W \union {p[1].id})
<1> DEFINE S == [id : BJ!Records, channels : BJ!Values]
           t == Tail(p)
<1>1. p \in Seq(S) /\ Len(p) \in Nat /\ Len(p) >= 1 /\ \A k \in 1..Len(p) : p[k] \in S
  <2>1. p \in Seq(S)
    BY DEF BJ!FreshPage
  <2> HIDE DEF S
  <2>2. Len(p) \in Nat \ {0}
    BY <2>1, EmptySeq
  <2> QED BY <2>1, <2>2, ElementOfSeq
<1>2. t \in Seq(S) /\ Len(t) = Len(p) - 1 /\ \A k \in 1..Len(t) : t[k] = p[k + 1]
  BY <1>1, HeadTailProperties
<1> HIDE DEF t
<1>3. 1 \in 1..Len(p) /\ \A k \in 1..Len(t) : k + 1 \in 1..Len(p) /\ k + 1 # 1
  BY <1>1, <1>2
<1>4. p[1].id \in BJ!Records
  BY <1>1, <1>3
<1>5. \A k, l \in 1..Len(t) : t[k].id = t[l].id => k = l
  <2> SUFFICES ASSUME NEW k \in 1..Len(t), NEW l \in 1..Len(t), t[k].id = t[l].id PROVE k = l
    OBVIOUS
  <2>1. k + 1 = l + 1
    BY <1>2, <1>3 DEF BJ!FreshPage
  <2> QED BY <2>1
<1>6. \A k \in 1..Len(t) : t[k].channels = "null" => t[k].id \notin W \union {p[1].id}
  BY <1>2, <1>3 DEF BJ!FreshPage
<1> QED BY <1>2, <1>4, <1>5, <1>6 DEF BJ!FreshPage, t

\* The process ends, after it has saved a checkpoint or nothing.
LEMMA BackfillStopsInv ==
  ASSUME BJ!IInv, v3' = BJ!Idle, UNCHANGED <<v1, v4, v5>>,
         \/ UNCHANGED v2
         \/ BJ!IsCheckpoint(v2') /\ v2' # BJ!NoFile /\ \A r \in v4 \ v5 : BJ!Journaled(v2', r)
  PROVE  BJ!IInv'
<1>1. BJ!Shape'
  BY DEF BJ!IInv, BJ!Shape, BJ!IsCheckpoint
<1>2. BJ!PageIsFresh'
  BY DEF BJ!PageIsFresh
<1>3. BJ!AllHold'
  BY DEF BJ!IInv, BJ!AllHold, BJ!Holds
<1> QED BY <1>1, <1>2, <1>3 DEF BJ!IInv

\* A checkpoint is a file.
LEMMA CheckpointIsFile ==
  ASSUME NEW c, BJ!IsCheckpoint(c)
  PROVE  c # BJ!NoFile
  BY DEF BJ!IsCheckpoint

\* A run goes on as w: its page is fresh, and both its checkpoints hold what was written.
LEMMA RunsOnInv ==
  ASSUME BJ!IInv, NEW w, v3' = w, UNCHANGED <<v1, v4, v5>>,
         w.pc \in {"scan", "record", "apply", "failing"},
         {"pc", "mem", "committed", "page", "left", "next"} \subseteq DOMAIN w,
         BJ!IsCheckpoint(w.mem), BJ!IsCheckpoint(w.committed), w.next \in 0..Size,
         BJ!FreshPage(w.page, v4 \ v5),
         \A r \in v4 \ v5 : BJ!Journaled(w.mem, r) /\ BJ!Journaled(w.committed, r),
         w.pc = "apply" => /\ w.page # <<>> /\ w.page[1].channels = "null"
                           /\ v2' # BJ!NoFile /\ BJ!Journaled(v2', w.page[1].id)
                           /\ BJ!Journaled(w.mem, w.page[1].id) /\ BJ!Journaled(w.committed, w.page[1].id),
         \/ UNCHANGED v2
         \/ BJ!IsCheckpoint(v2') /\ \A r \in v4 \ v5 : BJ!Journaled(v2', r)
  PROVE  BJ!IInv'
<1>0. BJ!IsCheckpoint(v2') => v2' # BJ!NoFile
  BY CheckpointIsFile
<1>1. BJ!Shape'
  BY DEF BJ!IInv, BJ!Shape, BJ!IsCheckpoint
<1>2. BJ!PageIsFresh'
  BY DEF BJ!PageIsFresh, BJ!FreshPage
<1>3. BJ!AllHold'
  BY <1>0 DEF BJ!IInv, BJ!AllHold, BJ!Holds
<1> QED BY <1>1, <1>2, <1>3 DEF BJ!IInv

-----------------------------------------------------------------------------
LEMMA StartInv ==
  ASSUME BJ!IInv, NEW dry \in BOOLEAN, BJ!Start(dry)
  PROVE  BJ!IInv'
<1> DEFINE mem == IF v2 = BJ!NoFile THEN BJ!Fresh(dry) ELSE [v2 EXCEPT !.status = "running"]
           w == [pc |-> "scan", mem |-> mem, committed |-> mem, page |-> <<>>, left |-> 0, next |-> 0]
<1>1. v3' = w /\ UNCHANGED <<v1, v2, v4, v5>>
  BY DEF BJ!Start
<1>2. BJ!IsCheckpoint(mem) /\ \A r \in v4 \ v5 : BJ!Journaled(mem, r)
  <2>1. CASE v2 = BJ!NoFile
    <3>1. <<>> \in Seq(BJ!Records) /\ 0 \in 0..Size
      BY EmptySeq, ServicesAssumption
    <3> QED BY <2>1, <3>1 DEF BJ!IsCheckpoint, BJ!Fresh, BJ!IInv, BJ!AllHold, BJ!Holds
  <2>2. CASE v2 # BJ!NoFile
    BY <2>2 DEF BJ!IsCheckpoint, BJ!IInv, BJ!Shape, BJ!AllHold, BJ!Holds
  <2> QED BY <2>1, <2>2
<1>3. BJ!FreshPage(<<>>, v4 \ v5)
  <2>1. <<>> \in Seq([id : BJ!Records, channels : BJ!Values]) /\ Len(<<>>) = 0
    BY EmptySeq
  <2> QED BY <2>1 DEF BJ!FreshPage
<1> HIDE DEF mem
<1>4. /\ w.pc = "scan" /\ w.mem = mem /\ w.committed = mem /\ w.page = <<>> /\ w.next = 0
      /\ {"pc", "mem", "committed", "page", "left", "next"} \subseteq DOMAIN w
  OBVIOUS
<1> HIDE DEF w
<1>5. 0 \in 0..Size
  BY ServicesAssumption
<1> QED BY <1>1, <1>2, <1>3, <1>4, <1>5, RunsOnInv

\* A scan reads each record once, and what the job wrote as written.
LEMMA ScanInv ==
  ASSUME BJ!IInv, BJ!Scan
  PROVE  BJ!IInv'
<1> DEFINE first == v3.mem.cursor + 1
           size == IF Batch < Size - first + 1 THEN Batch ELSE Size - first + 1
           page == [k \in 1..size |-> [id |-> first + k - 1, channels |-> v1[first + k - 1]]]
           next == IF size < Batch THEN 0 ELSE first + size - 1
           w == [v3 EXCEPT !.pc = "record", !.page = page, !.next = next]
<1>0. /\ {"pc", "mem", "committed", "page", "left", "next"} \subseteq DOMAIN v3
      /\ BJ!IsCheckpoint(v3.mem) /\ BJ!IsCheckpoint(v3.committed)
      /\ v1 \in [BJ!Records -> BJ!Values]
  BY DEF BJ!Scan, BJ!IInv, BJ!Shape
<1>1. v3' = w /\ UNCHANGED <<v1, v2, v4, v5>>
  BY DEF BJ!Scan
<1>2. /\ w.pc = "record" /\ w.mem = v3.mem /\ w.committed = v3.committed /\ w.page = page /\ w.next = next
      /\ {"pc", "mem", "committed", "page", "left", "next"} \subseteq DOMAIN w
  BY <1>0
<1> HIDE DEF w
<1>3. first \in 1..Size + 1
  BY <1>0, ServicesAssumption DEF BJ!IsCheckpoint
<1> HIDE DEF first
<1>4. size \in Nat /\ first + size - 1 \in 0..Size
  BY <1>3, ServicesAssumption
<1>5. next \in 0..Size
  BY <1>4, ServicesAssumption
<1> HIDE DEF size, next
<1>6. \A k \in 1..size : first + k - 1 \in BJ!Records
  BY <1>3, <1>4, ServicesAssumption DEF BJ!Records
<1>7. \A k \in 1..size : page[k].id = first + k - 1 /\ page[k].channels = v1[first + k - 1]
  OBVIOUS
<1>8. page \in Seq([id : BJ!Records, channels : BJ!Values]) /\ Len(page) = size
  <2>1. page \in [1..size -> [id : BJ!Records, channels : BJ!Values]]
    BY <1>0, <1>6
  <2> HIDE DEF page
  <2> QED BY <1>4, <2>1, FunctionIsSeq
<1> HIDE DEF page
<1>9. BJ!FreshPage(page, v4 \ v5)
  <2>1. \A k, l \in 1..Len(page) : page[k].id = page[l].id => k = l
    BY <1>3, <1>4, <1>7, <1>8
  <2>2. \A k \in 1..Len(page) : page[k].channels = "null" => page[k].id \notin v4 \ v5
    BY <1>7, <1>8 DEF BJ!IInv, BJ!AllHold
  <2> QED BY <1>8, <2>1, <2>2 DEF BJ!FreshPage
<1>10. \A r \in v4 \ v5 : BJ!Journaled(v3.mem, r) /\ BJ!Journaled(v3.committed, r)
  BY DEF BJ!Scan, BJ!IInv, BJ!AllHold, BJ!Holds
<1> QED BY <1>0, <1>1, <1>2, <1>5, <1>9, <1>10, RunsOnInv

LEMMA PassInv ==
  ASSUME BJ!IInv, BJ!Pass
  PROVE  BJ!IInv'
<1> DEFINE w == [v3 EXCEPT !.page = Tail(@)]
<1>0. /\ {"pc", "mem", "committed", "page", "left", "next"} \subseteq DOMAIN v3
      /\ BJ!IsCheckpoint(v3.mem) /\ BJ!IsCheckpoint(v3.committed) /\ v3.next \in 0..Size
      /\ v3.pc = "record" /\ v3.page # <<>> /\ BJ!FreshPage(v3.page, v4 \ v5)
  BY DEF BJ!Pass, BJ!IInv, BJ!Shape, BJ!PageIsFresh
<1>1. v3' = w /\ UNCHANGED <<v1, v2, v4, v5>>
  BY DEF BJ!Pass
<1>2. /\ w.pc = "record" /\ w.mem = v3.mem /\ w.committed = v3.committed /\ w.page = Tail(v3.page) /\ w.next = v3.next
      /\ {"pc", "mem", "committed", "page", "left", "next"} \subseteq DOMAIN w
  BY <1>0
<1> HIDE DEF w
<1>3. BJ!FreshPage(Tail(v3.page), v4 \ v5)
  <2>1. BJ!FreshPage(Tail(v3.page), (v4 \ v5) \union {v3.page[1].id})
    BY <1>0, TailIsFresh
  <2> QED BY <2>1, FreshForLess
<1>4. \A r \in v4 \ v5 : BJ!Journaled(v3.mem, r) /\ BJ!Journaled(v3.committed, r)
  BY <1>0 DEF BJ!IInv, BJ!AllHold, BJ!Holds
<1> QED BY <1>0, <1>1, <1>2, <1>3, <1>4, RunsOnInv

\* The undo of the next record is in every copy of the journal before it is written.
LEMMA JournalInv ==
  ASSUME BJ!IInv, BJ!Journal
  PROVE  BJ!IInv'
<1> DEFINE id == v3.page[1].id
           j == IF BJ!Journaled(v3.mem, id) THEN v3.mem.journal ELSE Append(v3.mem.journal, id)
           mem == [v3.mem EXCEPT !.journal = j]
           w == [v3 EXCEPT !.pc = "apply", !.left = MaxRetries, !.mem = mem, !.committed = mem]
<1>0. /\ {"pc", "mem", "committed", "page", "left", "next"} \subseteq DOMAIN v3
      /\ BJ!IsCheckpoint(v3.mem) /\ v3.next \in 0..Size
      /\ v3.pc = "record" /\ v3.page # <<>> /\ v3.page[1].channels = "null" /\ BJ!FreshPage(v3.page, v4 \ v5)
  BY DEF BJ!Journal, BJ!IInv, BJ!Shape, BJ!PageIsFresh
<1>1. v3' = w /\ v2' = mem /\ UNCHANGED <<v1, v4, v5>>
  BY DEF BJ!Journal
<1>2. /\ w.pc = "apply" /\ w.mem = mem /\ w.committed = mem /\ w.page = v3.page /\ w.next = v3.next
      /\ {"pc", "mem", "committed", "page", "left", "next"} \subseteq DOMAIN w
  BY <1>0
<1> HIDE DEF w
<1>3. id \in BJ!Records
  BY <1>0, TailIsFresh
<1>4. /\ j \in Seq(BJ!Records) /\ id \in BJ!Range(j)
      /\ BJ!Range(v3.mem.journal) \subseteq BJ!Range(j)
  BY <1>0, <1>3, RangeOfAppend DEF BJ!IsCheckpoint
<1> HIDE DEF j, id
<1>5. BJ!IsCheckpoint(mem) /\ mem.journal = j
  BY <1>0, <1>4 DEF BJ!IsCheckpoint
<1> HIDE DEF mem
<1>6. \A r \in v4 \ v5 : BJ!Journaled(v3.mem, r)
  BY <1>0 DEF BJ!IInv, BJ!AllHold, BJ!Holds
<1>7. \A r \in v4 \ v5 : BJ!Journaled(mem, r)
  BY <1>4, <1>5, <1>6
<1>8. mem # BJ!NoFile /\ BJ!Journaled(mem, v3.page[1].id)
  BY <1>4, <1>5, CheckpointIsFile DEF id
<1> QED BY <1>0, <1>1, <1>2, <1>5, <1>7, <1>8, RunsOnInv

\* applyOne writes the record, or fails with or without having done so.
LEMMA AppliesInv ==
  ASSUME BJ!IInv, v3.pc = "apply", NEW w, NEW id, id = v3.page[1].id, v3' = w, UNCHANGED v2,
         {"pc", "mem", "committed", "page", "left", "next"} \subseteq DOMAIN w,
         BJ!IsCheckpoint(w.mem), w.mem.journal = v3.mem.journal, w.committed = v3.committed, w.next = v3.next,
         \/ w.pc = "record" /\ w.page = Tail(v3.page)
         \/ w.pc = "apply" /\ w.page = v3.page /\ v4' \ v5' \subseteq v4 \ v5,
         \/ UNCHANGED <<v1, v4>>
         \/ v1[id] = "null" /\ v1' = [v1 EXCEPT ![id] = "derived"] /\ v4' = v4 \union {id},
         v4' \ v5' \subseteq (v4 \ v5) \union {id}
  PROVE  BJ!IInv'
<1>0. /\ BJ!IsCheckpoint(v3.committed) /\ v3.next \in 0..Size /\ v1 \in [BJ!Records -> BJ!Values]
      /\ v2 = BJ!NoFile \/ BJ!IsCheckpoint(v2)
      /\ v3.page # <<>> /\ v3.page[1].channels = "null" /\ BJ!FreshPage(v3.page, v4 \ v5)
      /\ BJ!Holds(id) /\ \A r \in v4 \ v5 : BJ!Holds(r)
      /\ \A r \in v4 : r \in BJ!Records /\ v1[r] = "derived"
  BY DEF BJ!IInv, BJ!Shape, BJ!PageIsFresh, BJ!AllHold
<1>1. id \in BJ!Records /\ BJ!FreshPage(Tail(v3.page), (v4 \ v5) \union {id})
  BY <1>0, TailIsFresh
<1>2. v1' \in [BJ!Records -> BJ!Values] /\ \A r \in v4' : r \in BJ!Records /\ v1'[r] = "derived"
  BY <1>0, <1>1 DEF BJ!Values
<1>3. BJ!Shape'
  BY <1>0, <1>2 DEF BJ!Shape, BJ!IsCheckpoint
<1>4. BJ!FreshPage(w.page, v4' \ v5')
  <2>1. CASE w.page = Tail(v3.page)
    BY <1>1, <2>1, FreshForLess
  <2>2. CASE w.page = v3.page /\ v4' \ v5' \subseteq v4 \ v5
    BY <1>0, <2>2, FreshForLess
  <2> QED BY <2>1, <2>2
<1>5. BJ!PageIsFresh'
  BY <1>4 DEF BJ!PageIsFresh, BJ!FreshPage
<1>6. \A r : BJ!Holds(r) => BJ!Holds(r)'
  BY DEF BJ!Holds
<1>7. BJ!AllHold'
  BY <1>0, <1>2, <1>6 DEF BJ!AllHold
<1> QED BY <1>3, <1>5, <1>7 DEF BJ!IInv

LEMMA ApplyInv ==
  ASSUME BJ!IInv, BJ!Apply
  PROVE  BJ!IInv'
<1> DEFINE mem == [v3.mem EXCEPT !.applied = TRUE]
           w == [v3 EXCEPT !.pc = "record", !.page = Tail(@), !.mem = mem]
<1>0. /\ {"pc", "mem", "committed", "page", "left", "next"} \subseteq DOMAIN v3
      /\ BJ!IsCheckpoint(v3.mem) /\ v3.pc = "apply"
  BY DEF BJ!Apply, BJ!IInv, BJ!Shape
<1>1. v3' = w
  BY <1>0 DEF BJ!Apply
<1>2. BJ!IsCheckpoint(mem) /\ mem.journal = v3.mem.journal
  BY <1>0 DEF BJ!IsCheckpoint
<1> HIDE DEF mem
<1>3. /\ w.pc = "record" /\ w.page = Tail(v3.page) /\ w.mem = mem /\ w.committed = v3.committed /\ w.next = v3.next
      /\ {"pc", "mem", "committed", "page", "left", "next"} \subseteq DOMAIN w
  BY <1>0
<1> HIDE DEF w
<1>4. /\ UNCHANGED v2 /\ v1[v3.page[1].id] = "null" /\ v1' = [v1 EXCEPT ![v3.page[1].id] = "derived"]
      /\ v4' = v4 \union {v3.page[1].id} /\ v4' \ v5' \subseteq (v4 \ v5) \union {v3.page[1].id}
  BY DEF BJ!Apply
<1> QED BY <1>0, <1>1, <1>2, <1>3, <1>4, AppliesInv

\* Only the undo of the record that somebody else has written goes.
LEMMA ApplyConflictInv ==
  ASSUME BJ!IInv, BJ!ApplyConflict
  PROVE  BJ!IInv'
<1> DEFINE id == v3.page[1].id
           j == BJ!RemoveFirst(v3.mem.journal, id)
           mem == [v3.mem EXCEPT !.journal = j]
           w == [v3 EXCEPT !.pc = "record", !.page = Tail(@), !.mem = mem]
<1>0. /\ {"pc", "mem", "committed", "page", "left", "next"} \subseteq DOMAIN v3
      /\ BJ!IsCheckpoint(v3.mem) /\ BJ!IsCheckpoint(v3.committed) /\ v3.next \in 0..Size
      /\ v3.pc = "apply" /\ v3.page # <<>> /\ v3.page[1].channels = "null" /\ BJ!FreshPage(v3.page, v4 \ v5)
  BY DEF BJ!ApplyConflict, BJ!IInv, BJ!Shape, BJ!PageIsFresh, BJ!AllHold
<1>1. v3' = w /\ UNCHANGED <<v1, v2, v4, v5>>
  BY <1>0 DEF BJ!ApplyConflict
<1>2. /\ w.pc = "record" /\ w.mem = mem /\ w.committed = v3.committed /\ w.page = Tail(v3.page) /\ w.next = v3.next
      /\ {"pc", "mem", "committed", "page", "left", "next"} \subseteq DOMAIN w
  BY <1>0
<1> HIDE DEF w
<1>3. j \in Seq(BJ!Records) /\ \A r \in BJ!Range(v3.mem.journal) : r # id => r \in BJ!Range(j)
  BY <1>0, RangeOfRemoveFirst DEF BJ!IsCheckpoint
<1>4. id \notin v4 \ v5
  <2>1. Len(v3.page) \in Nat \ {0}
    BY <1>0, EmptySeq DEF BJ!FreshPage
  <2>2. 1 \in 1..Len(v3.page)
    BY <2>1
  <2> QED BY <1>0, <2>2 DEF BJ!FreshPage
<1>5. BJ!FreshPage(Tail(v3.page), v4 \ v5)
  <2>1. BJ!FreshPage(Tail(v3.page), (v4 \ v5) \union {id})
    BY <1>0, TailIsFresh
  <2> QED BY <2>1, FreshForLess
<1> HIDE DEF j, id
<1>6. BJ!IsCheckpoint(mem) /\ mem.journal = j
  BY <1>0, <1>3 DEF BJ!IsCheckpoint
<1> HIDE DEF mem
<1>7. \A r \in v4 \ v5 : BJ!Journaled(v3.mem, r) /\ BJ!Journaled(v3.committed, r)
  BY <1>0 DEF BJ!IInv, BJ!AllHold, BJ!Holds
<1>8. \A r \in v4 \ v5 : BJ!Journaled(mem, r)
  BY <1>3, <1>4, <1>6, <1>7
<1> QED BY <1>0, <1>1, <1>2, <1>5, <1>6, <1>7, <1>8, RunsOnInv

LEMMA ApplyFailsInv ==
  ASSUME BJ!IInv, NEW done \in BOOLEAN, BJ!ApplyFails(done)
  PROVE  BJ!IInv'
<1> DEFINE w == v3'
           id == v3.page[1].id
<1>0. /\ {"pc", "mem", "committed", "page", "left", "next"} \subseteq DOMAIN v3
      /\ BJ!IsCheckpoint(v3.mem) /\ v3.pc = "apply"
  BY DEF BJ!ApplyFails, BJ!IInv, BJ!Shape
<1>1. /\ {"pc", "mem", "committed", "page", "left", "next"} \subseteq DOMAIN w
      /\ w.mem = v3.mem /\ w.committed = v3.committed /\ w.next = v3.next
      /\ (w.pc = "record" /\ w.page = Tail(v3.page)) \/ (w.pc = "apply" /\ w.page = v3.page)
  <2>1. v3' = IF v3.left = 0 THEN [v3 EXCEPT !.pc = "record", !.page = Tail(@)] ELSE [v3 EXCEPT !.left = @ - 1]
    BY DEF BJ!ApplyFails
  <2>2. CASE v3.left = 0
    BY <1>0, <2>1, <2>2
  <2>3. CASE v3.left # 0
    BY <1>0, <2>1, <2>3
  <2> QED BY <2>2, <2>3
<1>2. /\ UNCHANGED v2 /\ v4' \ v5' \subseteq v4 \ v5
      /\ \/ UNCHANGED <<v1, v4>>
         \/ v1[id] = "null" /\ v1' = [v1 EXCEPT ![id] = "derived"] /\ v4' = v4 \union {id}
  BY DEF BJ!ApplyFails
<1>3. v4' \ v5' \subseteq (v4 \ v5) \union {id}
  BY <1>2
<1> QED BY <1>0, <1>1, <1>2, <1>3, AppliesInv

LEMMA EndBatchInv ==
  ASSUME BJ!IInv, BJ!EndBatch
  PROVE  BJ!IInv'
<1> DEFINE mem == [v3.mem EXCEPT !.cursor = v3.next, !.status = IF v3.next = 0 THEN "completed" ELSE @]
           w == [v3 EXCEPT !.pc = "scan", !.mem = mem, !.committed = mem]
<1>0. /\ {"pc", "mem", "committed", "page", "left", "next"} \subseteq DOMAIN v3
      /\ BJ!IsCheckpoint(v3.mem) /\ v3.next \in 0..Size
      /\ v3.pc = "record" /\ BJ!FreshPage(v3.page, v4 \ v5)
  BY DEF BJ!EndBatch, BJ!IInv, BJ!Shape, BJ!PageIsFresh
<1>1. v3' = (IF v3.next = 0 THEN BJ!Idle ELSE w) /\ v2' = mem /\ UNCHANGED <<v1, v4, v5>>
  BY DEF BJ!EndBatch
<1>2. /\ w.pc = "scan" /\ w.mem = mem /\ w.committed = mem /\ w.page = v3.page /\ w.next = v3.next
      /\ {"pc", "mem", "committed", "page", "left", "next"} \subseteq DOMAIN w
  BY <1>0
<1> HIDE DEF w
<1>3. BJ!IsCheckpoint(mem) /\ mem.journal = v3.mem.journal
  BY <1>0 DEF BJ!IsCheckpoint
<1> HIDE DEF mem
<1>4. \A r \in v4 \ v5 : BJ!Journaled(mem, r)
  BY <1>0, <1>3 DEF BJ!IInv, BJ!AllHold, BJ!Holds
<1>5. CASE v3.next = 0
  BY <1>1, <1>3, <1>4, <1>5, BackfillStopsInv, CheckpointIsFile
<1>6. CASE v3.next # 0
  BY <1>0, <1>1, <1>2, <1>3, <1>4, <1>6, RunsOnInv
<1> QED BY <1>5, <1>6

LEMMA RunThrowsInv ==
  ASSUME BJ!IInv, BJ!RunThrows
  PROVE  BJ!IInv'
<1> DEFINE w == [v3 EXCEPT !.pc = "failing"]
<1>0. /\ {"pc", "mem", "committed", "page", "left", "next"} \subseteq DOMAIN v3
      /\ BJ!IsCheckpoint(v3.mem) /\ BJ!IsCheckpoint(v3.committed) /\ v3.next \in 0..Size
      /\ v3.pc \in {"scan", "record"} /\ BJ!FreshPage(v3.page, v4 \ v5)
  BY DEF BJ!RunThrows, BJ!IInv, BJ!Shape, BJ!PageIsFresh
<1>1. v3' = w /\ UNCHANGED <<v1, v2, v4, v5>>
  BY DEF BJ!RunThrows
<1>2. /\ w.pc = "failing" /\ w.mem = v3.mem /\ w.committed = v3.committed /\ w.page = v3.page /\ w.next = v3.next
      /\ {"pc", "mem", "committed", "page", "left", "next"} \subseteq DOMAIN w
  BY <1>0
<1> HIDE DEF w
<1>3. \A r \in v4 \ v5 : BJ!Journaled(v3.mem, r) /\ BJ!Journaled(v3.committed, r)
  BY <1>0 DEF BJ!IInv, BJ!AllHold, BJ!Holds
<1> QED BY <1>0, <1>1, <1>2, <1>3, RunsOnInv

LEMMA SaveFailedInv ==
  ASSUME BJ!IInv, BJ!SaveFailed
  PROVE  BJ!IInv'
<1> DEFINE mem == [v3.committed EXCEPT !.status = "failed"]
<1>0. v3.pc = "failing" /\ BJ!IsCheckpoint(v3.committed) /\ v3' = BJ!Idle /\ UNCHANGED <<v1, v4, v5>>
  BY DEF BJ!SaveFailed, BJ!IInv, BJ!Shape
<1>1. BJ!IsCheckpoint(mem) /\ mem.journal = v3.committed.journal
  BY <1>0 DEF BJ!IsCheckpoint
<1>2. v2' = mem \/ UNCHANGED v2
  BY DEF BJ!SaveFailed
<1> HIDE DEF mem
<1>3. \A r \in v4 \ v5 : BJ!Journaled(mem, r)
  BY <1>0, <1>1 DEF BJ!IInv, BJ!AllHold, BJ!Holds
<1> QED BY <1>0, <1>1, <1>2, <1>3, BackfillStopsInv, CheckpointIsFile

\* A rollback goes on with the journal of w.
LEMMA RollsBackInv ==
  ASSUME BJ!IInv, NEW w, v3' = w, w.pc \in {"restore", "shorten"}, {"pc", "mem"} \subseteq DOMAIN w,
         BJ!IsCheckpoint(w.mem), UNCHANGED v5,
         v4' \subseteq v4, v1' \in [BJ!Records -> BJ!Values], \A r \in v4' : v1'[r] = v1[r],
         v2' = v2 \/ v2' = w.mem,
         \A r \in v4' \ v5 : BJ!Journaled(w.mem, r)
  PROVE  BJ!IInv'
<1>0. BJ!IsCheckpoint(w.mem) => w.mem # BJ!NoFile
  BY CheckpointIsFile
<1>1. BJ!Shape'
  BY DEF BJ!IInv, BJ!Shape, BJ!IsCheckpoint
<1>2. BJ!PageIsFresh'
  BY DEF BJ!PageIsFresh
<1>3. BJ!AllHold'
  BY <1>0 DEF BJ!IInv, BJ!AllHold, BJ!Holds
<1> QED BY <1>1, <1>2, <1>3 DEF BJ!IInv

LEMMA RollbackInv ==
  ASSUME BJ!IInv, BJ!Rollback
  PROVE  BJ!IInv'
<1> DEFINE w == [pc |-> "restore", mem |-> v2]
<1>0. v3' = w /\ v2 # BJ!NoFile /\ BJ!IsCheckpoint(v2) /\ UNCHANGED <<v1, v2, v4, v5>>
  BY DEF BJ!Rollback, BJ!IInv, BJ!Shape
<1>1. w.pc = "restore" /\ w.mem = v2 /\ {"pc", "mem"} \subseteq DOMAIN w
  OBVIOUS
<1> HIDE DEF w
<1>2. v1 \in [BJ!Records -> BJ!Values] /\ \A r \in v4 \ v5 : BJ!Journaled(v2, r)
  BY DEF BJ!IInv, BJ!Shape, BJ!AllHold, BJ!Holds
<1> QED BY <1>0, <1>1, <1>2, RollsBackInv

\* The record that leaves the journal has just been restored.
LEMMA RestoreInv ==
  ASSUME BJ!IInv, BJ!Restore
  PROVE  BJ!IInv'
<1> DEFINE j == v3.mem.journal
           r == BJ!Last(j)
           mem == [v3.mem EXCEPT !.journal = BJ!Front(j)]
           w == [v3 EXCEPT !.pc = "shorten", !.mem = mem]
<1>0. /\ v3.pc = "restore" /\ {"pc", "mem"} \subseteq DOMAIN v3 /\ BJ!IsCheckpoint(v3.mem)
      /\ v1 \in [BJ!Records -> BJ!Values] /\ j # <<>>
  BY DEF BJ!Restore, BJ!IInv, BJ!Shape
<1>1. /\ v3' = w /\ UNCHANGED <<v2, v5>> /\ v1' = IF v1[r] = "derived" THEN [v1 EXCEPT ![r] = "null"] ELSE v1
      /\ v4' = IF v1[r] = "derived" THEN v4 \ {r} ELSE v4
  BY <1>0 DEF BJ!Restore, BJ!Undo
<1>2. /\ BJ!Front(j) \in Seq(BJ!Records) /\ r \in BJ!Records
      /\ \A q \in BJ!Range(j) : q # r => q \in BJ!Range(BJ!Front(j))
  BY <1>0, RangeOfFront DEF BJ!IsCheckpoint
<1>3. BJ!IsCheckpoint(mem) /\ mem.journal = BJ!Front(j)
  BY <1>0, <1>2 DEF BJ!IsCheckpoint
<1> HIDE DEF mem
<1>4. w.pc = "shorten" /\ w.mem = mem /\ {"pc", "mem"} \subseteq DOMAIN w
  BY <1>0
<1> HIDE DEF w
<1>5. /\ \A q \in v4 : v1[q] = "derived"
      /\ \A q \in v4 \ v5 : q \in BJ!Range(j)
  BY <1>0 DEF BJ!IInv, BJ!AllHold, BJ!Holds
<1> HIDE DEF j, r
<1>6. v4' \subseteq v4 /\ r \notin v4'
  BY <1>1, <1>5
<1>7. v1' \in [BJ!Records -> BJ!Values] /\ \A q \in BJ!Records : q # r => v1'[q] = v1[q]
  BY <1>0, <1>1, <1>2 DEF BJ!Values
<1>8. \A q \in v4' \ v5 : BJ!Journaled(mem, q)
  BY <1>2, <1>3, <1>5, <1>6
<1>9. \A q \in v4' : v1'[q] = v1[q]
  BY <1>6, <1>7 DEF BJ!IInv, BJ!AllHold
<1> QED BY <1>1, <1>3, <1>4, <1>6, <1>7, <1>8, <1>9, RollsBackInv

\* A restore that throws leaves the journal as it was, whatever it has done.
LEMMA RestoreThrowsInv ==
  ASSUME BJ!IInv, NEW done \in BOOLEAN, BJ!RestoreThrows(done)
  PROVE  BJ!IInv'
<1> DEFINE r == BJ!Last(v3.mem.journal)
<1>0. v3' = BJ!Idle /\ UNCHANGED <<v2, v5>>
  BY DEF BJ!RestoreThrows, BJ!Stop
<1>1. CASE UNCHANGED <<v1, v4>>
  BY <1>0, <1>1, BackfillStopsInv
<1>2. CASE v1[r] = "derived" /\ v1' = [v1 EXCEPT ![r] = "null"] /\ v4' = v4 \ {r}
  <2> HIDE DEF r
  <2>1. v1' \in [BJ!Records -> BJ!Values] /\ \A q \in v4' : v1'[q] = v1[q]
    BY <1>2 DEF BJ!IInv, BJ!Shape, BJ!AllHold, BJ!Values
  <2>2. BJ!Shape' /\ BJ!PageIsFresh'
    BY <1>0, <2>1 DEF BJ!IInv, BJ!Shape, BJ!PageIsFresh, BJ!IsCheckpoint, BJ!Idle
  <2>3. BJ!AllHold'
    BY <1>0, <1>2, <2>1 DEF BJ!IInv, BJ!AllHold, BJ!Holds, BJ!Idle
  <2> QED BY <2>2, <2>3 DEF BJ!IInv
<1> QED BY <1>1, <1>2 DEF BJ!RestoreThrows, BJ!Undo

LEMMA SaveShortenedInv ==
  ASSUME BJ!IInv, BJ!SaveShortened
  PROVE  BJ!IInv'
<1> DEFINE w == [v3 EXCEPT !.pc = "restore"]
<1>0. /\ v3.pc = "shorten" /\ {"pc", "mem"} \subseteq DOMAIN v3 /\ BJ!IsCheckpoint(v3.mem)
      /\ v1 \in [BJ!Records -> BJ!Values] /\ v3' = w /\ v2' = v3.mem /\ UNCHANGED <<v1, v4, v5>>
      /\ \A r \in v4 \ v5 : BJ!Journaled(v3.mem, r)
  BY DEF BJ!SaveShortened, BJ!IInv, BJ!Shape, BJ!AllHold, BJ!Holds
<1>1. w.pc = "restore" /\ w.mem = v3.mem /\ {"pc", "mem"} \subseteq DOMAIN w
  BY <1>0
<1> HIDE DEF w
<1> QED BY <1>0, <1>1, RollsBackInv

LEMMA SaveRolledBackInv ==
  ASSUME BJ!IInv, BJ!SaveRolledBack
  PROVE  BJ!IInv'
<1> DEFINE mem == [v3.mem EXCEPT !.status = "rolled_back", !.applied = FALSE]
<1>0. v3.pc = "restore" /\ BJ!IsCheckpoint(v3.mem) /\ v3' = BJ!Idle /\ v2' = mem /\ UNCHANGED <<v1, v4, v5>>
  BY DEF BJ!SaveRolledBack, BJ!IInv, BJ!Shape
<1>1. BJ!IsCheckpoint(mem) /\ mem.journal = v3.mem.journal
  BY <1>0 DEF BJ!IsCheckpoint
<1> HIDE DEF mem
<1>2. \A r \in v4 \ v5 : BJ!Journaled(mem, r)
  BY <1>0, <1>1 DEF BJ!IInv, BJ!AllHold, BJ!Holds
<1> QED BY <1>0, <1>1, <1>2, BackfillStopsInv, CheckpointIsFile

\* What --restart drops has nothing in its journal, or the operator gave it up.
LEMMA RestartInv ==
  ASSUME BJ!IInv, NEW force \in BOOLEAN, BJ!Restart(force)
  PROVE  BJ!IInv'
<1>0. v3.pc = "idle" /\ v2' = BJ!NoFile /\ UNCHANGED <<v1, v3, v5>> /\ v4' \subseteq v4
  BY DEF BJ!Restart
<1>1. v4' \ v5 = {}
  <2>1. CASE force
    BY <2>1 DEF BJ!Restart
  <2>2. CASE ~force
    <3>1. v2.journal = <<>> /\ v4' = v4
      BY <2>2 DEF BJ!Restart
    <3>2. \A r \in v4 \ v5 : r \in BJ!Range(<<>>)
      BY <3>1 DEF BJ!IInv, BJ!AllHold, BJ!Holds
    <3>3. BJ!Range(<<>>) = {}
      BY DEF BJ!Range
    <3> QED BY <3>1, <3>2, <3>3
  <2> QED BY <2>1, <2>2
<1>2. BJ!Shape'
  BY <1>0 DEF BJ!IInv, BJ!Shape
<1>3. BJ!PageIsFresh'
  BY <1>0 DEF BJ!PageIsFresh
<1>4. BJ!AllHold'
  BY <1>0, <1>1 DEF BJ!IInv, BJ!AllHold
<1> QED BY <1>2, <1>3, <1>4 DEF BJ!IInv

\* What the API writes is no longer the job's.
LEMMA EditInv ==
  ASSUME BJ!IInv, NEW r \in BJ!Records, NEW v \in {"derived", "other"}, BJ!Edit(r, v)
  PROVE  BJ!IInv'
<1>1. BJ!Shape'
  BY DEF BJ!Edit, BJ!IInv, BJ!Shape, BJ!Values, BJ!IsCheckpoint
<1>2. BJ!PageIsFresh'
  BY DEF BJ!Edit, BJ!IInv, BJ!PageIsFresh, BJ!FreshPage
<1>3. BJ!AllHold'
  <2>1. \A q : BJ!Holds(q) => BJ!Holds(q)'
    BY DEF BJ!Edit, BJ!Holds
  <2>2. \A q \in v4' : q \in v4 /\ q \in BJ!Records /\ v1'[q] = v1[q]
    BY DEF BJ!Edit, BJ!IInv, BJ!Shape, BJ!AllHold
  <2> QED BY <2>1, <2>2 DEF BJ!Edit, BJ!IInv, BJ!AllHold
<1> QED BY <1>1, <1>2, <1>3 DEF BJ!IInv

LEMMA BackfillStep ==
  ASSUME BJ!IInv, BJ!Next
  PROVE  BJ!IInv'
<1>1. CASE \E b \in BOOLEAN : BJ!Start(b) \/ BJ!ApplyFails(b) \/ BJ!RestoreThrows(b) \/ BJ!Restart(b)
  BY <1>1, StartInv, ApplyFailsInv, RestoreThrowsInv, RestartInv
<1>2. CASE BJ!Scan \/ BJ!Pass \/ BJ!Journal \/ BJ!Apply \/ BJ!ApplyConflict \/ BJ!EndBatch \/ BJ!RunThrows \/ BJ!SaveFailed
  BY <1>2, ScanInv, PassInv, JournalInv, ApplyInv, ApplyConflictInv, EndBatchInv, RunThrowsInv, SaveFailedInv
<1>3. CASE BJ!Rollback \/ BJ!Restore \/ BJ!SaveShortened \/ BJ!SaveRolledBack
  BY <1>3, RollbackInv, RestoreInv, SaveShortenedInv, SaveRolledBackInv
<1>4. CASE BJ!RollbackThrows \/ BJ!Crash
  <2>1. v3' = BJ!Idle /\ UNCHANGED <<v1, v2, v4, v5>>
    BY <1>4 DEF BJ!RollbackThrows, BJ!Crash
  <2> QED BY <2>1, BackfillStopsInv
<1>5. CASE \E r \in BJ!Records, v \in {"derived", "other"} : BJ!Edit(r, v)
  BY <1>5, EditInv
<1> QED BY <1>1, <1>2, <1>3, <1>4, <1>5 DEF BJ!Next

LEMMA BackfillStutters ==
  ASSUME BJ!IInv, UNCHANGED others
  PROVE  BJ!IInv'
  BY DEF others, BJ!IInv, BJ!Shape, BJ!PageIsFresh, BJ!FreshPage, BJ!AllHold, BJ!Holds, BJ!IsCheckpoint

LEMMA BackfillInv == ServicesSpec => [](service = "backfillJob" => BJ!IInv)
<1>1. ServicesInit => (service = "backfillJob" => BJ!IInv)
  BY BackfillInit DEF ServicesInit, OtherInit
<1>2. (service = "backfillJob" => BJ!IInv) /\ [ServicesNext]_ServicesVars => (service = "backfillJob" => BJ!IInv)'
  <2> SUFFICES ASSUME service' = "backfillJob", service = "backfillJob" => BJ!IInv, [ServicesNext]_ServicesVars
               PROVE  BJ!IInv'
    OBVIOUS
  <2>1. service = "backfillJob"
    BY ServiceIsFixed
  <2>2. BJ!Next \/ UNCHANGED others
    BY <2>1 DEF ServicesNext, OtherNext, ServicesVars
  <2> QED BY <2>1, <2>2, BackfillStep, BackfillStutters DEF others
<1> QED BY <1>1, <1>2, PTL DEF ServicesSpec

\* run, rollback: for tables, batches and retry budgets of any size, whatever is
\* edited meanwhile and wherever a run or a rollback ends early, a record that holds
\* what the job wrote is in the stored journal.
THEOREM AppliedStaysUndoable == ServicesSpec => []AppliedIsUndoable
<1>1. (service = "backfillJob" => BJ!IInv) => AppliedIsUndoable
  BY DEF BJ!IInv, BJ!AllHold, BJ!Holds, AppliedIsUndoable, BJ!AppliedIsUndoable
<1> QED BY <1>1, BackfillInv, PTL

HIDE DEF BJ!At, BJ!Goto, BJ!Stop, BJ!Idle, BJ!NoFile, BJ!Running, BJ!RollingBack, BJ!Record, BJ!Journaled

-----------------------------------------------------------------------------
(* Domain event dead letters *)

USE DEF ED!Idle, ED!Return, ED!IsPending

LEMMA DeadLettersInit == ED!Init => ED!IInv
<1> SUFFICES ASSUME ED!Init PROVE ED!IInv
  OBVIOUS
<1>1. v1 = <<>> /\ <<>> \in Seq(ED!Entry) /\ Len(<<>>) = 0
  BY EmptySeq DEF ED!Init
<1> QED BY <1>1, ServicesAssumption DEF ED!Init, ED!IInv, ED!Shape, ED!IdsAreUnique, ED!ReplaysAgree, ED!Kept

\* A call starts, ends or goes on as R.
LEMMA CallIsSound ==
  ASSUME ED!Shape, NEW c \in Calls, NEW R, v3' = [v3 EXCEPT ![c] = R], R.pc # "idle" => R.event \in Events
  PROVE  /\ v3' = [d \in Calls |-> v3'[d]]
         /\ \A d \in Calls : v3'[d].pc # "idle" => v3'[d].event \in Events
         /\ v3'[c] = R /\ \A d \in Calls : d # c => v3'[d] = v3[d]
<1>1. v3 = [d \in Calls |-> v3[d]]
  BY DEF ED!Shape
<1>2. v3' = [d \in Calls |-> IF d = c THEN R ELSE v3[d]]
  BY <1>1
<1> QED BY <1>2 DEF ED!Shape

\* Steps that leave the store alone.
LEMMA StoreStaysInv ==
  ASSUME ED!IInv, NEW c \in Calls, NEW R, v3' = [v3 EXCEPT ![c] = R],
         R.pc # "idle" => R.event \in Events,
         R.pc = "replaying" => /\ R.id \in Nat /\ R.id < v4
                               /\ \A n \in 1..Len(v1) : v1[n].id = R.id => v1[n].event = R.event,
         UNCHANGED <<v1, v4, v7>>, v6 \subseteq v6',
         \A ev \in v5' \ v5 : ED!PendingIn(ev, v1)
  PROVE  ED!IInv'
<1>1. /\ v3' = [d \in Calls |-> v3'[d]]
      /\ \A d \in Calls : v3'[d].pc # "idle" => v3'[d].event \in Events
      /\ v3'[c] = R /\ \A d \in Calls : d # c => v3'[d] = v3[d]
  BY CallIsSound DEF ED!IInv
<1>2. ED!Shape' /\ ED!IdsAreUnique'
  BY <1>1 DEF ED!IInv, ED!Shape, ED!IdsAreUnique
<1>3. ED!ReplaysAgree'
  BY <1>1 DEF ED!IInv, ED!ReplaysAgree
<1>4. ED!Kept'
  BY DEF ED!IInv, ED!Kept, ED!PendingIn
<1> QED BY <1>2, <1>3, <1>4 DEF ED!IInv

\* An entry of ev is settled, after which ev is handled or excused.
LEMMA SettledInv ==
  ASSUME ED!IInv, NEW id, NEW s \in {"replayed", "discarded"}, NEW ev, v1' = ED!SetStatus(id, s),
         \A n \in 1..Len(v1) : v1[n].id = id => v1[n].event = ev,
         UNCHANGED v3 \/ \E c \in Calls : ED!Return(c),
         UNCHANGED <<v4, v5>>, v6 \subseteq v6', v7 \subseteq v7', ev \in v6' \union v7'
  PROVE  ED!IInv'
<1>0. v1 \in Seq(ED!Entry) /\ Len(v1) \in Nat /\ DOMAIN v1 = 1..Len(v1) /\ \A n \in 1..Len(v1) : v1[n] \in ED!Entry
  <2>1. v1 \in Seq(ED!Entry)
    BY DEF ED!IInv, ED!Shape
  <2> QED BY <2>1, LenProperties, ElementOfSeq
<1>1. v1' = [n \in 1..Len(v1) |-> IF v1[n].id = id THEN [v1[n] EXCEPT !.status = s] ELSE v1[n]]
  BY <1>0 DEF ED!SetStatus
<1>2. \A n \in 1..Len(v1) :
        /\ v1'[n] \in ED!Entry /\ v1'[n].id = v1[n].id /\ v1'[n].event = v1[n].event
        /\ v1[n].id # id => v1'[n] = v1[n]
  <2> SUFFICES ASSUME NEW n \in 1..Len(v1)
               PROVE  /\ v1'[n] \in ED!Entry /\ v1'[n].id = v1[n].id /\ v1'[n].event = v1[n].event
                      /\ v1[n].id # id => v1'[n] = v1[n]
    OBVIOUS
  <2>1. v1'[n] = IF v1[n].id = id THEN [v1[n] EXCEPT !.status = s] ELSE v1[n]
    BY <1>1
  <2>2. v1[n] \in ED!Entry
    BY <1>0
  <2> QED BY <2>1, <2>2 DEF ED!Entry
<1>3. v1' \in Seq(ED!Entry) /\ Len(v1') = Len(v1)
  <2>1. v1' \in [1..Len(v1) -> ED!Entry]
    BY <1>1, <1>2
  <2> QED BY <1>0, <2>1, FunctionIsSeq
<1>4. /\ v3' = [d \in Calls |-> v3'[d]]
      /\ \A d \in Calls : v3'[d].pc # "idle" => v3'[d] = v3[d]
  BY DEF ED!IInv, ED!Shape
<1>5. ED!Shape'
  BY <1>3, <1>4 DEF ED!IInv, ED!Shape
<1>6. ED!IdsAreUnique'
  BY <1>2, <1>3 DEF ED!IInv, ED!IdsAreUnique
<1>7. ED!ReplaysAgree'
  BY <1>2, <1>3, <1>4 DEF ED!IInv, ED!ReplaysAgree
<1>8. ED!Kept'
  <2> SUFFICES ASSUME NEW e \in v5' \ (v6' \union v7') PROVE ED!PendingIn(e, v1')
    BY DEF ED!Kept, ED!PendingIn
  <2>1. PICK n \in 1..Len(v1) : v1[n].event = e /\ v1[n].status = "pending"
    BY DEF ED!IInv, ED!Kept, ED!PendingIn
  <2>2. v1'[n] = v1[n]
    BY <1>2, <2>1
  <2> QED BY <1>3, <2>1, <2>2 DEF ED!PendingIn
<1> QED BY <1>3, <1>5, <1>6, <1>7, <1>8 DEF ED!IInv

\* findByEventAndHandler finds an entry of the event.
LEMMA FoundIsMatching ==
  ASSUME ED!Shape, NEW ev, ED!Matching(ev) # {}
  PROVE  \E n \in 1..Len(v1) : ED!Found(ev) = v1[n] /\ v1[n].event = ev
<1>0. Len(v1) \in Nat /\ DOMAIN v1 = 1..Len(v1)
  BY LenProperties DEF ED!Shape
<1> DEFINE I == ED!Matching(ev)
<1>1. I \subseteq Nat /\ I \subseteq 1..Len(v1) /\ \A n \in I : v1[n].event = ev
  BY <1>0 DEF ED!Matching
<1> HIDE DEF I
<1>2. \E i \in I : \A j \in I : i <= j
  BY <1>1, SomeIsLeast DEF I
<1>3. ED!Min(I) \in I
  BY <1>2 DEF ED!Min
<1> QED BY <1>1, <1>3 DEF ED!Found, I

LEMMA DeliveredInv ==
  ASSUME ED!IInv, NEW c \in Calls, ED!Delivered(c)
  PROVE  ED!IInv'
<1> DEFINE ev == v3[c].event
<1>0. /\ v3' = [v3 EXCEPT ![c] = [pc |-> "idle"]] /\ v6' = v6 \union {ev} /\ UNCHANGED <<v4, v5, v7>>
      /\ v1' = IF ED!AlreadyPending(ev) THEN ED!SetStatus(ED!Found(ev).id, "replayed") ELSE v1
  BY DEF ED!Delivered
<1>1. CASE ED!AlreadyPending(ev)
  <2>1. PICK n \in 1..Len(v1) : ED!Found(ev) = v1[n] /\ v1[n].event = ev
    BY <1>1, FoundIsMatching DEF ED!IInv, ED!AlreadyPending
  <2>2. \A m \in 1..Len(v1) : v1[m].id = v1[n].id => v1[m].event = ev
    BY <2>1 DEF ED!IInv, ED!IdsAreUnique
  <2>3. v1' = ED!SetStatus(v1[n].id, "replayed")
    BY <1>0, <1>1, <2>1
  <2>4. v6 \subseteq v6' /\ v7 \subseteq v7' /\ ev \in v6' \union v7' /\ ED!Return(c)
    BY <1>0
  <2> HIDE DEF ev
  <2> QED BY <1>0, <2>2, <2>3, <2>4, SettledInv
<1>2. CASE ~ED!AlreadyPending(ev)
  <2>1. [pc |-> "idle"].pc = "idle"
    OBVIOUS
  <2> QED BY <1>0, <1>2, <2>1, StoreStaysInv
<1> QED BY <1>1, <1>2

LEMMA FailedAgainInv ==
  ASSUME ED!IInv, NEW c \in Calls, ED!FailedAgain(c)
  PROVE  ED!IInv'
<1> DEFINE ev == v3[c].event
<1>0. /\ v3' = [v3 EXCEPT ![c] = [pc |-> "idle"]] /\ v5' = v5 \union {ev} /\ UNCHANGED <<v1, v4, v6, v7>>
      /\ ED!AlreadyPending(ev)
  BY DEF ED!FailedAgain
<1>1. PICK n \in 1..Len(v1) : ED!Found(ev) = v1[n] /\ v1[n].event = ev
  BY <1>0, FoundIsMatching DEF ED!IInv, ED!AlreadyPending
<1>2. ED!PendingIn(ev, v1)
  BY <1>0, <1>1 DEF ED!PendingIn, ED!AlreadyPending
<1>3. [pc |-> "idle"].pc = "idle"
  OBVIOUS
<1> QED BY <1>0, <1>2, <1>3, StoreStaysInv

LEMMA DispatchInv ==
  ASSUME ED!IInv, NEW c \in Calls, NEW ev \in Events, ED!Dispatch(c, ev)
  PROVE  ED!IInv'
<1> DEFINE R == [pc |-> "dispatching", event |-> ev]
<1>0. v3' = [v3 EXCEPT ![c] = R] /\ UNCHANGED <<v1, v4, v5, v6, v7>>
  BY DEF ED!Dispatch
<1>1. R.pc = "dispatching" /\ R.event = ev
  OBVIOUS
<1> HIDE DEF R
<1> QED BY <1>0, <1>1, StoreStaysInv

LEMMA ReplayDeadLetterInv ==
  ASSUME ED!IInv, NEW c \in Calls, ED!Replay(c)
  PROVE  ED!IInv'
<1>0. v1 \in Seq(ED!Entry) /\ Len(v1) \in Nat /\ DOMAIN v1 = 1..Len(v1)
  BY LenProperties DEF ED!IInv, ED!Shape
<1>1. PICK n \in 1..Len(v1) : v3' = [v3 EXCEPT ![c] = [pc |-> "replaying", event |-> v1[n].event, id |-> v1[n].id]]
  BY <1>0 DEF ED!Replay, ED!Store, ED!ToSet
<1> DEFINE R == [pc |-> "replaying", event |-> v1[n].event, id |-> v1[n].id]
<1>2. R.pc = "replaying" /\ R.event = v1[n].event /\ R.id = v1[n].id
  OBVIOUS
<1>3. v3' = [v3 EXCEPT ![c] = R] /\ UNCHANGED <<v1, v4, v5, v6, v7>>
  BY <1>1 DEF ED!Replay
<1> HIDE DEF R
<1>4. v1[n] \in ED!Entry
  BY <1>0, ElementOfSeq
<1>5. R.event \in Events /\ R.id \in Nat /\ R.id < v4
  BY <1>2, <1>4 DEF ED!Entry, ED!IInv, ED!IdsAreUnique
<1>6. \A m \in 1..Len(v1) : v1[m].id = R.id => v1[m].event = R.event
  BY <1>2 DEF ED!IInv, ED!IdsAreUnique
<1> QED BY <1>3, <1>5, <1>6, StoreStaysInv

LEMMA ReplayedInv ==
  ASSUME ED!IInv, NEW c \in Calls, ED!Replayed(c)
  PROVE  ED!IInv'
<1>1. \A n \in 1..Len(v1) : v1[n].id = v3[c].id => v1[n].event = v3[c].event
  BY DEF ED!Replayed, ED!IInv, ED!ReplaysAgree
<1>2. /\ v1' = ED!SetStatus(v3[c].id, "replayed") /\ ED!Return(c) /\ UNCHANGED <<v4, v5, v7>>
      /\ v6 \subseteq v6' /\ v7 \subseteq v7' /\ v3[c].event \in v6' \union v7'
  BY DEF ED!Replayed
<1> QED BY <1>1, <1>2, SettledInv

LEMMA DiscardInv ==
  ASSUME ED!IInv, ED!Discard
  PROVE  ED!IInv'
<1>0. Len(v1) \in Nat /\ DOMAIN v1 = 1..Len(v1)
  BY LenProperties DEF ED!IInv, ED!Shape
<1>1. PICK n \in 1..Len(v1) : v1' = ED!SetStatus(v1[n].id, "discarded") /\ v7' = v7 \union {v1[n].event}
  BY <1>0 DEF ED!Discard, ED!Store, ED!ToSet
<1>2. \A m \in 1..Len(v1) : v1[m].id = v1[n].id => v1[m].event = v1[n].event
  BY DEF ED!IInv, ED!IdsAreUnique
<1>3. UNCHANGED <<v3, v4, v5, v6>>
  BY DEF ED!Discard
<1> QED BY <1>1, <1>2, <1>3, SettledInv

\* trim removes one entry: a settled one, or there is none.
LEMMA TrimRemovesOne ==
  ASSUME NEW es \in Seq(ED!Entry), es # <<>>
  PROVE  \E i \in 1..Len(es) :
           /\ ED!Trim(es) \in Seq(ED!Entry) /\ Len(ED!Trim(es)) = Len(es) - 1
           /\ \A k \in 1..Len(es) - 1 : ED!Trim(es)[k] = IF k < i THEN es[k] ELSE es[k + 1]
           /\ \A k \in 1..Len(es) : k # i => \E l \in 1..Len(es) - 1 : ED!Trim(es)[l] = es[k]
           /\ es[i].status # "pending" \/ \A n \in 1..Len(es) : es[n].status = "pending"
<1>0. Len(es) \in Nat \ {0} /\ DOMAIN es = 1..Len(es)
  BY EmptySeq, LenProperties
<1>1. CASE \E n \in 1..Len(es) : es[n].status # "pending"
  <2> DEFINE I == {n \in 1..Len(es) : es[n].status # "pending"}
             i == ED!Min(I)
  <2>1. i \in I
    <3>0. I \subseteq Nat /\ I # {}
      BY <1>0, <1>1
    <3>1. \E k \in I : \A j \in I : k <= j
      BY <3>0, SomeIsLeast
    <3> QED BY <3>1 DEF ED!Min
  <2>2. ED!Trim(es) = Without(es, i)
    BY <1>0, <1>1 DEF ED!Trim, ED!RemoveAt, Without
  <2>3. i \in 1..Len(es) /\ es[i].status # "pending"
    BY <2>1
  <2> HIDE DEF i
  <2>4. /\ Without(es, i) \in Seq(ED!Entry) /\ Len(Without(es, i)) = Len(es) - 1
        /\ \A k \in 1..Len(es) - 1 : Without(es, i)[k] = IF k < i THEN es[k] ELSE es[k + 1]
        /\ \A k \in 1..Len(es) : k # i => \E l \in 1..Len(es) - 1 : Without(es, i)[l] = es[k]
    BY <2>3, WithoutOne
  <2> QED BY <2>2, <2>3, <2>4
<1>2. CASE \A n \in 1..Len(es) : es[n].status = "pending"
  <2>1. ED!Trim(es) = Tail(es)
    BY <1>0, <1>2 DEF ED!Trim
  <2>2. Tail(es) \in Seq(ED!Entry) /\ Len(Tail(es)) = Len(es) - 1 /\ \A k \in 1..Len(es) - 1 : Tail(es)[k] = es[k + 1]
    BY HeadTailProperties
  <2>3. 1 \in 1..Len(es) /\ \A k \in 1..Len(es) - 1 : ~(k < 1)
    BY <1>0
  <2>4. \A k \in 1..Len(es) : k # 1 => \E l \in 1..Len(es) - 1 : Tail(es)[l] = es[k]
    <3> SUFFICES ASSUME NEW k \in 1..Len(es), k # 1 PROVE \E l \in 1..Len(es) - 1 : Tail(es)[l] = es[k]
      OBVIOUS
    <3>1. k - 1 \in 1..Len(es) - 1 /\ (k - 1) + 1 = k
      BY <1>0
    <3> QED BY <2>2, <3>1
  <2> QED BY <1>2, <2>1, <2>2, <2>3, <2>4
<1> QED BY <1>1, <1>2

\* What recordDeadLetter drops was settled, or everything was pending and it is excused.
LEMMA RecordDeadLetterInv ==
  ASSUME ED!IInv, NEW c \in Calls, ED!RecordDeadLetter(c)
  PROVE  ED!IInv'
<1> DEFINE ev    == v3[c].event
           e     == [id |-> v4, event |-> ev, status |-> "pending"]
           added == Append(v1, e)
           kept  == IF Len(added) > MaxEntries THEN ED!Trim(added) ELSE added
           full  == \A n \in DOMAIN added : added[n].status = "pending"
           gone  == IF full THEN {x.event : x \in ED!ToSet(added) \ ED!ToSet(kept)} ELSE {}
<1>0. /\ v3' = [v3 EXCEPT ![c] = [pc |-> "idle"]] /\ v1' = kept /\ v4' = v4 + 1 /\ v5' = v5 \union {ev}
      /\ v6' = v6 /\ v7' = (v7 \ {ev}) \union gone /\ v3[c].pc = "dispatching"
  BY DEF ED!RecordDeadLetter
<1>1. ev \in Events /\ v4 \in Nat /\ v1 \in Seq(ED!Entry) /\ Len(v1) \in Nat /\ Len(v1) <= MaxEntries
  BY <1>0, LenProperties DEF ED!IInv, ED!Shape
<1>2. e \in ED!Entry /\ e.id = v4 /\ e.event = ev /\ e.status = "pending"
  BY <1>1 DEF ED!Entry
<1> HIDE DEF e
<1>3. /\ added \in Seq(ED!Entry) /\ Len(added) = Len(v1) + 1 /\ added[Len(v1) + 1] = e
      /\ \A n \in 1..Len(v1) : added[n] = v1[n]
  BY <1>1, <1>2, AppendProperties
<1>4. DOMAIN added = 1..Len(v1) + 1
  BY <1>3, LenProperties
<1> HIDE DEF added
<1>5. \A n \in 1..Len(v1) + 1 : added[n].id \in Nat /\ added[n].id < v4 + 1
  <2> SUFFICES ASSUME NEW n \in 1..Len(v1) + 1 PROVE added[n].id \in Nat /\ added[n].id < v4 + 1
    OBVIOUS
  <2>1. CASE n = Len(v1) + 1
    BY <1>1, <1>2, <1>3, <2>1
  <2>2. CASE n # Len(v1) + 1
    <3>1. n \in 1..Len(v1)
      BY <1>1, <2>2
    <3>2. v1[n] \in ED!Entry
      BY <1>1, <3>1, ElementOfSeq
    <3>3. v1[n].id \in Nat /\ v1[n].id < v4
      BY <3>1, <3>2 DEF ED!Entry, ED!IInv, ED!IdsAreUnique
    <3> QED BY <1>1, <1>3, <3>1, <3>3
  <2> QED BY <2>1, <2>2
<1>6. \A m, n \in 1..Len(v1) + 1 : added[m].id = added[n].id => m = n
  <2>1. \A n \in 1..Len(v1) : v1[n].id # v4
    <3> SUFFICES ASSUME NEW n \in 1..Len(v1), v1[n].id = v4 PROVE FALSE
      OBVIOUS
    <3>1. v4 < v4
      BY DEF ED!IInv, ED!IdsAreUnique
    <3> QED BY <1>1, <3>1
  <2>2. \A n \in 1..Len(v1) + 1 : n = Len(v1) + 1 \/ n \in 1..Len(v1)
    BY <1>1
  <2>3. \A m, n \in 1..Len(v1) : v1[m].id = v1[n].id => m = n
    BY DEF ED!IInv, ED!IdsAreUnique
  <2> QED BY <1>2, <1>3, <2>1, <2>2, <2>3
\* Each kept entry was there, in the same order; at most i is dropped.
<1>7. \E i \in 1..Len(v1) + 2 :
        /\ kept \in Seq(ED!Entry) /\ Len(kept) <= MaxEntries /\ Len(kept) \in Nat
        /\ \A k \in 1..Len(kept) : /\ (IF k < i THEN k ELSE k + 1) \in 1..Len(v1) + 1
                                   /\ kept[k] = added[IF k < i THEN k ELSE k + 1]
        /\ \A k \in 1..Len(v1) + 1 : k # i => \E l \in 1..Len(kept) : kept[l] = added[k]
        /\ i \in 1..Len(v1) + 1 => added[i].status # "pending" \/ full
  <2>1. CASE Len(added) > MaxEntries
    <3>1. added # <<>>
      BY <1>1, <1>3, EmptySeq
    <3>2. PICK i \in 1..Len(added) :
            /\ ED!Trim(added) \in Seq(ED!Entry) /\ Len(ED!Trim(added)) = Len(added) - 1
            /\ \A k \in 1..Len(added) - 1 : ED!Trim(added)[k] = IF k < i THEN added[k] ELSE added[k + 1]
            /\ \A k \in 1..Len(added) : k # i => \E l \in 1..Len(added) - 1 : ED!Trim(added)[l] = added[k]
            /\ added[i].status # "pending" \/ \A n \in 1..Len(added) : added[n].status = "pending"
      BY <1>3, <3>1, TrimRemovesOne
    <3>3. kept = ED!Trim(added)
      BY <2>1
    <3>4. Len(kept) = Len(v1) /\ kept \in Seq(ED!Entry)
      BY <1>1, <1>3, <3>2, <3>3
    <3>5. i \in 1..Len(v1) + 2 /\ Len(added) - 1 = Len(v1)
      BY <1>1, <1>3
    <3>6. \A k \in 1..Len(v1) : (IF k < i THEN k ELSE k + 1) \in 1..Len(v1) + 1
      BY <1>1
    <3>7. \A k \in 1..Len(v1) : kept[k] = added[IF k < i THEN k ELSE k + 1]
      BY <3>2, <3>3, <3>5
    <3>8. \A k \in 1..Len(v1) + 1 : k # i => \E l \in 1..Len(v1) : kept[l] = added[k]
      BY <1>3, <3>2, <3>3, <3>5
    <3>9. added[i].status # "pending" \/ full
      BY <1>3, <1>4, <3>2
    <3> QED BY <1>1, <3>4, <3>5, <3>6, <3>7, <3>8, <3>9
  <2>2. CASE ~(Len(added) > MaxEntries)
    <3>1. kept = added /\ Len(kept) = Len(v1) + 1 /\ Len(kept) <= MaxEntries /\ Len(kept) \in Nat /\ kept \in Seq(ED!Entry)
      BY <1>1, <1>3, <2>2, ServicesAssumption
    <3>2. Len(v1) + 2 \in 1..Len(v1) + 2 /\ \A k \in 1..Len(v1) + 1 : k < Len(v1) + 2
      BY <1>1
    <3>3. Len(v1) + 2 \notin 1..Len(v1) + 1
      BY <1>1
    <3> QED BY <3>1, <3>2, <3>3
  <2> QED BY <2>1, <2>2
<1>8. PICK i \in 1..Len(v1) + 2 :
        /\ kept \in Seq(ED!Entry) /\ Len(kept) <= MaxEntries /\ Len(kept) \in Nat
        /\ \A k \in 1..Len(kept) : /\ (IF k < i THEN k ELSE k + 1) \in 1..Len(v1) + 1
                                   /\ kept[k] = added[IF k < i THEN k ELSE k + 1]
        /\ \A k \in 1..Len(v1) + 1 : k # i => \E l \in 1..Len(kept) : kept[l] = added[k]
        /\ i \in 1..Len(v1) + 1 => added[i].status # "pending" \/ full
  BY <1>7
<1>9. DOMAIN kept = 1..Len(kept)
  BY <1>8, LenProperties
<1>10. i \in 1..Len(v1) + 1 => added[i] \notin ED!ToSet(kept)
  <2> SUFFICES ASSUME i \in 1..Len(v1) + 1, NEW k \in 1..Len(kept), kept[k] = added[i] PROVE FALSE
    BY <1>9 DEF ED!ToSet
  <2> DEFINE m == IF k < i THEN k ELSE k + 1
  <2>1. m \in 1..Len(v1) + 1 /\ kept[k] = added[m]
    BY <1>8
  <2>2. m # i
    BY <1>1, <1>8
  <2> HIDE DEF m
  <2> QED BY <1>6, <2>1, <2>2
<1> HIDE DEF kept, full
<1>11. \A x \in v5' \ (v6' \union v7') : ED!PendingIn(x, kept)
  <2> SUFFICES ASSUME NEW x \in v5' \ (v6' \union v7') PROVE ED!PendingIn(x, kept)
    OBVIOUS
  <2>1. PICK n \in 1..Len(v1) + 1 : added[n].event = x /\ added[n].status = "pending"
    <3>1. CASE x = ev
      <4>1. Len(v1) + 1 \in 1..Len(v1) + 1
        BY <1>1
      <4> QED BY <1>2, <1>3, <3>1, <4>1
    <3>2. CASE x # ev
      <4>1. x \in v5 \ (v6 \union v7)
        BY <1>0, <3>2
      <4>2. PICK n \in 1..Len(v1) : v1[n].event = x /\ v1[n].status = "pending"
        BY <4>1 DEF ED!IInv, ED!Kept, ED!PendingIn
      <4>3. n \in 1..Len(v1) + 1
        BY <1>1
      <4> QED BY <1>3, <4>2, <4>3
    <3> QED BY <3>1, <3>2
  <2>2. n # i
    <3> SUFFICES ASSUME n = i PROVE FALSE
      OBVIOUS
    <3>1. full
      BY <1>8, <2>1
    <3>2. added[n] \in ED!ToSet(added) \ ED!ToSet(kept)
      BY <1>4, <1>10 DEF ED!ToSet
    <3>3. x \in gone
      BY <2>1, <3>1, <3>2
    <3> QED BY <1>0, <3>3
  <2>3. PICK l \in 1..Len(kept) : kept[l] = added[n]
    BY <1>8, <2>2
  <2> QED BY <2>1, <2>3 DEF ED!PendingIn
<1> HIDE DEF gone
<1>12. [pc |-> "idle"].pc = "idle"
  OBVIOUS
<1>13. /\ v3' = [d \in Calls |-> v3'[d]]
       /\ \A d \in Calls : v3'[d].pc # "idle" => v3'[d].event \in Events
       /\ v3'[c] = [pc |-> "idle"] /\ \A d \in Calls : d # c => v3'[d] = v3[d]
  BY <1>0, <1>12, CallIsSound DEF ED!IInv
<1>14. ED!Shape'
  BY <1>0, <1>1, <1>8, <1>13 DEF ED!Shape
<1>15. ED!IdsAreUnique'
  <2>1. \A m, n \in 1..Len(kept) : kept[m].id = kept[n].id => m = n
    <3> SUFFICES ASSUME NEW m \in 1..Len(kept), NEW n \in 1..Len(kept), kept[m].id = kept[n].id PROVE m = n
      OBVIOUS
    <3> DEFINE p == IF m < i THEN m ELSE m + 1
               q == IF n < i THEN n ELSE n + 1
    <3>1. p \in 1..Len(v1) + 1 /\ kept[m] = added[p] /\ q \in 1..Len(v1) + 1 /\ kept[n] = added[q]
      BY <1>8
    <3>2. p = q => m = n
      BY <1>1, <1>8
    <3> HIDE DEF p, q
    <3> QED BY <1>6, <3>1, <3>2
  <2>2. \A n \in 1..Len(kept) : kept[n].id < v4 + 1
    BY <1>5, <1>8
  <2> QED BY <1>0, <2>1, <2>2 DEF ED!IdsAreUnique
<1>16. ED!ReplaysAgree'
  <2> SUFFICES ASSUME NEW d \in Calls, v3'[d].pc = "replaying"
               PROVE  /\ v3'[d].id \in Nat /\ v3'[d].id < v4'
                      /\ \A n \in 1..Len(v1') : v1'[n].id = v3'[d].id => v1'[n].event = v3'[d].event
    BY DEF ED!ReplaysAgree
  <2>1. v3'[d] = v3[d]
    BY <1>12, <1>13
  <2>2. /\ v3[d].id \in Nat /\ v3[d].id < v4
        /\ \A n \in 1..Len(v1) : v1[n].id = v3[d].id => v1[n].event = v3[d].event
    BY <2>1 DEF ED!IInv, ED!ReplaysAgree
  <2>3. v3[d].id # v4 /\ v3[d].id < v4 + 1
    BY <1>1, <2>2
  <2>4. \A n \in 1..Len(v1) + 1 : added[n].id = v3[d].id => added[n].event = v3[d].event
    <3>1. \A n \in 1..Len(v1) + 1 : n = Len(v1) + 1 \/ n \in 1..Len(v1)
      BY <1>1
    <3> QED BY <1>2, <1>3, <2>2, <2>3, <3>1
  <2>5. \A n \in 1..Len(kept) : kept[n].id = v3[d].id => kept[n].event = v3[d].event
    BY <1>8, <2>4
  <2> QED BY <1>0, <2>1, <2>2, <2>3, <2>5
<1>17. ED!Kept'
  BY <1>0, <1>11 DEF ED!Kept, ED!PendingIn
<1> QED BY <1>0, <1>8, <1>14, <1>15, <1>16, <1>17 DEF ED!IInv

LEMMA DeadLettersStep ==
  ASSUME ED!IInv, ED!Next
  PROVE  ED!IInv'
<1>1. CASE ED!ToggleHandler
  BY <1>1 DEF ED!ToggleHandler, ED!IInv, ED!Shape, ED!IdsAreUnique, ED!ReplaysAgree, ED!Kept, ED!PendingIn
<1>2. ASSUME NEW c \in Calls, ED!ReplayFailed(c) PROVE ED!IInv'
  <2>1. [pc |-> "idle"].pc = "idle"
    OBVIOUS
  <2>2. v3' = [v3 EXCEPT ![c] = [pc |-> "idle"]] /\ UNCHANGED <<v1, v4, v5, v6, v7>>
    BY <1>2 DEF ED!ReplayFailed
  <2> QED BY <2>1, <2>2, StoreStaysInv
<1> QED BY <1>1, <1>2, DiscardInv, DispatchInv, DeliveredInv, FailedAgainInv, RecordDeadLetterInv, ReplayDeadLetterInv, ReplayedInv
        DEF ED!Next

LEMMA DeadLettersStutter ==
  ASSUME ED!IInv, UNCHANGED others
  PROVE  ED!IInv'
  BY DEF others, ED!IInv, ED!Shape, ED!IdsAreUnique, ED!ReplaysAgree, ED!Kept, ED!PendingIn

LEMMA DeadLettersInv == ServicesSpec => [](service = "eventDeadLetters" => ED!IInv)
<1>1. ServicesInit => (service = "eventDeadLetters" => ED!IInv)
  BY DeadLettersInit DEF ServicesInit, OtherInit
<1>2. (service = "eventDeadLetters" => ED!IInv) /\ [ServicesNext]_ServicesVars => (service = "eventDeadLetters" => ED!IInv)'
  <2> SUFFICES ASSUME service' = "eventDeadLetters", service = "eventDeadLetters" => ED!IInv, [ServicesNext]_ServicesVars
               PROVE  ED!IInv'
    OBVIOUS
  <2>1. service = "eventDeadLetters"
    BY ServiceIsFixed
  <2>2. ED!Next \/ UNCHANGED others
    BY <2>1 DEF ServicesNext, OtherNext, ServicesVars
  <2> QED BY <2>1, <2>2, DeadLettersStep, DeadLettersStutter DEF others
<1> QED BY <1>1, <1>2, PTL DEF ServicesSpec

\* dispatch, replay, trim: for any number of events, calls and entries, with a store
\* of any size, an event that failed and was never accepted stays pending in it.
THEOREM FailuresStayKept == ServicesSpec => []FailureIsKept
<1>1. ASSUME service = "eventDeadLetters" => ED!IInv PROVE FailureIsKept
  <2> SUFFICES ASSUME service = "eventDeadLetters" PROVE ED!FailureIsKept
    BY DEF FailureIsKept
  <2>1. Len(v1) \in Nat /\ DOMAIN v1 = 1..Len(v1)
    BY <1>1, LenProperties DEF ED!IInv, ED!Shape
  <2> QED BY <1>1, <2>1 DEF ED!IInv, ED!Kept, ED!PendingIn, ED!FailureIsKept, ED!Store, ED!ToSet
<1> QED BY <1>1, DeadLettersInv, PTL

HIDE DEF ED!Idle, ED!Return, ED!IsPending

-----------------------------------------------------------------------------
(* Trade lock *)

USE DEF TL!Trading

LEMMA TradersAreCounted == \A S : TL!Cardinality(S) = Cardinality(S)
  BY DEF TL!Cardinality, Cardinality

LEMMA RequestGoesOn ==
  ASSUME TL!Shape, NEW r \in Requests, NEW pc \in {"waiting", "trading"}, NEW k \in Keys,
         v3' = [v3 EXCEPT ![r] = [pc |-> pc, key |-> k]]
  PROVE  /\ v3' = [q \in Requests |-> v3'[q]]
         /\ v3'[r].pc = pc /\ v3'[r].key = k /\ {"pc", "key"} \subseteq DOMAIN v3'[r]
         /\ \A q \in Requests : q # r => v3'[q] = v3[q]
<1>1. v3 = [q \in Requests |-> v3[q]]
  BY DEF TL!Shape
<1> DEFINE R == [pc |-> pc, key |-> k]
<1>2. R.pc = pc /\ R.key = k /\ {"pc", "key"} \subseteq DOMAIN R
  OBVIOUS
<1> HIDE DEF R
<1>3. v3' = [q \in Requests |-> IF q = r THEN R ELSE v3[q]]
  BY <1>1 DEF R
<1> QED BY <1>2, <1>3

LEMMA TradeLockInit == TL!Init => TL!IInv
<1> SUFFICES ASSUME TL!Init PROVE TL!IInv
  OBVIOUS
<1>1. TL!Shape
  BY EmptySeq DEF TL!Init, TL!Shape
<1>2. TL!OneHolder
  BY EmptySeq DEF TL!Init, TL!OneHolder
<1> QED BY <1>1, <1>2 DEF TL!Init, TL!IInv, TL!Accounted

LEMMA TradeAtOnceInv ==
  ASSUME TL!IInv, NEW r \in Requests, NEW k \in Keys, TL!TradeAtOnce(r, k)
  PROVE  TL!IInv'
<1> SUFFICES ASSUME ~v7 PROVE TL!IInv'
  BY DEF TL!TradeAtOnce, TL!IInv
<1>1. TL!Shape /\ TL!OneHolder /\ \A j \in Keys : TL!Accounted(j)
  BY DEF TL!IInv
<1>2. TL!Trading = {}
  BY <1>1, ServicesAssumption DEF TL!OneHolder, TL!TradeAtOnce
<1>3. /\ v3' = [q \in Requests |-> v3'[q]]
      /\ v3'[r].pc = "trading" /\ v3'[r].key = k /\ {"pc", "key"} \subseteq DOMAIN v3'[r]
      /\ \A q \in Requests : q # r => v3'[q] = v3[q]
  BY <1>1, RequestGoesOn DEF TL!TradeAtOnce
<1>4. TL!Trading' = {r}
  BY <1>2, <1>3
<1>0. /\ v1' = r /\ UNCHANGED <<v2, v4, v6, v7>> /\ v5' = [v5 EXCEPT ![k] = @ + 1]
      /\ v1 = NoRequest /\ k \notin v4
  BY DEF TL!TradeAtOnce
<1>5. TL!Shape'
  <2>1. v5' \in [Keys -> Nat]
    BY <1>0, <1>1 DEF TL!Shape
  <2>2. \A q \in Requests :
          /\ v3'[q].pc \in {"idle", "waiting", "trading"}
          /\ v3'[q].pc # "idle" => {"pc", "key"} \subseteq DOMAIN v3'[q] /\ v3'[q].key \in Keys
    BY <1>1, <1>3 DEF TL!Shape
  <2> QED BY <1>0, <1>1, <1>3, <2>1, <2>2 DEF TL!Shape
<1>6. TL!OneHolder'
  BY <1>0, <1>1, <1>3, <1>4, ServicesAssumption DEF TL!Shape, TL!OneHolder
<1>7. \A j \in Keys : TL!Accounted(j)'
  <2> SUFFICES ASSUME NEW j \in Keys PROVE TL!Accounted(j)'
    OBVIOUS
  <2>0. v5 \in [Keys -> Nat] /\ v6 \in [Keys -> Nat] /\ TL!Accounted(j)
    BY <1>1 DEF TL!Shape
  <2>1. CASE j = k
    <3>1. v5[k] <= v6[k]
      BY <1>0, <1>2, <2>0, <2>1 DEF TL!Accounted
    <3>2. v5'[k] = v5[k] + 1 /\ v6' = v6
      BY <1>0, <2>0
    <3> QED BY <1>3, <1>4, <2>0, <2>1, <3>1, <3>2 DEF TL!Accounted
  <2>2. CASE j # k
    BY <1>0, <1>2, <2>0, <2>2 DEF TL!Accounted
  <2> QED BY <2>1, <2>2
<1> QED BY <1>0, <1>3, <1>4, <1>5, <1>6, <1>7 DEF TL!IInv

LEMMA WaitInv ==
  ASSUME TL!IInv, NEW r \in Requests, NEW k \in Keys, TL!Wait(r, k)
  PROVE  TL!IInv'
<1> SUFFICES ASSUME ~v7 PROVE TL!IInv'
  BY DEF TL!Wait, TL!IInv
<1>1. TL!Shape /\ TL!OneHolder /\ \A j \in Keys : TL!Accounted(j)
  BY DEF TL!IInv
<1>2. /\ v3' = [q \in Requests |-> v3'[q]]
      /\ v3'[r].pc = "waiting" /\ v3'[r].key = k /\ {"pc", "key"} \subseteq DOMAIN v3'[r]
      /\ \A q \in Requests : q # r => v3'[q] = v3[q]
  BY <1>1, RequestGoesOn DEF TL!Wait
<1>3. TL!Trading' = TL!Trading /\ r \notin TL!Trading /\ v1 \in TL!Trading /\ v1 \in Requests
  BY <1>1, <1>2 DEF TL!Wait, TL!Shape, TL!OneHolder
<1> DEFINE s == v2[v1]
<1>4. /\ Append(s, r) \in Seq(Requests) /\ s \in Seq(Requests) /\ Len(Append(s, r)) = Len(s) + 1 /\ Len(s) \in Nat
      /\ \A i \in 1..Len(s) : Append(s, r)[i] = s[i]
      /\ Append(s, r)[Len(s) + 1] = r
  <2>1. s \in Seq(Requests)
    BY <1>1, <1>3 DEF TL!Shape
  <2> QED BY <2>1, AppendProperties, LenProperties
<1>5. v2' = [v2 EXCEPT ![v1] = Append(s, r)] /\ UNCHANGED <<v1, v4, v5, v6, v7>>
  BY DEF TL!Wait
<1>6. v2'[v1] = Append(s, r) /\ \A q \in Requests : q # v1 => v2'[q] = v2[q]
  BY <1>1, <1>3, <1>5 DEF TL!Shape
<1>7. \A q \in Requests : \A n \in 1..Len(v2'[q]) : v3'[v2'[q][n]].pc = "waiting"
  <2> SUFFICES ASSUME NEW q \in Requests, NEW n \in 1..Len(v2'[q]) PROVE v3'[v2'[q][n]].pc = "waiting"
    OBVIOUS
  <2>1. \A p \in Requests : \A i \in 1..Len(v2[p]) : v2[p][i] \in Requests /\ v3'[v2[p][i]].pc = "waiting"
    <3> SUFFICES ASSUME NEW p \in Requests, NEW i \in 1..Len(v2[p])
                 PROVE  v2[p][i] \in Requests /\ v3'[v2[p][i]].pc = "waiting"
      OBVIOUS
    <3>1. v2[p] \in Seq(Requests)
      BY <1>1 DEF TL!Shape
    <3>2. v2[p][i] \in Requests
      BY <3>1, ElementOfSeq
    <3> QED BY <1>1, <1>2, <3>2 DEF TL!OneHolder
  <2>2. CASE q # v1
    BY <1>6, <2>1, <2>2
  <2>3. CASE q = v1 /\ n = Len(s) + 1
    BY <1>2, <1>4, <1>6, <2>3
  <2>4. CASE q = v1 /\ n # Len(s) + 1
    <3>1. n \in 1..Len(s)
      BY <1>4, <1>6, <2>4
    <3>2. v2'[q][n] = v2[v1][n] /\ n \in 1..Len(v2[v1])
      BY <1>3, <1>4, <1>6, <2>4, <3>1
    <3> QED BY <1>3, <2>1, <3>2
  <2> QED BY <2>2, <2>3, <2>4
<1> HIDE DEF s
<1>8. TL!Shape'
  BY <1>1, <1>2, <1>3, <1>4, <1>5 DEF TL!Shape
<1>9. TL!OneHolder'
  BY <1>1, <1>3, <1>5, <1>6, <1>7 DEF TL!OneHolder
<1>10. \A q \in TL!Trading : v3'[q] = v3[q]
  BY <1>2, <1>3
<1>11. \A j \in Keys : TL!Accounted(j)'
  BY <1>1, <1>3, <1>5, <1>10 DEF TL!Accounted
<1> QED BY <1>3, <1>5, <1>8, <1>9, <1>10, <1>11 DEF TL!IInv

\* The one waiter of a promise takes over the lock, or finds its result cached.
LEMMA FinishInv ==
  ASSUME TL!IInv, NEW r \in Requests, TL!Finish(r)
  PROVE  TL!IInv'
<1> DEFINE held   == v4 \union {v3[r].key}
           queue  == v2[r]
           woken  == {queue[n] : n \in DOMAIN queue}
           trader == TL!WakeToTrade(woken, held)
<1> SUFFICES ASSUME ~v7, ~(Len(queue) > 1) PROVE TL!IInv'
  BY DEF TL!Finish, TL!IInv
<1>a. ~v7'
  <2>1. v7' = (v7 \/ Len(v2[r]) > 1)
    BY DEF TL!Finish
  <2> QED BY <2>1, Zenon
<1>0. /\ r \in TL!Trading /\ v4' = held /\ UNCHANGED v6
      /\ v3' = [q \in Requests |-> IF q \in trader THEN [v3[q] EXCEPT !.pc = "trading"]
                                   ELSE IF q \in woken \union {r} THEN [pc |-> "idle"] ELSE v3[q]]
      /\ v5' = [k \in Keys |-> v5[k] + TL!Cardinality({w \in trader : v3[w].key = k})]
      /\ v2' = [v2 EXCEPT ![r] = <<>>]
      /\ v1' = IF queue # <<>>
               THEN IF queue[Len(queue)] \in trader THEN queue[Len(queue)] ELSE NoRequest
               ELSE IF v1 = r THEN NoRequest ELSE v1
  BY DEF TL!Finish
<1>1. TL!Shape /\ TL!OneHolder /\ (\A j \in Keys : TL!Accounted(j)) /\ v1 = r /\ TL!Trading = {r}
      /\ v3[r].key \notin v4
  BY <1>0 DEF TL!IInv, TL!OneHolder
<1>2. /\ queue \in Seq(Requests) /\ Len(queue) \in Nat /\ DOMAIN queue = 1..Len(queue)
      /\ queue # <<>> => Len(queue) # 0
      /\ \A n \in 1..Len(queue) : queue[n] \in Requests /\ v3[queue[n]].pc = "waiting"
  <2>1. queue \in Seq(Requests)
    BY <1>1 DEF TL!Shape
  <2>2. Len(queue) \in Nat /\ DOMAIN queue = 1..Len(queue) /\ (queue # <<>> => Len(queue) # 0)
    BY <2>1, LenProperties, EmptySeq
  <2>3. \A n \in 1..Len(queue) : queue[n] \in Requests
    BY <2>1, ElementOfSeq
  <2> QED BY <1>1, <2>1, <2>2, <2>3 DEF TL!OneHolder
<1>3. \A q \in Requests : v2'[q] = <<>>
  BY <1>0, <1>1 DEF TL!Shape, TL!OneHolder
<1>4. v2' \in [Requests -> Seq(Requests)]
  BY <1>0, <1>1, EmptySeq DEF TL!Shape
<1> HIDE DEF queue, held
\* Whoever is woken to trade is at most one request, and then the new holder.
<1>5. PICK t : /\ trader = {} /\ v1' = NoRequest
               \/ /\ trader = {t} /\ v1' = t /\ t \in Requests /\ t # r
                  /\ v3[t].pc = "waiting" /\ v3[t].key \notin held
  <2>1. CASE queue = <<>>
    <3>1. woken = {}
      BY <2>1
    <3> QED BY <1>0, <1>1, <2>1, <3>1 DEF TL!WakeToTrade
  <2>2. CASE queue # <<>>
    <3>1. Len(queue) = 1
      BY <1>2, <2>2
    <3>2. woken = {queue[1]} /\ queue[1] \in Requests /\ v3[queue[1]].pc = "waiting"
      BY <1>2, <3>1
    <3>3. queue[1] # r
      BY <1>0, <3>2
    <3>4. CASE v3[queue[1]].key \in held
      BY <1>0, <2>2, <3>1, <3>2, <3>4 DEF TL!WakeToTrade
    <3>5. CASE v3[queue[1]].key \notin held
      <4>1. trader = {queue[1]}
        BY <3>2, <3>5 DEF TL!WakeToTrade
      <4> QED BY <1>0, <2>2, <3>1, <3>2, <3>3, <3>5, <4>1
    <3> QED BY <3>4, <3>5
  <2> QED BY <2>1, <2>2
<1>6. woken \subseteq Requests /\ \A q \in woken : v3[q].pc = "waiting"
  BY <1>2
<1> HIDE DEF trader, woken
<1>7. \A q \in Requests :
        \/ q \in trader /\ v3'[q].pc = "trading" /\ v3'[q].key = v3[q].key /\ {"pc", "key"} \subseteq DOMAIN v3'[q]
        \/ q \notin trader /\ v3'[q].pc = "idle" /\ q \in woken \union {r}
        \/ q \notin trader /\ v3'[q] = v3[q] /\ q \notin woken \union {r}
  <2> SUFFICES ASSUME NEW q \in Requests
               PROVE  \/ q \in trader /\ v3'[q].pc = "trading" /\ v3'[q].key = v3[q].key /\ {"pc", "key"} \subseteq DOMAIN v3'[q]
                      \/ q \notin trader /\ v3'[q].pc = "idle" /\ q \in woken \union {r}
                      \/ q \notin trader /\ v3'[q] = v3[q] /\ q \notin woken \union {r}
    OBVIOUS
  <2>1. CASE q \in trader
    <3>1. v3'[q] = [v3[q] EXCEPT !.pc = "trading"]
      BY <1>0, <2>1
    <3>2. {"pc", "key"} \subseteq DOMAIN v3[q]
      BY <1>1, <1>5, <2>1 DEF TL!Shape
    <3> QED BY <2>1, <3>1, <3>2
  <2>2. CASE q \notin trader /\ q \in woken \union {r}
    <3>1. v3'[q] = [pc |-> "idle"]
      BY <1>0, <2>2
    <3> QED BY <2>2, <3>1
  <2>3. CASE q \notin trader /\ q \notin woken \union {r}
    BY <1>0, <2>3
  <2> QED BY <2>1, <2>2, <2>3
<1>8. TL!Trading' = trader
  BY <1>1, <1>5, <1>7
<1>9. /\ v5 \in [Keys -> Nat] /\ v6 \in [Keys -> Nat]
      /\ \A k \in Keys : v5'[k] = IF \E w \in trader : v3[w].key = k THEN v5[k] + 1 ELSE v5[k]
  <2>1. v5 \in [Keys -> Nat] /\ v6 \in [Keys -> Nat]
    BY <1>1 DEF TL!Shape
  <2> SUFFICES ASSUME NEW k \in Keys
               PROVE  v5'[k] = IF \E w \in trader : v3[w].key = k THEN v5[k] + 1 ELSE v5[k]
    BY <2>1
  <2> DEFINE W == {w \in trader : v3[w].key = k}
  <2>2. v5'[k] = v5[k] + Cardinality(W)
    BY <1>0, TradersAreCounted
  <2>3. CASE \E w \in trader : v3[w].key = k
    <3>1. W = {t}
      BY <1>5, <2>3
    <3>2. Cardinality({t}) = 1
      BY FS_Singleton
    <3>3. v5'[k] = v5[k] + 1
      BY <2>2, <3>1, <3>2
    <3> QED BY <2>3, <3>3
  <2>4. CASE ~\E w \in trader : v3[w].key = k
    <3>1. W = {}
      BY <2>4
    <3>2. Cardinality({}) = 0
      BY FS_EmptySet
    <3>3. v5'[k] = v5[k] + 0 /\ v5[k] \in Nat
      BY <2>1, <2>2, <3>1, <3>2
    <3>4. v5'[k] = v5[k]
      BY <3>3
    <3> QED BY <2>4, <3>4
  <2> QED BY <2>3, <2>4
<1>10. TL!Shape'
  <2>1. v3' = [q \in Requests |-> v3'[q]]
    BY <1>0
  <2>2. \A q \in Requests :
          /\ v3'[q].pc \in {"idle", "waiting", "trading"}
          /\ v3'[q].pc # "idle" => {"pc", "key"} \subseteq DOMAIN v3'[q] /\ v3'[q].key \in Keys
    <3> SUFFICES ASSUME NEW q \in Requests
                 PROVE  /\ v3'[q].pc \in {"idle", "waiting", "trading"}
                        /\ v3'[q].pc # "idle" => {"pc", "key"} \subseteq DOMAIN v3'[q] /\ v3'[q].key \in Keys
      OBVIOUS
    <3>1. CASE q \in trader
      BY <1>1, <1>5, <1>7, <3>1 DEF TL!Shape
    <3>2. CASE q \notin trader
      BY <1>1, <1>7, <3>2 DEF TL!Shape
    <3> QED BY <3>1, <3>2
  <2>3. v5' \in [Keys -> Nat]
    <3>1. v5' = [k \in Keys |-> v5'[k]]
      BY <1>0
    <3> QED BY <1>9, <3>1
  <2> QED BY <1>0, <1>4, <1>5, <1>9, <2>1, <2>2, <2>3 DEF TL!Shape
<1>11. TL!OneHolder'
  <2>1. \A q \in Requests : Len(v2'[q]) = 0
    BY <1>3, EmptySeq
  <2> QED BY <1>3, <1>5, <1>8, <2>1 DEF TL!OneHolder
<1>12. \A q \in TL!Trading' : v3'[q].key \notin v4'
  BY <1>0, <1>5, <1>7, <1>8
<1>13. \A k \in Keys : TL!Accounted(k)'
  <2> SUFFICES ASSUME NEW k \in Keys PROVE TL!Accounted(k)'
    OBVIOUS
  <2>0. TL!Accounted(k) /\ v5[k] \in Nat /\ v6[k] \in Nat /\ v6' = v6
    BY <1>0, <1>1, <1>9
  <2>1. CASE \E w \in trader : v3[w].key = k
    <3>1. k \notin held /\ trader = {t} /\ v3[t].key = k
      BY <1>5, <2>1
    <3>2. v5[k] <= v6[k]
      BY <1>1, <2>0, <3>1 DEF TL!Accounted, held
    <3>3. v5'[k] = v5[k] + 1
      BY <1>9, <2>1
    <3>4. t \in TL!Trading' /\ v3'[t].key = k
      BY <1>5, <1>7, <1>8, <3>1
    <3> QED BY <2>0, <3>2, <3>3, <3>4 DEF TL!Accounted
  <2>2. CASE ~\E w \in trader : v3[w].key = k
    <3>1. v5'[k] = v5[k]
      BY <1>9, <2>2
    <3>2. k \notin v4' => k \notin v4 /\ \A q \in TL!Trading : v3[q].key # k
      BY <1>0, <1>1 DEF held
    <3> QED BY <2>0, <3>1, <3>2 DEF TL!Accounted
  <2> QED BY <2>1, <2>2
<1> QED BY <1>10, <1>11, <1>12, <1>13 DEF TL!IInv

\* What expires is of a trade that was finished.
LEMMA ExpireResultInv ==
  ASSUME TL!IInv, NEW k \in Keys, TL!ExpireResult(k)
  PROVE  TL!IInv'
<1> SUFFICES ASSUME ~v7 PROVE TL!IInv'
  BY DEF TL!ExpireResult, TL!IInv
<1>0. /\ k \in v4 /\ v4' = v4 \ {k} /\ v6' = [v6 EXCEPT ![k] = @ + 1] /\ UNCHANGED <<v1, v2, v3, v5, v7>>
  BY DEF TL!ExpireResult
<1>1. /\ TL!Shape /\ TL!OneHolder /\ (\A j \in Keys : TL!Accounted(j)) /\ TL!Trading' = TL!Trading
      /\ \A r \in TL!Trading : v3[r].key \notin v4
  BY <1>0 DEF TL!IInv
<1>2. v5 \in [Keys -> Nat] /\ v6 \in [Keys -> Nat] /\ v6' \in [Keys -> Nat] /\ v6'[k] = v6[k] + 1
      /\ \A j \in Keys : j # k => v6'[j] = v6[j]
  BY <1>0, <1>1 DEF TL!Shape
<1>3. TL!Shape'
  BY <1>0, <1>1, <1>2 DEF TL!Shape
<1>4. TL!OneHolder'
  BY <1>0, <1>1 DEF TL!OneHolder
<1>5. \A j \in Keys : TL!Accounted(j)'
  <2> SUFFICES ASSUME NEW j \in Keys PROVE TL!Accounted(j)'
    OBVIOUS
  <2>1. CASE j = k
    <3>1. v5[k] <= v6[k] + 1 /\ v5[k] \in Nat /\ v6[k] \in Nat
      BY <1>1, <1>2 DEF TL!Accounted
    <3> QED BY <1>0, <1>2, <2>1, <3>1 DEF TL!Accounted
  <2>2. CASE j # k
    BY <1>0, <1>1, <1>2, <2>2 DEF TL!Accounted
  <2> QED BY <2>1, <2>2
<1> QED BY <1>0, <1>1, <1>3, <1>4, <1>5 DEF TL!IInv

LEMMA TradeLockStep ==
  ASSUME TL!IInv, TL!Next
  PROVE  TL!IInv'
  BY TradeAtOnceInv, WaitInv, FinishInv, ExpireResultInv DEF TL!Next

LEMMA TradeLockStutters ==
  ASSUME TL!IInv, UNCHANGED others
  PROVE  TL!IInv'
  BY DEF others, TL!IInv, TL!Shape, TL!OneHolder, TL!Accounted

LEMMA TradeLockInv == ServicesSpec => [](service = "tradeLock" => TL!IInv)
<1>1. ServicesInit => (service = "tradeLock" => TL!IInv)
  BY TradeLockInit DEF ServicesInit, OtherInit
<1>2. (service = "tradeLock" => TL!IInv) /\ [ServicesNext]_ServicesVars => (service = "tradeLock" => TL!IInv)'
  <2> SUFFICES ASSUME service' = "tradeLock", service = "tradeLock" => TL!IInv, [ServicesNext]_ServicesVars
               PROVE  TL!IInv'
    OBVIOUS
  <2>1. service = "tradeLock"
    BY ServiceIsFixed
  <2>2. TL!Next \/ UNCHANGED others
    BY <2>1 DEF ServicesNext, OtherNext, ServicesVars
  <2> QED BY <2>1, <2>2, TradeLockStep, TradeLockStutters DEF others
<1> QED BY <1>1, <1>2, PTL DEF ServicesSpec

\* executeTrade: for any number of requests, keys, trades and expiries, until some
\* promise wakes two waiters, one trade at a time and one per key and result.
THEOREM TradesAreExclusive == ServicesSpec => []ExclusiveUnlessCrowded
<1>1. (service = "tradeLock" => TL!IInv) => ExclusiveUnlessCrowded
  BY DEF TL!IInv, TL!OneHolder, TL!Accounted, ExclusiveUnlessCrowded, TL!ExclusiveUnlessCrowded
<1> QED BY <1>1, TradeLockInv, PTL

HIDE DEF TL!Trading

-----------------------------------------------------------------------------
(* Webhook delivery *)

USE DEF WD!At, WD!Goto, WD!Return, WD!Idle, WD!Row

LEMMA DeliveriesAreCounted == \A S : WD!Cardinality(S) = Cardinality(S)
  BY DEF WD!Cardinality, Cardinality

LEMMA WebhooksInit == WD!Init => WD!IInv
<1> SUFFICES ASSUME WD!Init PROVE WD!Calm
  BY DEF WD!IInv
<1>0. WD!Holders = {}
  BY DEF WD!Init, WD!Holders, WD!Handling, WD!Settling
<1>1. WD!Shape
  BY <1>0 DEF WD!Init, WD!Shape
<1>2. WD!Publishing
  BY ServicesAssumption DEF WD!Init, WD!Publishing, WD!Deliveries
<1>3. WD!OneHandler
  BY <1>0 DEF WD!Init, WD!OneHandler
<1>4. WD!Tally
  <2>1. WD!Counted("success") = {} /\ WD!Counted("dead") = {}
    BY DEF WD!Init, WD!Counted
  <2>2. Cardinality({}) = 0
    BY FS_EmptySet
  <2> QED BY <2>1, <2>2, DeliveriesAreCounted DEF WD!Init, WD!Tally
<1> QED BY <1>1, <1>2, <1>3, <1>4 DEF WD!Calm

\* A handler goes on as R.
LEMMA WorkerGoesOn ==
  ASSUME WD!Shape, NEW w \in Calls, NEW R, v5' = [v5 EXCEPT ![w] = R]
  PROVE  /\ v5' = [x \in Calls |-> v5'[x]]
         /\ v5'[w] = R /\ \A x \in Calls : x # w => v5'[x] = v5[x]
<1>1. v5 = [x \in Calls |-> v5[x]]
  BY DEF WD!Shape
<1>2. v5' = [x \in Calls |-> IF x = w THEN R ELSE v5[x]]
  BY <1>1
<1> QED BY <1>2

\* The same deliveries are counted.
LEMMA TallyStays ==
  ASSUME WD!Tally, v1'.successes = v1.successes, v1'.failures = v1.failures,
         WD!Counted("success")' = WD!Counted("success"), WD!Counted("dead")' = WD!Counted("dead")
  PROVE  WD!Tally'
  BY DeliveriesAreCounted DEF WD!Tally

LEMMA CreateDeliveryInv ==
  ASSUME WD!Calm, WD!CreateDelivery
  PROVE  WD!Calm'
<1>0. /\ v1.publisher = "creating" /\ v2' = [v2 EXCEPT ![v1.next] = [status |-> "pending", attempts |-> 0]]
      /\ v1' = IF v1.next = Subscribers THEN [v1 EXCEPT !.publisher = "enqueuing", !.next = 1]
                                        ELSE [v1 EXCEPT !.next = @ + 1]
      /\ UNCHANGED <<v3, v4, v5>>
  BY DEF WD!CreateDelivery
<1>1. /\ WD!Shape /\ v1.next \in 1..Subscribers /\ v1.next \in WD!Deliveries /\ v4 = {} /\ WD!Holders = {}
      /\ \A d \in WD!Deliveries : v3[d] = "none" /\ v2[d].status = IF d < v1.next THEN "pending" ELSE "absent"
      /\ \A w \in Calls : v5[w].pc = "idle"
  BY <1>0, ServicesAssumption DEF WD!Calm, WD!Publishing, WD!Deliveries, WD!Holders, WD!Handling, WD!Settling
<1>2. WD!Holders' = {}
  BY <1>0, <1>1 DEF WD!Holders
<1>3. /\ v2' = [d \in WD!Deliveries |-> v2'[d]] /\ v2'[v1.next].status = "pending"
      /\ \A d \in WD!Deliveries : d # v1.next => v2'[d] = v2[d]
  BY <1>0, <1>1 DEF WD!Shape
<1>4. /\ {"publisher", "next", "successes", "failures"} \subseteq DOMAIN v1'
      /\ v1'.successes = v1.successes /\ v1'.failures = v1.failures
      /\ \/ v1.next = Subscribers /\ v1'.publisher = "enqueuing" /\ v1'.next = 1
         \/ v1.next # Subscribers /\ v1'.publisher = "creating" /\ v1'.next = v1.next + 1
  <2>1. CASE v1.next = Subscribers
    BY <1>0, <1>1, <2>1 DEF WD!Shape
  <2>2. CASE v1.next # Subscribers
    BY <1>0, <1>1, <2>2 DEF WD!Shape
  <2> QED BY <2>1, <2>2
<1>5. WD!Shape'
  BY <1>0, <1>1, <1>2, <1>3, <1>4 DEF WD!Shape
<1>6. WD!Publishing'
  <2>0. v1.successes = 0 /\ v1.failures = 0
    BY <1>0 DEF WD!Calm, WD!Publishing
  <2>1. CASE v1.next = Subscribers
    <3>1. \A d \in 1..Subscribers : d \in WD!Deliveries /\ (d = v1.next \/ d < v1.next)
      BY <2>1, ServicesAssumption DEF WD!Deliveries
    <3>2. 1 \in 1..Subscribers
      BY ServicesAssumption
    <3> QED BY <1>0, <1>1, <1>2, <1>3, <1>4, <2>0, <2>1, <3>1, <3>2 DEF WD!Publishing
  <2>2. CASE v1.next # Subscribers
    <3>1. v1.next + 1 \in 1..Subscribers
      BY <1>1, <2>2, ServicesAssumption
    <3>2. \A d \in WD!Deliveries : d # v1.next => (d < v1.next <=> d < v1.next + 1)
      BY <1>1, ServicesAssumption DEF WD!Deliveries
    <3>3. v1.next < v1.next + 1
      BY <1>1, ServicesAssumption
    <3>4. \A d \in WD!Deliveries : v2'[d].status = IF d < v1'.next THEN "pending" ELSE "absent"
      BY <1>1, <1>3, <1>4, <2>2, <3>2, <3>3
    <3> QED BY <1>0, <1>1, <1>4, <2>0, <2>2, <3>1, <3>4 DEF WD!Publishing
  <2> QED BY <2>1, <2>2
<1>7. WD!OneHandler'
  BY <1>0, <1>1, <1>2 DEF WD!OneHandler
<1>8. WD!Tally'
  <2>1. \A d \in WD!Deliveries : v2[d].status \notin {"success", "dead"} /\ v2'[d].status \notin {"success", "dead"}
    BY <1>1, <1>3
  <2>2. WD!Counted("success")' = WD!Counted("success") /\ WD!Counted("dead")' = WD!Counted("dead")
    BY <2>1 DEF WD!Counted
  <2> QED BY <1>4, <2>2, TallyStays DEF WD!Calm
<1> QED BY <1>5, <1>6, <1>7, <1>8 DEF WD!Calm

LEMMA EnqueueInv ==
  ASSUME WD!Calm, WD!Enqueue
  PROVE  WD!Calm'
<1>0. /\ v1.publisher = "enqueuing" /\ v4' = v4 \union {v1.next}
      /\ v1' = IF v1.next = Subscribers THEN [v1 EXCEPT !.publisher = "closing"] ELSE [v1 EXCEPT !.next = @ + 1]
      /\ UNCHANGED <<v2, v3, v5>>
  BY DEF WD!Enqueue
<1>1. /\ WD!Shape /\ v1.next \in 1..Subscribers /\ v1.next \in WD!Deliveries
      /\ \A d \in v1.next..Subscribers :
           v2[d].status = "pending" /\ d \notin v4 /\ \A w \in WD!Holders : v5[w].id # d
  BY <1>0, ServicesAssumption DEF WD!Calm, WD!Publishing, WD!Deliveries
<1>2. WD!Holders' = WD!Holders
  BY <1>0 DEF WD!Holders
<1>3. v2[v1.next].status = "pending" /\ \A w \in WD!Holders : v5[w].id # v1.next
  BY <1>1, ServicesAssumption
<1>4. /\ {"publisher", "next", "successes", "failures"} \subseteq DOMAIN v1'
      /\ v1'.successes = v1.successes /\ v1'.failures = v1.failures
      /\ \/ v1.next = Subscribers /\ v1'.publisher = "closing"
         \/ v1.next # Subscribers /\ v1'.publisher = "enqueuing" /\ v1'.next = v1.next + 1
  <2>1. CASE v1.next = Subscribers
    BY <1>0, <1>1, <2>1 DEF WD!Shape
  <2>2. CASE v1.next # Subscribers
    BY <1>0, <1>1, <2>2 DEF WD!Shape
  <2> QED BY <2>1, <2>2
<1>5. WD!Shape'
  BY <1>0, <1>1, <1>2, <1>4 DEF WD!Shape
<1>6. WD!Publishing'
  <2>0. v1.successes = 0 /\ v1.failures = 0
    BY <1>0 DEF WD!Calm, WD!Publishing
  <2>1. CASE v1.next = Subscribers
    BY <1>4, <2>0, <2>1 DEF WD!Publishing
  <2>2. CASE v1.next # Subscribers
    <3>1. v1.next + 1 \in 1..Subscribers
      BY <1>1, <2>2, ServicesAssumption
    <3>2. \A d \in v1.next + 1..Subscribers : d \in v1.next..Subscribers /\ d # v1.next
      BY <1>1, ServicesAssumption
    <3> QED BY <1>0, <1>1, <1>2, <1>4, <2>0, <2>2, <3>1, <3>2 DEF WD!Publishing
  <2> QED BY <2>1, <2>2
<1>7. WD!OneHandler'
  BY <1>0, <1>2, <1>3 DEF WD!Calm, WD!OneHandler
<1>8. WD!Tally'
  <2>1. WD!Counted("success")' = WD!Counted("success") /\ WD!Counted("dead")' = WD!Counted("dead")
    BY <1>0, <1>2 DEF WD!Counted
  <2> QED BY <1>4, <2>1, TallyStays DEF WD!Calm
<1> QED BY <1>5, <1>6, <1>7, <1>8 DEF WD!Calm

\* The last save writes zeros over zeros.
LEMMA ClosePublishInv ==
  ASSUME WD!Calm, WD!ClosePublish
  PROVE  WD!Calm'
<1>0. /\ v1.publisher = "closing" /\ v1' = [v1 EXCEPT !.publisher = "done", !.successes = 0, !.failures = 0]
      /\ UNCHANGED <<v2, v3, v4, v5>>
  BY DEF WD!ClosePublish
<1>1. /\ {"publisher", "next", "successes", "failures"} \subseteq DOMAIN v1' /\ v1'.publisher = "done"
      /\ v1'.successes = v1.successes /\ v1'.failures = v1.failures
  BY <1>0 DEF WD!Calm, WD!Shape, WD!Publishing
<1>2. WD!Holders' = WD!Holders
  BY <1>0 DEF WD!Holders
<1>3. WD!Shape'
  BY <1>0, <1>1, <1>2 DEF WD!Calm, WD!Shape
<1>4. WD!Publishing'
  BY <1>1 DEF WD!Publishing
<1>5. WD!OneHandler'
  BY <1>0, <1>2 DEF WD!Calm, WD!OneHandler
<1>6. WD!Tally'
  <2>1. WD!Counted("success")' = WD!Counted("success") /\ WD!Counted("dead")' = WD!Counted("dead")
    BY <1>0, <1>2 DEF WD!Counted
  <2> QED BY <1>1, <2>1, TallyStays DEF WD!Calm
<1> QED BY <1>3, <1>4, <1>5, <1>6 DEF WD!Calm

\* The handler of a delivery goes on with it.
LEMMA HandlerAdvances ==
  ASSUME WD!Calm, NEW w \in WD!Holders, NEW R, v5' = [v5 EXCEPT ![w] = R],
         R.pc \in WD!Handling, {"pc", "id", "attempts", "result"} \subseteq DOMAIN R, R.id = v5[w].id,
         v2' = [d \in WD!Deliveries |-> v2'[d]], \A d \in WD!Deliveries : d # R.id => v2'[d] = v2[d],
         R.pc = "counting" => v2'[R.id].status = "success",
         R.pc \in {"burying", "countingFailure"} => v2'[R.id].status = "dead",
         R.pc \notin WD!Settling => v2'[R.id].status \in {"pending", "delivering"},
         v3' = [d \in WD!Deliveries |-> v3'[d]], UNCHANGED <<v1, v4>>
  PROVE  WD!Calm'
<1>0. WD!Shape /\ WD!Publishing /\ WD!OneHandler /\ WD!Tally /\ w \in Calls /\ R.id \in WD!Deliveries
  BY DEF WD!Calm, WD!OneHandler, WD!Holders
<1>1. v5' = [x \in Calls |-> v5'[x]] /\ v5'[w] = R /\ \A x \in Calls : x # w => v5'[x] = v5[x]
  BY <1>0, WorkerGoesOn
<1>2. WD!Holders' = WD!Holders /\ (\A x \in WD!Holders : v5'[x].id = v5[x].id) /\ WD!Holders \subseteq Calls
  BY <1>1 DEF WD!Holders
<1>3. WD!Shape'
  BY <1>0, <1>1, <1>2 DEF WD!Shape
<1>4. WD!Publishing'
  <2>1. v1.publisher # "creating"
    BY <1>0 DEF WD!Publishing, WD!Holders, WD!Handling, WD!Settling
  <2>2. v1.publisher = "enqueuing" => \A d \in v1.next..Subscribers : d \in WD!Deliveries /\ v2'[d] = v2[d]
    <3> SUFFICES ASSUME v1.publisher = "enqueuing", NEW d \in v1.next..Subscribers PROVE d \in WD!Deliveries /\ v2'[d] = v2[d]
      OBVIOUS
    <3>1. v1.next \in 1..Subscribers /\ d # R.id
      BY <1>0 DEF WD!Publishing
    <3>2. d \in WD!Deliveries
      BY <3>1, ServicesAssumption DEF WD!Deliveries
    <3> QED BY <3>1, <3>2
  <2> QED BY <1>0, <1>2, <2>1, <2>2 DEF WD!Publishing
<1>5. WD!OneHandler'
  <2>1. \A d \in v4 : d \in WD!Deliveries /\ d # R.id
    BY <1>0 DEF WD!OneHandler, WD!Shape
  <2>2. \A x \in WD!Holders : x # w => v5[x].id # R.id /\ v5[x].id \in WD!Deliveries
    BY <1>0 DEF WD!OneHandler
  <2>3. \A x \in WD!Holders : x # w => v5'[x] = v5[x] /\ v2'[v5[x].id] = v2[v5[x].id]
    BY <1>1, <1>2, <2>2
  <2>4. \A x \in WD!Holders' :
          /\ v5'[x].pc = "counting" => v2'[v5'[x].id].status = "success"
          /\ v5'[x].pc \in {"burying", "countingFailure"} => v2'[v5'[x].id].status = "dead"
          /\ v5'[x].pc \notin WD!Settling => v2'[v5'[x].id].status \in {"pending", "delivering"}
    <3> SUFFICES ASSUME NEW x \in WD!Holders
                 PROVE  /\ v5'[x].pc = "counting" => v2'[v5'[x].id].status = "success"
                        /\ v5'[x].pc \in {"burying", "countingFailure"} => v2'[v5'[x].id].status = "dead"
                        /\ v5'[x].pc \notin WD!Settling => v2'[v5'[x].id].status \in {"pending", "delivering"}
      BY <1>2
    <3>1. CASE x = w
      BY <1>1, <3>1
    <3>2. CASE x # w
      BY <1>0, <2>3, <3>2 DEF WD!OneHandler
    <3> QED BY <3>1, <3>2
  <2> QED BY <1>0, <1>2, <2>1, <2>4 DEF WD!OneHandler, WD!Settling
<1>6. WD!Tally'
  <2>1. \A s \in {"success", "dead"} : R.id \notin WD!Counted(s) /\ R.id \notin WD!Counted(s)'
    BY <1>0, <1>1, <1>2 DEF WD!Counted, WD!OneHandler, WD!Settling
  <2>2. \A s \in {"success", "dead"} : \A d \in WD!Deliveries : d # R.id => (d \in WD!Counted(s) <=> d \in WD!Counted(s)')
    BY <1>1, <1>2 DEF WD!Counted
  <2>3. \A s \in {"success", "dead"} : WD!Counted(s) \subseteq WD!Deliveries /\ WD!Counted(s)' \subseteq WD!Deliveries
    BY DEF WD!Counted
  <2>4. WD!Counted("success")' = WD!Counted("success") /\ WD!Counted("dead")' = WD!Counted("dead")
    BY <2>1, <2>2, <2>3
  <2> QED BY <1>0, <2>4, TallyStays
<1> QED BY <1>3, <1>4, <1>5, <1>6 DEF WD!Calm

\* The handler of a delivery is done with it, which counts if it is settled.
LEMMA HandlerLeaves ==
  ASSUME WD!Calm, NEW w \in WD!Holders, NEW id, id = v5[w].id, WD!Return(w),
         v2' = [d \in WD!Deliveries |-> v2'[d]], \A d \in WD!Deliveries : d # id => v2'[d] = v2[d],
         {"publisher", "next", "successes", "failures"} \subseteq DOMAIN v1',
         v1'.publisher = v1.publisher, v1'.next = v1.next,
         UNCHANGED v1 \/ v1.publisher = "done",
         UNCHANGED <<v3, v4>>,
         v1'.successes = v1.successes + (IF v2'[id].status = "success" THEN 1 ELSE 0),
         v1'.failures = v1.failures + (IF v2'[id].status = "dead" THEN 1 ELSE 0)
  PROVE  WD!Calm'
<1> DEFINE R == [pc |-> "idle"]
<1>0. WD!Shape /\ WD!Publishing /\ WD!OneHandler /\ WD!Tally /\ w \in Calls /\ id \in WD!Deliveries
  BY DEF WD!Calm, WD!OneHandler, WD!Holders
<1>1. v5' = [x \in Calls |-> v5'[x]] /\ v5'[w] = R /\ \A x \in Calls : x # w => v5'[x] = v5[x]
  BY <1>0, WorkerGoesOn
<1>2. R.pc = "idle" /\ {"pc"} \subseteq DOMAIN R
  OBVIOUS
<1> HIDE DEF R
<1>3. WD!Holders' = WD!Holders \ {w} /\ WD!Holders \subseteq Calls
  BY <1>1, <1>2 DEF WD!Holders, WD!Handling, WD!Settling
<1>4. WD!Shape'
  BY <1>0, <1>1, <1>2, <1>3 DEF WD!Shape
<1>5. WD!Publishing'
  <2>1. v1.publisher # "creating"
    BY <1>0 DEF WD!Publishing, WD!Holders, WD!Handling, WD!Settling
  <2>2. v1.publisher = "enqueuing" => \A d \in v1.next..Subscribers : d \in WD!Deliveries /\ v2'[d] = v2[d]
    <3> SUFFICES ASSUME v1.publisher = "enqueuing", NEW d \in v1.next..Subscribers PROVE d \in WD!Deliveries /\ v2'[d] = v2[d]
      OBVIOUS
    <3>1. v1.next \in 1..Subscribers /\ d # id
      BY <1>0 DEF WD!Publishing
    <3>2. d \in WD!Deliveries
      BY <3>1, ServicesAssumption DEF WD!Deliveries
    <3> QED BY <3>1, <3>2
  <2>3. \A x \in WD!Holders' : v5'[x] = v5[x] /\ x \in WD!Holders
    BY <1>1, <1>3
  <2> QED BY <1>0, <2>1, <2>2, <2>3 DEF WD!Publishing
<1>6. \A x \in WD!Holders' : x \in WD!Holders /\ v5'[x] = v5[x] /\ v5[x].id # id /\ v5[x].id \in WD!Deliveries
  BY <1>0, <1>1, <1>3 DEF WD!OneHandler
<1>7. WD!OneHandler'
  <2>1. \A d \in v4 : d \in WD!Deliveries /\ d # id
    BY <1>0 DEF WD!OneHandler, WD!Shape
  <2>2. \A x \in WD!Holders' : v2'[v5[x].id] = v2[v5[x].id]
    BY <1>6
  <2> QED BY <1>0, <1>6, <2>1, <2>2 DEF WD!OneHandler
<1>8. WD!Tally'
  <2>1. \A s \in {"success", "dead"} :
          /\ id \notin WD!Counted(s) /\ (id \in WD!Counted(s)' <=> v2'[id].status = s)
          /\ \A d \in WD!Deliveries : d # id => (d \in WD!Counted(s) <=> d \in WD!Counted(s)')
    <3> SUFFICES ASSUME NEW s \in {"success", "dead"}
                 PROVE  /\ id \notin WD!Counted(s) /\ (id \in WD!Counted(s)' <=> v2'[id].status = s)
                        /\ \A d \in WD!Deliveries : d # id => (d \in WD!Counted(s) <=> d \in WD!Counted(s)')
      OBVIOUS
    <3>1. id \notin WD!Counted(s)
      BY <1>0 DEF WD!Counted, WD!OneHandler, WD!Settling
    <3>2. id \in WD!Counted(s)' <=> v2'[id].status = s
      BY <1>0, <1>6 DEF WD!Counted
    <3>3. ASSUME NEW d \in WD!Deliveries, d # id PROVE d \in WD!Counted(s) <=> d \in WD!Counted(s)'
      <4>1. (\A x \in WD!Holders : v5[x].pc \in WD!Settling => v5[x].id # d)
            <=> (\A x \in WD!Holders' : v5'[x].pc \in WD!Settling => v5'[x].id # d)
        BY <1>3, <1>6, <3>3
      <4> QED BY <3>3, <4>1 DEF WD!Counted
    <3> QED BY <3>1, <3>2, <3>3
  <2>2. \A s \in {"success", "dead"} : WD!Counted(s) \subseteq WD!Deliveries /\ WD!Counted(s)' \subseteq WD!Deliveries
    BY DEF WD!Counted
  <2>3. \A s \in {"success", "dead"} : WD!Counted(s)' = IF v2'[id].status = s THEN WD!Counted(s) \union {id} ELSE WD!Counted(s)
    BY <1>0, <2>1, <2>2
  <2>4. \A s \in {"success", "dead"} : IsFiniteSet(WD!Counted(s))
    <3>1. IsFiniteSet(WD!Deliveries)
      <4>1. 1 \in Int /\ MaxDeliveries \in Int
        BY ServicesAssumption
      <4>2. IsFiniteSet(1..MaxDeliveries)
        BY <4>1, FS_Interval
      <4> QED BY <4>2 DEF WD!Deliveries
    <3> QED BY <2>2, <3>1, FS_Subset
  <2>5. \A s \in {"success", "dead"} :
          /\ Cardinality(WD!Counted(s)) \in Nat
          /\ Cardinality(WD!Counted(s)') = Cardinality(WD!Counted(s)) + (IF v2'[id].status = s THEN 1 ELSE 0)
    <3> SUFFICES ASSUME NEW s \in {"success", "dead"}
                 PROVE  /\ Cardinality(WD!Counted(s)) \in Nat
                        /\ Cardinality(WD!Counted(s)') = Cardinality(WD!Counted(s)) + (IF v2'[id].status = s THEN 1 ELSE 0)
      OBVIOUS
    <3> DEFINE C == WD!Counted(s)
    <3>1. IsFiniteSet(C) /\ id \notin C /\ WD!Counted(s)' = IF v2'[id].status = s THEN C \union {id} ELSE C
      BY <2>1, <2>3, <2>4
    <3>2. Cardinality(C) \in Nat /\ Cardinality(C \union {id}) = Cardinality(C) + 1
      BY <3>1, FS_CardinalityType, FS_AddElement
    <3> HIDE DEF C
    <3>3. CASE v2'[id].status = s
      BY <3>1, <3>2, <3>3 DEF C
    <3>4. CASE v2'[id].status # s
      <4>1. WD!Counted(s)' = C /\ Cardinality(C) + 0 = Cardinality(C)
        BY <3>1, <3>2, <3>4
      <4> QED BY <3>2, <3>4, <4>1 DEF C
    <3> QED BY <3>3, <3>4
  <2>6. v1.successes = Cardinality(WD!Counted("success")) /\ v1.failures = Cardinality(WD!Counted("dead"))
    BY <1>0, DeliveriesAreCounted DEF WD!Tally
  <2>7. v1'.successes = Cardinality(WD!Counted("success")') /\ v1'.failures = Cardinality(WD!Counted("dead")')
    BY <2>5, <2>6
  <2> QED BY <2>7, DeliveriesAreCounted DEF WD!Tally
<1> QED BY <1>4, <1>5, <1>7, <1>8 DEF WD!Calm

\* A worker that handles no delivery takes a step of retryDeadLetter.
LEMMA BystanderMoves ==
  ASSUME WD!Calm, NEW w \in Calls, w \notin WD!Holders, NEW R, v5' = [v5 EXCEPT ![w] = R],
         R.pc \in {"idle", "requeuing", "marking"}, {"pc"} \subseteq DOMAIN R, R.pc # "idle" => {"id"} \subseteq DOMAIN R,
         v1.publisher # "creating", UNCHANGED <<v1, v4>>,
         v2' = [d \in WD!Deliveries |-> v2'[d]], v3' = [d \in WD!Deliveries |-> v3'[d]],
         \A d \in WD!Deliveries : v2'[d] = v2[d] \/ (v2[d].status = "absent" /\ v2'[d].status = "pending")
  PROVE  WD!Calm'
<1>0. WD!Shape /\ WD!Publishing /\ WD!OneHandler /\ WD!Tally
  BY DEF WD!Calm
<1>1. v5' = [x \in Calls |-> v5'[x]] /\ v5'[w] = R /\ \A x \in Calls : x # w => v5'[x] = v5[x]
  BY <1>0, WorkerGoesOn
<1>2. WD!Holders' = WD!Holders /\ (\A x \in WD!Holders : v5'[x] = v5[x]) /\ WD!Holders \subseteq Calls
  BY <1>1 DEF WD!Holders, WD!Handling, WD!Settling
<1>3. WD!Shape'
  BY <1>0, <1>1, <1>2 DEF WD!Shape
<1>4. WD!Publishing'
  <2>1. v1.publisher = "enqueuing" => \A d \in v1.next..Subscribers : d \in WD!Deliveries /\ v2'[d] = v2[d]
    <3> SUFFICES ASSUME v1.publisher = "enqueuing", NEW d \in v1.next..Subscribers PROVE d \in WD!Deliveries /\ v2'[d] = v2[d]
      OBVIOUS
    <3>1. v1.next \in 1..Subscribers /\ v2[d].status = "pending"
      BY <1>0 DEF WD!Publishing
    <3>2. d \in WD!Deliveries
      BY <3>1, ServicesAssumption DEF WD!Deliveries
    <3> QED BY <3>1, <3>2
  <2> QED BY <1>0, <1>2, <2>1 DEF WD!Publishing
<1>5. WD!OneHandler'
  <2>1. \A x \in WD!Holders : v5[x].id \in WD!Deliveries /\ v2[v5[x].id].status # "absent"
    BY <1>0 DEF WD!OneHandler, WD!Settling
  <2>2. \A x \in WD!Holders : v2'[v5[x].id] = v2[v5[x].id]
    BY <2>1
  <2>3. \A d \in v4 : v2'[d] = v2[d]
    BY <1>0 DEF WD!OneHandler, WD!Shape
  <2> QED BY <1>0, <1>2, <2>2, <2>3 DEF WD!OneHandler
<1>6. WD!Tally'
  <2>1. WD!Counted("success")' = WD!Counted("success") /\ WD!Counted("dead")' = WD!Counted("dead")
    BY <1>2 DEF WD!Counted
  <2> QED BY <1>0, <2>1, TallyStays
<1> QED BY <1>3, <1>4, <1>5, <1>6 DEF WD!Calm

\* A job becomes a handler.
LEMMA TakeJobInv ==
  ASSUME WD!Calm, NEW w \in Calls, NEW d \in WD!Deliveries, WD!TakeJob(w, d)
  PROVE  WD!Calm'
<1> DEFINE R == [pc |-> "starting", id |-> d, attempts |-> v2[d].attempts, result |-> "none"]
<1>0. /\ v5[w].pc = "idle" /\ d \in v4 /\ v4' = v4 \ {d} /\ v5' = [v5 EXCEPT ![w] = R] /\ UNCHANGED <<v1, v2, v3>>
  BY DEF WD!TakeJob
<1>1. R.pc = "starting" /\ R.id = d /\ {"pc", "id", "attempts", "result"} \subseteq DOMAIN R
  OBVIOUS
<1> HIDE DEF R
<1>2. WD!Shape /\ WD!Publishing /\ WD!OneHandler /\ WD!Tally
  BY DEF WD!Calm
<1>3. v5' = [x \in Calls |-> v5'[x]] /\ v5'[w] = R /\ \A x \in Calls : x # w => v5'[x] = v5[x]
  BY <1>0, <1>2, WorkerGoesOn
<1>4. WD!Holders' = WD!Holders \union {w} /\ w \notin WD!Holders /\ \A x \in WD!Holders : x \in Calls /\ x # w /\ v5'[x] = v5[x]
  BY <1>0, <1>1, <1>3 DEF WD!Holders, WD!Handling, WD!Settling
<1>5. v2[d].status = "pending" /\ \A x \in WD!Holders : v5[x].id # d
  BY <1>0, <1>2 DEF WD!OneHandler
<1>6. WD!Shape'
  <2>1. \A x \in WD!Holders' : {"pc", "id", "attempts", "result"} \subseteq DOMAIN v5'[x]
    BY <1>1, <1>2, <1>3, <1>4 DEF WD!Shape
  <2>2. \A x \in Calls : v5'[x].pc \in {"idle", "requeuing", "marking"} \union WD!Handling /\ {"pc"} \subseteq DOMAIN v5'[x]
    BY <1>1, <1>2, <1>3 DEF WD!Shape, WD!Handling
  <2>3. \A x \in Calls : v5'[x].pc \in {"requeuing", "marking"} => {"pc", "id"} \subseteq DOMAIN v5'[x]
    BY <1>1, <1>2, <1>3 DEF WD!Shape
  <2> QED BY <1>0, <1>2, <1>3, <2>1, <2>2, <2>3 DEF WD!Shape
<1>7. WD!Publishing'
  <2>1. v1.publisher # "creating"
    BY <1>0, <1>2 DEF WD!Publishing
  <2>2. v1.publisher = "enqueuing" => d \notin v1.next..Subscribers
    BY <1>0, <1>2 DEF WD!Publishing
  <2> QED BY <1>0, <1>1, <1>2, <1>3, <1>4, <2>1, <2>2 DEF WD!Publishing
<1>8. WD!OneHandler'
  BY <1>0, <1>1, <1>2, <1>3, <1>4, <1>5 DEF WD!OneHandler, WD!Settling
<1>9. WD!Tally'
  <2>1. WD!Counted("success")' = WD!Counted("success") /\ WD!Counted("dead")' = WD!Counted("dead")
    BY <1>0, <1>1, <1>3, <1>4 DEF WD!Counted, WD!Settling
  <2> QED BY <1>0, <1>2, <2>1, TallyStays
<1> QED BY <1>6, <1>7, <1>8, <1>9 DEF WD!Calm

\* The steps of executeDelivery and processDelivery that keep their delivery.
LEMMA HandlerGoesOnInv ==
  ASSUME WD!Calm, NEW w \in Calls,
         WD!Blocked(w) \/ WD!SaveDelivering(w) \/ WD!Post(w) \/ WD!SaveSuccess(w) \/ WD!SaveDead(w) \/ WD!SaveDeadLetter(w)
  PROVE  WD!Calm'
<1> DEFINE id == v5[w].id
           R == v5'[w]
<1>0. WD!Shape /\ WD!OneHandler /\ v2 = [d \in WD!Deliveries |-> v2[d]] /\ v3 = [d \in WD!Deliveries |-> v3[d]]
      /\ v5 = [x \in Calls |-> v5[x]]
  BY DEF WD!Calm, WD!Shape
<1>1. w \in WD!Holders
  BY DEF WD!Blocked, WD!SaveDelivering, WD!Post, WD!SaveSuccess, WD!SaveDead, WD!SaveDeadLetter, WD!SaveResult,
         WD!Holders, WD!Handling, WD!Settling
<1>2. id \in WD!Deliveries /\ {"pc", "id", "attempts", "result"} \subseteq DOMAIN v5[w]
  BY <1>0, <1>1 DEF WD!OneHandler, WD!Shape
<1>3. v2' = v2 \/ \E s \in {"delivering", "success", "dead"} : \E n : v2' = [v2 EXCEPT ![id] = [status |-> s, attempts |-> n]]
  BY DEF WD!Blocked, WD!SaveDelivering, WD!Post, WD!SaveSuccess, WD!SaveDead, WD!SaveDeadLetter, WD!SaveResult
<1>4. v2' = [d \in WD!Deliveries |-> v2'[d]] /\ \A d \in WD!Deliveries : d # id => v2'[d] = v2[d]
  BY <1>0, <1>2, <1>3
<1>5. v3' = [d \in WD!Deliveries |-> v3'[d]] /\ UNCHANGED <<v1, v4>>
  BY <1>0 DEF WD!Blocked, WD!SaveDelivering, WD!Post, WD!SaveSuccess, WD!SaveDead, WD!SaveDeadLetter, WD!SaveResult
\* Where the handler is next agrees with what the row says.
<1>6. /\ v5' = [v5 EXCEPT ![w] = R] /\ R.id = id /\ {"pc", "id", "attempts", "result"} \subseteq DOMAIN R
      /\ \/ R.pc \in {"posting", "saving"} /\ v2'[id].status \in {"pending", "delivering"}
         \/ R.pc = "counting" /\ v2'[id].status = "success"
         \/ R.pc \in {"burying", "countingFailure"} /\ v2'[id].status = "dead"
  <2>0. /\ v5[w].pc \in {"starting", "posting", "saving"} => v2[id].status \in {"pending", "delivering"}
        /\ v5[w].pc = "burying" => v2[id].status = "dead"
    BY <1>0, <1>1 DEF WD!OneHandler, WD!Settling
  <2>1. ASSUME NEW p, NEW r, v5' = [v5 EXCEPT ![w].pc = p, ![w].result = r]
        PROVE  v5' = [v5 EXCEPT ![w] = R] /\ R.id = id /\ {"pc", "id", "attempts", "result"} \subseteq DOMAIN R /\ R.pc = p
    BY <1>0, <1>2, <2>1
  <2>2. ASSUME NEW p, v5' = [v5 EXCEPT ![w].pc = p]
        PROVE  v5' = [v5 EXCEPT ![w] = R] /\ R.id = id /\ {"pc", "id", "attempts", "result"} \subseteq DOMAIN R /\ R.pc = p
    BY <1>0, <1>2, <2>2
  <2>3. ASSUME NEW s, NEW n, v2' = [v2 EXCEPT ![id] = [status |-> s, attempts |-> n]] PROVE v2'[id].status = s
    BY <1>0, <1>2, <2>3
  <2> HIDE DEF R
  <2>4. CASE WD!Blocked(w) \/ WD!Post(w)
    <3>1. PICK r : v5' = [v5 EXCEPT ![w].pc = "saving", ![w].result = r]
      BY <2>4 DEF WD!Blocked, WD!Post
    <3>2. UNCHANGED v2 /\ v5[w].pc \in {"starting", "posting"}
      BY <2>4 DEF WD!Blocked, WD!Post
    <3> QED BY <2>0, <2>1, <3>1, <3>2
  <2>5. CASE WD!SaveDelivering(w)
    <3>1. v5' = [v5 EXCEPT ![w].pc = "posting"] /\ v2' = [v2 EXCEPT ![id] = [status |-> "delivering", attempts |-> v5[w].attempts]]
      BY <2>5 DEF WD!SaveDelivering
    <3> QED BY <2>2, <2>3, <3>1
  <2>6. CASE WD!SaveSuccess(w)
    <3>1. v5' = [v5 EXCEPT ![w].pc = "counting"] /\ v2' = [v2 EXCEPT ![id] = [status |-> "success", attempts |-> v5[w].attempts + 1]]
      BY <2>6 DEF WD!SaveSuccess, WD!SaveResult
    <3> QED BY <2>2, <2>3, <3>1
  <2>7. CASE WD!SaveDead(w)
    <3>1. v5' = [v5 EXCEPT ![w].pc = "burying"] /\ v2' = [v2 EXCEPT ![id] = [status |-> "dead", attempts |-> v5[w].attempts + 1]]
      BY <2>7 DEF WD!SaveDead, WD!SaveResult
    <3> QED BY <2>2, <2>3, <3>1
  <2>8. CASE WD!SaveDeadLetter(w)
    <3>1. v5' = [v5 EXCEPT ![w].pc = "countingFailure"] /\ UNCHANGED v2 /\ v5[w].pc = "burying"
      BY <2>8 DEF WD!SaveDeadLetter
    <3> QED BY <2>0, <2>2, <3>1
  <2> QED BY <2>4, <2>5, <2>6, <2>7, <2>8
<1> HIDE DEF R
<1>7. /\ R.pc \in WD!Handling /\ (R.pc = "counting" => v2'[id].status = "success")
      /\ R.pc \in {"burying", "countingFailure"} => v2'[id].status = "dead"
      /\ R.pc \notin WD!Settling => v2'[id].status \in {"pending", "delivering"}
  BY <1>6 DEF WD!Handling, WD!Settling
<1> QED BY <1>1, <1>4, <1>5, <1>6, <1>7, HandlerAdvances

LEMMA CountsAreNumbers ==
  ASSUME WD!Calm
  PROVE  v1.successes \in Nat /\ v1.failures \in Nat
<1>1. IsFiniteSet(WD!Deliveries)
  <2>1. 1 \in Int /\ MaxDeliveries \in Int
    BY ServicesAssumption
  <2>2. IsFiniteSet(1..MaxDeliveries)
    BY <2>1, FS_Interval
  <2> QED BY <2>2 DEF WD!Deliveries
<1>2. WD!Counted("success") \subseteq WD!Deliveries /\ WD!Counted("dead") \subseteq WD!Deliveries
  BY DEF WD!Counted
<1>3. IsFiniteSet(WD!Counted("success")) /\ IsFiniteSet(WD!Counted("dead"))
  BY <1>1, <1>2, FS_Subset
<1>4. Cardinality(WD!Counted("success")) \in Nat /\ Cardinality(WD!Counted("dead")) \in Nat
  BY <1>3, FS_CardinalityType
<1> QED BY <1>4, DeliveriesAreCounted DEF WD!Calm, WD!Tally

LEMMA SaveFailedDeliveryInv ==
  ASSUME WD!Calm, NEW w \in Calls, WD!SaveFailed(w)
  PROVE  WD!Calm'
<1> DEFINE id == v5[w].id
           X == [status |-> "failed", attempts |-> v5[w].attempts + 1]
<1>0. v5[w].pc = "saving" /\ v2' = [v2 EXCEPT ![id] = X] /\ WD!Return(w) /\ UNCHANGED <<v1, v3, v4>>
  BY DEF WD!SaveFailed, WD!SaveResult
<1>1. w \in WD!Holders
  BY <1>0 DEF WD!Holders, WD!Handling
<1>2. X.status = "failed"
  OBVIOUS
<1> HIDE DEF X
<1>3. id \in WD!Deliveries /\ v2 = [d \in WD!Deliveries |-> v2[d]]
  BY <1>1 DEF WD!Calm, WD!OneHandler, WD!Shape
<1>4. v2' = [d \in WD!Deliveries |-> IF d = id THEN X ELSE v2[d]]
  BY <1>0, <1>3
<1>5. v2' = [d \in WD!Deliveries |-> v2'[d]] /\ v2'[id].status = "failed" /\ \A d \in WD!Deliveries : d # id => v2'[d] = v2[d]
  BY <1>2, <1>3, <1>4
<1>6. v1.successes \in Nat /\ v1.failures \in Nat
  BY CountsAreNumbers
<1>7. /\ {"publisher", "next", "successes", "failures"} \subseteq DOMAIN v1'
      /\ v1'.successes = v1.successes + 0 /\ v1'.failures = v1.failures + 0
  BY <1>0, <1>6 DEF WD!Calm, WD!Shape
<1> HIDE DEF id
<1>8. /\ v1'.successes = v1.successes + (IF v2'[id].status = "success" THEN 1 ELSE 0)
      /\ v1'.failures = v1.failures + (IF v2'[id].status = "dead" THEN 1 ELSE 0)
  BY <1>5, <1>7
<1> QED BY <1>0, <1>1, <1>5, <1>7, <1>8, HandlerLeaves DEF id

\* A settled delivery is counted once the publisher is done, or it is overtaken.
LEMMA CountInv ==
  ASSUME WD!Calm, NEW w \in Calls, WD!CountSuccess(w) \/ WD!CountFailure(w), ~v6'
  PROVE  WD!Calm'
<1> DEFINE id == v5[w].id
<1>0. v5[w].pc \in {"counting", "countingFailure"} /\ WD!Return(w) /\ UNCHANGED <<v2, v3, v4>>
  BY DEF WD!CountSuccess, WD!CountFailure
<1>1. w \in WD!Holders
  BY <1>0 DEF WD!Holders, WD!Handling, WD!Settling
<1>2. id \in WD!Deliveries /\ v2 = [d \in WD!Deliveries |-> v2[d]]
  BY <1>1 DEF WD!Calm, WD!OneHandler, WD!Shape
<1>3. v1.publisher = "done"
  <2>1. v6' = (v6 \/ v1.publisher # "done")
    BY DEF WD!CountSuccess, WD!CountFailure
  <2> QED BY <2>1, Zenon
<1>4. v1.successes \in Nat /\ v1.failures \in Nat /\ {"publisher", "next", "successes", "failures"} \subseteq DOMAIN v1
  BY CountsAreNumbers DEF WD!Calm, WD!Shape
<1>5. /\ {"publisher", "next", "successes", "failures"} \subseteq DOMAIN v1'
      /\ v1'.publisher = v1.publisher /\ v1'.next = v1.next
      /\ v1'.successes = v1.successes + (IF v2[id].status = "success" THEN 1 ELSE 0)
      /\ v1'.failures = v1.failures + (IF v2[id].status = "dead" THEN 1 ELSE 0)
  <2>1. CASE WD!CountSuccess(w)
    <3>1. v2[id].status = "success"
      BY <1>1, <2>1 DEF WD!CountSuccess, WD!Calm, WD!OneHandler
    <3>2. v1' = [v1 EXCEPT !.successes = @ + 1]
      BY <2>1 DEF WD!CountSuccess
    <3> QED BY <1>4, <3>1, <3>2
  <2>2. CASE WD!CountFailure(w)
    <3>1. v2[id].status = "dead"
      BY <1>1, <2>2 DEF WD!CountFailure, WD!Calm, WD!OneHandler
    <3>2. v1' = [v1 EXCEPT !.failures = @ + 1]
      BY <2>2 DEF WD!CountFailure
    <3> QED BY <1>4, <3>1, <3>2
  <2> QED BY <2>1, <2>2
<1>6. v2' = [d \in WD!Deliveries |-> v2'[d]] /\ v2' = v2
  BY <1>0, <1>2
<1> HIDE DEF id
<1>7. /\ v1'.successes = v1.successes + (IF v2'[id].status = "success" THEN 1 ELSE 0)
      /\ v1'.failures = v1.failures + (IF v2'[id].status = "dead" THEN 1 ELSE 0)
  BY <1>5, <1>6
<1> QED BY <1>0, <1>1, <1>3, <1>5, <1>6, <1>7, HandlerLeaves DEF id

LEMMA RetryInv ==
  ASSUME WD!Calm, NEW w \in Calls,
         \/ WD!MarkRetried(w)
         \/ \E d \in WD!Deliveries : WD!RetryDeadLetter(w, d) \/ WD!RequeueDeadLetter(w, d)
  PROVE  WD!Calm'
<1>0. /\ WD!Shape /\ v2 = [d \in WD!Deliveries |-> v2[d]] /\ v3 = [d \in WD!Deliveries |-> v3[d]]
      /\ v5 = [x \in Calls |-> v5[x]]
      /\ v5[w].pc \in {"requeuing", "marking"} => {"pc", "id"} \subseteq DOMAIN v5[w]
  BY DEF WD!Calm, WD!Shape
<1>1. w \notin WD!Holders /\ UNCHANGED <<v1, v4>>
  BY DEF WD!MarkRetried, WD!RetryDeadLetter, WD!RequeueDeadLetter, WD!Holders, WD!Handling, WD!Settling
<1>2. v1.publisher # "creating"
  BY DEF WD!MarkRetried, WD!RetryDeadLetter, WD!RequeueDeadLetter, WD!Calm, WD!Publishing
<1>3. CASE WD!MarkRetried(w)
  <2> DEFINE R == [pc |-> "idle"]
  <2>1. R.pc = "idle" /\ {"pc"} \subseteq DOMAIN R
    OBVIOUS
  <2>2. v5' = [v5 EXCEPT ![w] = R] /\ UNCHANGED v2 /\ v3' = [d \in WD!Deliveries |-> v3'[d]]
    BY <1>0, <1>3 DEF WD!MarkRetried
  <2> HIDE DEF R
  <2>3. v2' = [d \in WD!Deliveries |-> v2'[d]]
    BY <1>0, <2>2
  <2> QED BY <1>1, <1>2, <2>1, <2>2, <2>3, BystanderMoves
<1>4. CASE \E d \in WD!Deliveries : WD!RetryDeadLetter(w, d)
  <2>1. PICK d \in WD!Deliveries : WD!RetryDeadLetter(w, d)
    BY <1>4
  <2> DEFINE R == [pc |-> "requeuing", id |-> d]
  <2>2. R.pc = "requeuing" /\ {"pc"} \subseteq DOMAIN R /\ {"id"} \subseteq DOMAIN R
    OBVIOUS
  <2>3. v5' = [v5 EXCEPT ![w] = R] /\ UNCHANGED <<v2, v3>>
    BY <2>1 DEF WD!RetryDeadLetter
  <2> HIDE DEF R
  <2>4. v2' = [e \in WD!Deliveries |-> v2'[e]] /\ v3' = [e \in WD!Deliveries |-> v3'[e]]
    BY <1>0, <2>3
  <2> QED BY <1>1, <1>2, <2>2, <2>3, <2>4, BystanderMoves
<1>5. CASE \E n \in WD!Deliveries : WD!RequeueDeadLetter(w, n)
  <2>1. PICK n \in WD!Deliveries : WD!RequeueDeadLetter(w, n)
    BY <1>5
  <2> DEFINE R == [v5[w] EXCEPT !.pc = "marking"]
             X == [status |-> "pending", attempts |-> 0]
  <2>2. v5' = [v5 EXCEPT ![w] = R] /\ v2' = [v2 EXCEPT ![n] = X] /\ UNCHANGED v3 /\ v5[w].pc = "requeuing"
    BY <2>1 DEF WD!RequeueDeadLetter
  <2>3. R.pc = "marking" /\ {"pc"} \subseteq DOMAIN R /\ {"id"} \subseteq DOMAIN R /\ X.status = "pending"
    BY <1>0, <2>2
  <2>4. v2[n].status = "absent"
    <3>1. {e \in WD!Deliveries : v2[e].status # "absent"} = 1..n - 1
      BY <2>1 DEF WD!RequeueDeadLetter, WD!Fresh
    <3>2. n \notin 1..n - 1
      BY ServicesAssumption DEF WD!Deliveries
    <3> QED BY <3>1, <3>2
  <2> HIDE DEF R, X
  <2>5. v2' = [e \in WD!Deliveries |-> IF e = n THEN X ELSE v2[e]]
    BY <1>0, <2>2
  <2>6. /\ v2' = [e \in WD!Deliveries |-> v2'[e]] /\ v3' = [e \in WD!Deliveries |-> v3'[e]]
        /\ \A e \in WD!Deliveries : v2'[e] = v2[e] \/ (v2[e].status = "absent" /\ v2'[e].status = "pending")
    BY <1>0, <2>2, <2>3, <2>4, <2>5
  <2> QED BY <1>1, <1>2, <2>2, <2>3, <2>6, BystanderMoves
<1> QED BY <1>3, <1>4, <1>5

LEMMA WebhooksStep ==
  ASSUME WD!IInv, WD!Next
  PROVE  WD!IInv'
<1>1. (v7 => v7') /\ (v6 => v6')
  <2>1. CASE \E w \in Calls : WD!CountSuccess(w) \/ WD!CountFailure(w)
    <3>1. v6' = (v6 \/ v1.publisher # "done") /\ v7' = v7
      BY <2>1 DEF WD!CountSuccess, WD!CountFailure
    <3> QED BY <3>1, Zenon
  <2>2. CASE WD!PublishFails \/ \E w \in Calls : WD!Fault(w) \/ WD!Stall(w)
    <3>1. v6' = v6 /\ v7' = TRUE
      BY <2>2 DEF WD!PublishFails, WD!Fault, WD!Stall
    <3> QED BY <3>1, Zenon
  <2>3. CASE WD!Publish \/ \E w \in Calls :
                \/ \E d \in WD!Deliveries : WD!TakeJob(w, d) \/ WD!RetryDeadLetter(w, d) \/ WD!RequeueDeadLetter(w, d)
                \/ WD!Blocked(w) \/ WD!SaveDelivering(w) \/ WD!Post(w)
                \/ WD!SaveSuccess(w) \/ WD!SaveFailed(w) \/ WD!SaveDead(w) \/ WD!SaveDeadLetter(w) \/ WD!MarkRetried(w)
    <3>1. UNCHANGED <<v6, v7>>
      BY <2>3 DEF WD!Publish, WD!CreateDelivery, WD!Enqueue, WD!ClosePublish, WD!TakeJob, WD!Blocked,
         WD!SaveDelivering, WD!Post, WD!SaveSuccess, WD!SaveFailed, WD!SaveDead, WD!SaveResult,
         WD!SaveDeadLetter, WD!RetryDeadLetter, WD!RequeueDeadLetter, WD!MarkRetried
    <3> QED BY <3>1
  <2> QED BY <2>1, <2>2, <2>3 DEF WD!Next, WD!Handle
<1> SUFFICES ASSUME WD!Calm, ~v6', ~v7' PROVE WD!Calm'
  BY <1>1 DEF WD!IInv
<1>2. CASE WD!Publish
  BY <1>2, CreateDeliveryInv, EnqueueInv, ClosePublishInv DEF WD!Publish
<1>3. CASE WD!PublishFails \/ \E w \in Calls : WD!Fault(w) \/ WD!Stall(w)
  BY <1>3 DEF WD!PublishFails, WD!Fault, WD!Stall
<1>4. ASSUME NEW w \in Calls, WD!Handle(w) PROVE WD!Calm'
  BY <1>4, TakeJobInv, HandlerGoesOnInv, SaveFailedDeliveryInv, CountInv DEF WD!Handle
<1>5. ASSUME NEW w \in Calls,
             \/ WD!MarkRetried(w)
             \/ \E d \in WD!Deliveries : WD!RetryDeadLetter(w, d) \/ WD!RequeueDeadLetter(w, d)
      PROVE  WD!Calm'
  BY <1>5, RetryInv
<1> QED BY <1>2, <1>3, <1>4, <1>5 DEF WD!Next

LEMMA WebhooksStutter ==
  ASSUME WD!IInv, UNCHANGED others
  PROVE  WD!IInv'
<1>1. WD!Holders' = WD!Holders /\ WD!Counted("success")' = WD!Counted("success") /\ WD!Counted("dead")' = WD!Counted("dead")
  BY DEF others, WD!Holders, WD!Counted
<1>2. WD!Calm => WD!Calm'
  <2> SUFFICES ASSUME WD!Calm PROVE WD!Calm'
    OBVIOUS
  <2>1. WD!Tally'
    BY <1>1, TallyStays DEF others, WD!Calm
  <2>2. WD!Shape'
    BY <1>1 DEF others, WD!Calm, WD!Shape
  <2>3. WD!Publishing'
    BY <1>1 DEF others, WD!Calm, WD!Publishing
  <2>4. WD!OneHandler'
    BY <1>1 DEF others, WD!Calm, WD!OneHandler
  <2> QED BY <2>1, <2>2, <2>3, <2>4 DEF WD!Calm
<1> QED BY <1>2 DEF others, WD!IInv

LEMMA WebhooksInv == ServicesSpec => [](service = "webhookDelivery" => WD!IInv)
<1>1. ServicesInit => (service = "webhookDelivery" => WD!IInv)
  BY WebhooksInit DEF ServicesInit, OtherInit
<1>2. (service = "webhookDelivery" => WD!IInv) /\ [ServicesNext]_ServicesVars => (service = "webhookDelivery" => WD!IInv)'
  <2> SUFFICES ASSUME service' = "webhookDelivery", service = "webhookDelivery" => WD!IInv, [ServicesNext]_ServicesVars
               PROVE  WD!IInv'
    OBVIOUS
  <2>1. service = "webhookDelivery"
    BY ServiceIsFixed
  <2>2. WD!Next \/ UNCHANGED others
    BY <2>1 DEF ServicesNext, OtherNext, ServicesVars
  <2> QED BY <2>1, <2>2, WebhooksStep, WebhooksStutter DEF others
<1> QED BY <1>1, <1>2, PTL DEF ServicesSpec

\* processDelivery, publishEvent: for any number of subscribers, handlers, attempts
\* and retried dead letters, the event's counts are those of its rows whenever no one
\* is at work, if nothing was disturbed and no delivery overtook the publisher.
THEOREM CountsStayExact == ServicesSpec => []CountsAreExact
<1>1. ASSUME service = "webhookDelivery" => WD!IInv PROVE CountsAreExact
  <2> SUFFICES ASSUME WD!Calm, \A w \in Calls : v5[w].pc = "idle"
               PROVE  v1.successes = WD!With("success") /\ v1.failures = WD!With("dead")
    BY <1>1 DEF CountsAreExact, WD!CountsAreExact, WD!IInv
  <2>1. WD!Holders = {}
    BY DEF WD!Holders, WD!Handling, WD!Settling
  <2>2. \A s : WD!Counted(s) = {d \in WD!Deliveries : v2[d].status = s}
    BY <2>1 DEF WD!Counted
  <2> QED BY <2>2 DEF WD!Calm, WD!Tally, WD!With
<1> QED BY <1>1, WebhooksInv, PTL

HIDE DEF WD!At, WD!Goto, WD!Return, WD!Idle, WD!Row

-----------------------------------------------------------------------------
(* Rate limiting *)

\* Arithmetic of products, which the steps below use with Limit and Window.
LEMMA Distributes ==
  ASSUME NEW a \in Int, NEW b \in Int, NEW k \in Int
  PROVE  a * k \in Int /\ b * k \in Int /\ (a + b) * k = a * k + b * k /\ (a - b) * k = a * k - b * k
  OBVIOUS

LEMMA Scales ==
  ASSUME NEW a \in Int, NEW b \in Int, NEW k \in Nat, a <= b
  PROVE  a * k \in Int /\ b * k \in Int /\ a * k <= b * k
<1>1. (b - a) * k = b * k - a * k /\ a * k \in Int /\ b * k \in Int
  BY Distributes
<1>2. (b - a) * k >= 0
  <2>1. b - a \in Nat
    OBVIOUS
  <2> QED BY <2>1
<1> QED BY <1>1, <1>2

LEMMA RefillAdds ==
  ASSUME NEW spent \in Int, NEW tokens \in Int, NEW cap \in Int, NEW ts \in Int, NEW at \in Int, NEW k \in Nat,
         spent + tokens <= cap + (ts - at) * k,
         NEW t \in Int, NEW left \in Int, left <= tokens + (t - ts) * k
  PROVE  spent + left <= cap + (t - at) * k
<1> DEFINE x == (ts - at) * k
           y == (t - ts) * k
           z == (t - at) * k
<1>1. x \in Int /\ y \in Int /\ z = x + y
  <2>1. ts - at \in Int /\ t - ts \in Int /\ (ts - at) + (t - ts) = t - at
    OBVIOUS
  <2> QED BY <2>1, Distributes
<1>2. spent + tokens <= cap + x /\ left <= tokens + y
  OBVIOUS
<1> HIDE DEF x, y, z
<1>3. spent + left <= cap + z
  BY <1>1, <1>2
<1> QED BY <1>3 DEF z

LEMMA LesserOfTwo ==
  ASSUME NEW a \in Int, NEW b \in Int
  PROVE  RL!Min({a, b}) \in Int /\ RL!Min({a, b}) <= a /\ RL!Min({a, b}) <= b
<1>1. \E x \in {a, b} : \A y \in {a, b} : x <= y
  OBVIOUS
<1> QED BY <1>1 DEF RL!Min

LEMMA CapacityIsNat == RL!Capacity \in Nat /\ RL!Capacity >= Window
<1>1. Burst \in Nat /\ Window \in Nat /\ 1 <= Burst
  BY LimiterAssumption
<1>2. 1 * Window <= Burst * Window
  BY <1>1, Scales
<1> QED BY <1>1, <1>2 DEF RL!Capacity

\* A clock that store s is asked by, at a time at which it may be.
ReadsAs(s, t) == t \in Int /\ v2 + RL!Low(s) <= t /\ t <= v2 + RL!Low(s) + RL!Skew(s)

LEMMA ClocksAreClose ==
  ASSUME v2 \in Int, NEW i \in Instances
  PROVE  ReadsAs(i, RL!Clock(i)) /\ ReadsAs("redis", RL!Clock(i))
  BY LimiterAssumption DEF ReadsAs, RL!Clock, RL!Low, RL!Skew

LEMMA BoundsAreInts ==
  ASSUME NEW s \in RL!Stores
  PROVE  RL!Low(s) \in Int /\ RL!Skew(s) \in Nat
  BY LimiterAssumption DEF RL!Low, RL!Skew, RL!Stores

\* Entries that the window has left behind are those that count no longer.
LEMMA LoggedStays ==
  ASSUME v2 \in Int, NEW s \in RL!Stores, NEW v, RL!IsValue(v), NEW a \in Seq(Int), RL!Logged(s, v, a),
         NEW t, ReadsAs(s, t), v1 = "window"
  PROVE  /\ RL!IsValue(RL!Refresh(v, t)) /\ RL!Refresh(v, t).ts = 0
         /\ RL!Logged(s, RL!Refresh(v, t), a)
<1> DEFINE r == RL!Refresh(v, t)
<1>0. Window \in Nat /\ RL!Low(s) \in Int /\ RL!Skew(s) \in Nat /\ RL!Capacity \in Nat
  BY BoundsAreInts, CapacityIsNat, LimiterAssumption
<1>1. r = [log |-> {e \in v.log : e[1] > t - Window}, tokens |-> RL!Capacity, ts |-> 0]
  BY DEF RL!Refresh
<1>2. r.log = {e \in v.log : e[1] > t - Window} /\ r.tokens = RL!Capacity /\ r.ts = 0
  BY <1>1
<1>3. RL!IsFiniteSet(r.log)
  <2>1. IsFiniteSet(v.log)
    BY DEF RL!IsValue, RL!IsFiniteSet, IsFiniteSet
  <2>2. IsFiniteSet(r.log)
    BY <1>2, <2>1, FS_Subset
  <2> QED BY <2>2 DEF RL!IsFiniteSet, IsFiniteSet
<1>4. RL!IsValue(r)
  BY <1>0, <1>1, <1>2, <1>3 DEF RL!IsValue
<1> HIDE DEF r
<1>5. RL!Logged(s, r, a)
  <2> SUFFICES ASSUME NEW m \in 1..Len(a), ~(v2 - a[m] + RL!Skew(s) >= Window)
               PROVE  \E score \in Int : score >= a[m] + RL!Low(s) /\ <<score, m>> \in r.log
    BY DEF RL!Logged
  <2>0. a[m] \in Int
    BY ElementOfSeq
  <2>1. PICK score \in Int : score >= a[m] + RL!Low(s) /\ <<score, m>> \in v.log
    BY <1>0, <2>0 DEF RL!Logged
  <2>2. score > t - Window
    BY <1>0, <2>0, <2>1 DEF ReadsAs
  <2>3. <<score, m>>[1] = score
    OBVIOUS
  <2> QED BY <1>2, <2>1, <2>2, <2>3
<1> QED BY <1>2, <1>4, <1>5 DEF r

\* A refill adds no more than the time since the last one allows.
LEMMA AccountedStays ==
  ASSUME v2 \in Int, NEW s \in RL!Stores, NEW v, RL!IsValue(v), NEW a \in Seq(Int), RL!Accounted(s, v, a),
         v = RL!NoValue => a = <<>>,
         NEW t, ReadsAs(s, t), v1 = "bucket"
  PROVE  RL!Accounted(s, RL!Refresh(v, t), a)
<1> DEFINE r == RL!Refresh(v, t)
           q == (t - v.ts) * Limit
<1>0. /\ Window \in Nat /\ Limit \in Nat /\ RL!Low(s) \in Int /\ RL!Capacity \in Nat /\ t \in Int
      /\ v.tokens \in Int /\ v.ts \in Int /\ Len(a) \in Nat /\ \A m \in 1..Len(a) : a[m] \in Int
  BY BoundsAreInts, CapacityIsNat, LimiterAssumption, LenProperties, ElementOfSeq DEF ReadsAs, RL!IsValue
<1>1. r.tokens = (IF v = RL!NoValue THEN RL!Capacity ELSE RL!Min({RL!Capacity, v.tokens + q})) /\ r.ts = t
  BY DEF RL!Refresh
<1>2. q \in Int
  BY <1>0, Distributes
<1> HIDE DEF q, r
<1>3. r.tokens \in Int /\ r.tokens <= RL!Capacity /\ (v # RL!NoValue => r.tokens <= v.tokens + q)
  <2>1. v.tokens + q \in Int /\ RL!Capacity \in Int
    BY <1>0, <1>2
  <2>2. /\ RL!Min({RL!Capacity, v.tokens + q}) \in Int /\ RL!Min({RL!Capacity, v.tokens + q}) <= RL!Capacity
        /\ RL!Min({RL!Capacity, v.tokens + q}) <= v.tokens + q
    BY <2>1, LesserOfTwo
  <2> QED BY <1>1, <2>1, <2>2
<1>4. ASSUME NEW m \in 1..Len(a)
      PROVE  (Len(a) - m + 1) * Window + r.tokens <= RL!Capacity + (r.ts - a[m] - RL!Low(s)) * Limit
  <2> DEFINE spent == (Len(a) - m + 1) * Window
             at == a[m] + RL!Low(s)
  <2>1. a[m] \in Int /\ at \in Int /\ spent \in Int /\ v.ts - a[m] - RL!Low(s) = v.ts - at /\ r.ts - a[m] - RL!Low(s) = t - at
    BY <1>0, <1>1
  <2>2. v # RL!NoValue
    BY <1>0, EmptySeq
  <2>3. spent + v.tokens <= RL!Capacity + (v.ts - at) * Limit
    BY <2>1 DEF RL!Accounted
  <2>4. r.tokens <= v.tokens + (t - v.ts) * Limit
    BY <1>3, <2>2 DEF q
  <2> HIDE DEF spent, at
  <2>5. spent + r.tokens <= RL!Capacity + (t - at) * Limit
    <3>1. spent \in Int /\ v.tokens \in Int /\ RL!Capacity \in Int /\ v.ts \in Int /\ at \in Int /\ Limit \in Nat
          /\ t \in Int /\ r.tokens \in Int
      BY <1>0, <1>3, <2>1
    <3> QED BY <2>3, <2>4, <3>1, RefillAdds, Zenon
  <2> QED BY <2>1, <2>5 DEF spent
<1> QED BY <1>3, <1>4 DEF RL!Accounted, r

\* A bucket that Redis drops when it would be full is as good as a full one.
LEMMA FullIsAccounted ==
  ASSUME v2 \in Int, NEW v, RL!IsValue(v), NEW a \in Seq(Int), RL!Accounted("redis", v, a), ~RL!NotYetFull(v),
         NEW t, ReadsAs("redis", t), v1 = "bucket"
  PROVE  RL!Accounted("redis", RL!Refresh(RL!NoValue, t), a)
<1> DEFINE r == RL!Refresh(RL!NoValue, t)
           q == (v2 + Slowest - v.ts) * Limit
<1>0. /\ Window \in Nat /\ Limit \in Nat /\ Slowest \in Int /\ RL!Capacity \in Nat /\ t \in Int
      /\ v.tokens \in Int /\ v.ts \in Int /\ Len(a) \in Nat /\ \A m \in 1..Len(a) : a[m] \in Int
  BY CapacityIsNat, LimiterAssumption, LenProperties, ElementOfSeq DEF ReadsAs, RL!IsValue
<1>1. r.tokens = RL!Capacity /\ r.ts = t
  BY DEF RL!Refresh
<1>2. q \in Int /\ v.tokens + q >= RL!Capacity
  <2>1. q \in Int
    BY <1>0, Distributes
  <2>2. ~(v.tokens + q < RL!Capacity)
    BY DEF RL!NotYetFull
  <2> HIDE DEF q
  <2> QED BY <1>0, <2>1, <2>2
<1>3. RL!Low("redis") = Slowest /\ v2 + Slowest <= t
  BY DEF RL!Low, ReadsAs
<1> HIDE DEF q, r
<1>4. ASSUME NEW m \in 1..Len(a)
      PROVE  (Len(a) - m + 1) * Window + r.tokens <= RL!Capacity + (r.ts - a[m] - RL!Low("redis")) * Limit
  <2> DEFINE spent == (Len(a) - m + 1) * Window
             at == a[m] + Slowest
             full == v2 + Slowest
  <2>1. /\ a[m] \in Int /\ at \in Int /\ spent \in Int /\ full \in Int
        /\ v.ts - a[m] - RL!Low("redis") = v.ts - at /\ r.ts - a[m] - RL!Low("redis") = t - at
    BY <1>0, <1>1, <1>3
  <2>2. spent + v.tokens <= RL!Capacity + (v.ts - at) * Limit
    BY <2>1 DEF RL!Accounted
  <2>3. RL!Capacity <= v.tokens + (full - v.ts) * Limit
    BY <1>0, <1>2 DEF q
  <2>4. full <= t
    BY <1>3
  <2> HIDE DEF spent, at, full
  <2>5. spent + RL!Capacity <= RL!Capacity + (full - at) * Limit
    <3>1. spent \in Int /\ v.tokens \in Int /\ RL!Capacity \in Int /\ v.ts \in Int /\ at \in Int /\ Limit \in Nat
          /\ full \in Int
      BY <1>0, <2>1
    <3> QED BY <2>2, <2>3, <3>1, RefillAdds, Zenon
  <2>6. (full - at) * Limit <= (t - at) * Limit /\ (full - at) * Limit \in Int /\ (t - at) * Limit \in Int
    <3>1. full - at \in Int /\ t - at \in Int /\ full - at <= t - at
      BY <1>0, <2>1, <2>4
    <3> QED BY <1>0, <3>1, Scales
  <2>7. spent + RL!Capacity <= RL!Capacity + (t - at) * Limit
    <3> DEFINE y == (full - at) * Limit
               z == (t - at) * Limit
    <3>1. y <= z /\ y \in Int /\ z \in Int /\ spent + RL!Capacity <= RL!Capacity + y
      BY <2>5, <2>6
    <3> HIDE DEF y, z
    <3>2. spent + RL!Capacity <= RL!Capacity + z
      BY <1>0, <2>1, <3>1
    <3> QED BY <3>2 DEF z
  <2> QED BY <1>1, <2>1, <2>7 DEF spent
<1> QED BY <1>0, <1>1, <1>4 DEF RL!Accounted, r

LEMMA EntriesAreCounted == \A S : RL!Cardinality(S) = Cardinality(S) /\ (RL!IsFiniteSet(S) <=> IsFiniteSet(S))
  BY DEF RL!Cardinality, Cardinality, RL!IsFiniteSet, IsFiniteSet

\* Numbered entries are as many as their numbers.
LEMMA EntriesSuffice ==
  ASSUME NEW L, IsFiniteSet(L), NEW j \in Nat, NEW k \in Nat, j <= k,
         \A n \in j..k : \E score \in Int : <<score, n>> \in L
  PROVE  Cardinality(L) \in Nat /\ k - j + 1 <= Cardinality(L)
<1>1. Cardinality(L) \in Nat
  BY FS_CardinalityType
<1>2. IsFiniteSet(j..k) /\ Cardinality(j..k) = k - j + 1
  BY FS_Interval
<1>3. SUFFICES ASSUME Cardinality(L) < Cardinality(j..k) PROVE FALSE
  BY <1>1, <1>2
<1> DEFINE f == [n \in j..k |-> <<CHOOSE score \in Int : <<score, n>> \in L, n>>]
<1>4. f \in [j..k -> L] /\ \A n \in j..k : f[n][2] = n
  OBVIOUS
<1> HIDE DEF f
<1>5. PICK x, y \in j..k : x # y /\ f[x] = f[y]
  BY <1>2, <1>3, <1>4, FS_PigeonHole
<1> QED BY <1>4, <1>5

LEMMA InOrderAppends ==
  ASSUME v2 \in Int, NEW a \in Seq(Int), RL!InOrder(a)
  PROVE  Append(a, v2) \in Seq(Int) /\ RL!InOrder(Append(a, v2))
<1> DEFINE b == Append(a, v2)
<1>1. /\ b \in Seq(Int) /\ Len(b) = Len(a) + 1 /\ Len(a) \in Nat /\ b[Len(a) + 1] = v2
      /\ \A m \in 1..Len(a) : b[m] = a[m] /\ a[m] \in Int
  BY AppendProperties, LenProperties, ElementOfSeq
<1> HIDE DEF b
<1>2. RL!InOrder(b)
  <2> SUFFICES ASSUME NEW n \in 1..Len(a) + 1, NEW m \in 1..n PROVE b[n] <= v2 /\ b[m] <= b[n]
    BY <1>1 DEF RL!InOrder
  <2>1. CASE n = Len(a) + 1
    <3>1. \A l \in 1..Len(a) : a[l] <= v2
      BY DEF RL!InOrder
    <3> QED BY <1>1, <2>1, <3>1
  <2>2. CASE n \in 1..Len(a)
    <3>1. m \in 1..Len(a) /\ a[n] <= v2 /\ a[m] <= a[n]
      BY <1>1, <2>2 DEF RL!InOrder
    <3> QED BY <1>1, <2>2, <3>1
  <2> QED BY <1>1, <2>1, <2>2
<1> QED BY <1>1, <1>2 DEF b

\* The window admits a request only if fewer than limit others count.
LEMMA WindowAdmits ==
  ASSUME v2 \in Int, NEW s \in RL!Stores, NEW w, RL!IsValue(w), v6[s] \in Seq(Int), RL!InOrder(v6[s]),
         RL!Logged(s, w, v6[s]), RL!WithinWindow(s, v6[s]), NEW t, ReadsAs(s, t), v1 = "window", RL!Allows(w)
  PROVE  /\ RL!IsValue(RL!Spend(s, w, t)) /\ RL!Spend(s, w, t).ts = w.ts
         /\ RL!Logged(s, RL!Spend(s, w, t), Append(v6[s], v2))
         /\ RL!WithinWindow(s, Append(v6[s], v2))
<1> DEFINE a == v6[s]
           b == Append(a, v2)
           u == RL!Spend(s, w, t)
<1>0. /\ Window \in Nat \ {0} /\ Limit \in Nat \ {0} /\ RL!Low(s) \in Int /\ RL!Skew(s) \in Nat /\ t \in Int
      /\ v2 + RL!Low(s) <= t
  BY BoundsAreInts, LimiterAssumption DEF ReadsAs
<1>1. /\ b \in Seq(Int) /\ Len(b) = Len(a) + 1 /\ Len(a) \in Nat /\ b[Len(a) + 1] = v2
      /\ \A m \in 1..Len(a) : b[m] = a[m] /\ a[m] \in Int
  BY AppendProperties, LenProperties, ElementOfSeq
<1>2. u = [w EXCEPT !.log = @ \union {<<t, Len(a) + 1>>}]
  BY DEF RL!Spend
<1>3. /\ u = [log |-> w.log \union {<<t, Len(a) + 1>>}, tokens |-> w.tokens, ts |-> w.ts]
      /\ u.log = w.log \union {<<t, Len(a) + 1>>} /\ u.tokens = w.tokens /\ u.ts = w.ts
  BY <1>2 DEF RL!IsValue
<1>4. IsFiniteSet(w.log) /\ Cardinality(w.log) < Limit
  BY EntriesAreCounted DEF RL!IsValue, RL!Allows
<1>5. RL!IsValue(u)
  <2>1. IsFiniteSet(u.log)
    BY <1>3, <1>4, FS_AddElement
  <2> QED BY <1>3, <2>1, EntriesAreCounted DEF RL!IsValue
<1> HIDE DEF a, b, u
<1>6. RL!Logged(s, u, b)
  <2> SUFFICES ASSUME NEW m \in 1..Len(a) + 1, ~(v2 - b[m] + RL!Skew(s) >= Window)
               PROVE  \E score \in Int : score >= b[m] + RL!Low(s) /\ <<score, m>> \in u.log
    BY <1>1 DEF RL!Logged
  <2>1. CASE m = Len(a) + 1
    <3>1. <<t, m>> \in u.log
      BY <1>3, <2>1
    <3>2. t \in Int /\ t >= b[m] + RL!Low(s)
      BY <1>0, <1>1, <2>1
    <3> QED BY <3>1, <3>2
  <2>2. CASE m \in 1..Len(a)
    <3>1. b[m] = a[m]
      BY <1>1, <2>2
    <3>2. PICK score \in Int : score >= a[m] + RL!Low(s) /\ <<score, m>> \in w.log
      BY <2>2, <3>1 DEF RL!Logged, a
    <3>3. <<score, m>> \in u.log
      BY <1>3, <3>2
    <3> QED BY <3>1, <3>2, <3>3
  <2>3. m = Len(a) + 1 \/ m \in 1..Len(a)
    BY <1>1
  <2> QED BY <2>1, <2>2, <2>3
<1>7. RL!WithinWindow(s, b)
  <2> SUFFICES ASSUME NEW n \in 1..Len(a) + 1, NEW m \in 1..n, b[n] - b[m] + RL!Skew(s) < Window
               PROVE  n - m + 1 <= Limit
    BY <1>1 DEF RL!WithinWindow, RL!Between
  <2>1. CASE n \in 1..Len(a)
    <3>1. m \in 1..Len(a) /\ b[n] = a[n] /\ b[m] = a[m]
      BY <1>1, <2>1
    <3> QED BY <2>1, <3>1 DEF RL!WithinWindow, RL!Between, a
  <2>2. CASE n = Len(a) + 1 /\ m = n
    BY <1>0, <2>2
  <2>3. CASE n = Len(a) + 1 /\ m # n
    <3>0. m \in 1..Len(a) /\ m \in Nat /\ m <= Len(a)
      BY <1>1, <2>3
    <3>1. ASSUME NEW l \in m..Len(a) PROVE \E score \in Int : <<score, l>> \in w.log
      <4>1. l \in 1..Len(a) /\ m \in 1..l /\ l \in 1..Len(a)
        BY <1>1, <3>0
      <4>2. a[m] <= a[l] /\ a[m] \in Int /\ a[l] \in Int
        BY <1>1, <3>0, <4>1 DEF RL!InOrder, a
      <4>3. ~(v2 - a[l] + RL!Skew(s) >= Window)
        BY <1>0, <1>1, <2>3, <3>0, <4>2
      <4> QED BY <4>1, <4>3 DEF RL!Logged, a
    <3>2. Cardinality(w.log) \in Nat /\ Len(a) - m + 1 <= Cardinality(w.log)
      BY <1>1, <1>4, <3>0, <3>1, EntriesSuffice
    <3> QED BY <1>0, <1>1, <1>4, <2>3, <3>0, <3>2
  <2> QED BY <1>1, <2>1, <2>2, <2>3
<1> QED BY <1>3, <1>5, <1>6, <1>7 DEF a, b, u

\* The bucket admits a request only if the tokens it costs were left.
LEMMA BucketAdmits ==
  ASSUME v2 \in Int, NEW s \in RL!Stores, NEW w, RL!IsValue(w), v6[s] \in Seq(Int), RL!Accounted(s, w, v6[s]),
         RL!WithinBucket(s, v6[s]), NEW t, ReadsAs(s, t), w.ts = t, v1 = "bucket", RL!Allows(w)
  PROVE  /\ RL!Accounted(s, RL!Spend(s, w, t), Append(v6[s], v2))
         /\ RL!WithinBucket(s, Append(v6[s], v2))
<1> DEFINE a == v6[s]
           b == Append(a, v2)
           u == RL!Spend(s, w, t)
<1>0. /\ Window \in Nat \ {0} /\ Limit \in Nat \ {0} /\ RL!Low(s) \in Int /\ RL!Skew(s) \in Nat /\ t \in Int
      /\ v2 + RL!Low(s) <= t /\ t <= v2 + RL!Low(s) + RL!Skew(s) /\ RL!Capacity \in Nat /\ w.tokens \in Int
  BY BoundsAreInts, CapacityIsNat, LimiterAssumption DEF ReadsAs, RL!IsValue
<1>1. /\ b \in Seq(Int) /\ Len(b) = Len(a) + 1 /\ Len(a) \in Nat /\ b[Len(a) + 1] = v2
      /\ \A m \in 1..Len(a) : b[m] = a[m] /\ a[m] \in Int
  BY AppendProperties, LenProperties, ElementOfSeq
<1>2. w.tokens >= Window /\ u = [w EXCEPT !.tokens = @ - Window]
  BY DEF RL!Spend, RL!Allows
<1>3. u.tokens = w.tokens - Window /\ u.ts = t /\ u.tokens \in Nat /\ w.tokens <= RL!Capacity
  BY <1>0, <1>2 DEF RL!IsValue, RL!Accounted
<1> HIDE DEF a, b, u
\* With n admissions after this one, from the m-th on.
<1>4. ASSUME NEW m \in 1..Len(a) + 1
      PROVE  /\ (Len(a) + 1 - m + 1) * Window \in Int
             /\ (t - b[m] - RL!Low(s)) * Limit \in Int
             /\ (Len(a) + 1 - m + 1) * Window + u.tokens <= RL!Capacity + (t - b[m] - RL!Low(s)) * Limit
  <2>0. b[m] \in Int
    BY <1>1
  <2> DEFINE x == (t - b[m] - RL!Low(s)) * Limit
             n == Len(a) - m + 1
  <2>1. x \in Int /\ n \in Int /\ Len(a) + 1 - m + 1 = n + 1
    BY <1>0, <1>1, <2>0
  <2>2. (n + 1) * Window = n * Window + Window /\ n * Window \in Int
    BY <1>0, <2>1, Distributes
  <2>3. n * Window + w.tokens <= RL!Capacity + x
    <3>1. CASE m \in 1..Len(a)
      BY <1>1, <3>1 DEF RL!Accounted, a
    <3>2. CASE m = Len(a) + 1
      <4>1. n = 0 /\ n * Window = 0
        BY <1>0, <1>1, <3>2
      <4>2. 0 <= t - b[m] - RL!Low(s) /\ t - b[m] - RL!Low(s) \in Int
        BY <1>0, <1>1, <3>2
      <4>3. 0 <= x
        BY <1>0, <4>2, Scales
      <4> QED BY <1>0, <1>3, <2>1, <4>1, <4>3
    <3> QED BY <1>1, <3>1, <3>2
  <2> DEFINE spent == n * Window
  <2> HIDE DEF x, n, spent
  <2>4. (spent + Window) + u.tokens <= RL!Capacity + x
    <3>1. spent \in Int /\ x \in Int /\ spent + w.tokens <= RL!Capacity + x
      BY <2>1, <2>2, <2>3 DEF spent
    <3> QED BY <1>0, <1>3, <3>1
  <2>5. (n + 1) * Window = spent + Window /\ spent + Window \in Int
    BY <1>0, <2>2 DEF spent
  <2> QED BY <2>1, <2>4, <2>5 DEF x
<1>5. RL!Accounted(s, u, b)
  <2>1. u.tokens <= RL!Capacity
    BY <1>0, <1>3
  <2> QED BY <1>1, <1>3, <1>4, <2>1 DEF RL!Accounted
<1>6. RL!WithinBucket(s, b)
  <2> SUFFICES ASSUME NEW n \in 1..Len(a) + 1, NEW m \in 1..n
               PROVE  (n - m + 1) * Window <= RL!Capacity + (b[n] - b[m] + RL!Skew(s)) * Limit
    BY <1>1 DEF RL!WithinBucket, RL!Between
  <2>1. CASE n \in 1..Len(a)
    <3>1. m \in 1..Len(a) /\ b[n] = a[n] /\ b[m] = a[m]
      BY <1>1, <2>1
    <3> QED BY <2>1, <3>1 DEF RL!WithinBucket, RL!Between, a
  <2>2. CASE n = Len(a) + 1
    <3> DEFINE x == (t - b[m] - RL!Low(s)) * Limit
               y == (b[n] - b[m] + RL!Skew(s)) * Limit
               spent == (n - m + 1) * Window
    <3>0. m \in 1..Len(a) + 1 /\ b[m] \in Int /\ b[n] = v2
      BY <1>1, <2>2
    <3>1. t - b[m] - RL!Low(s) \in Int /\ b[n] - b[m] + RL!Skew(s) \in Int
          /\ t - b[m] - RL!Low(s) <= b[n] - b[m] + RL!Skew(s)
      BY <1>0, <3>0
    <3>2. x \in Int /\ y \in Int /\ x <= y
      BY <1>0, <3>1, Scales
    <3>3. spent \in Int /\ spent + u.tokens <= RL!Capacity + x
      BY <1>4, <2>2, <3>0
    <3> HIDE DEF x, y, spent
    <3>4. spent <= RL!Capacity + y
      BY <1>0, <1>3, <3>2, <3>3
    <3> QED BY <3>4 DEF spent, y
  <2> QED BY <1>1, <2>1, <2>2
<1> QED BY <1>5, <1>6 DEF a, b, u

LEMMA NoValueIsValue ==
  /\ RL!IsValue(RL!NoValue) /\ RL!NoValue.log = {} /\ RL!NoValue.tokens = RL!Capacity /\ RL!NoValue.ts = -1
<1>1. RL!IsFiniteSet({})
  BY FS_EmptySet, EntriesAreCounted
<1> QED BY <1>1, CapacityIsNat DEF RL!NoValue, RL!IsValue

LEMMA RefreshIsValue ==
  ASSUME v1 \in {"bucket", "window"}, NEW v, RL!IsValue(v), NEW t \in Int
  PROVE  /\ RL!IsValue(RL!Refresh(v, t)) /\ RL!Refresh(v, t).tokens <= RL!Capacity
         /\ RL!Refresh(v, t).ts = (IF v1 = "window" THEN 0 ELSE t)
<1> DEFINE r == RL!Refresh(v, t)
           q == (t - v.ts) * Limit
<1>0. Limit \in Nat /\ RL!Capacity \in Nat /\ v.ts \in Int /\ v.tokens \in Int /\ q \in Int /\ IsFiniteSet(v.log)
  BY CapacityIsNat, LimiterAssumption, EntriesAreCounted DEF RL!IsValue
<1> HIDE DEF q
<1>1. r = [log    |-> {e \in v.log : e[1] > t - Window},
           tokens |-> IF v = RL!NoValue \/ v1 = "window" THEN RL!Capacity
                      ELSE RL!Min({RL!Capacity, v.tokens + q}),
           ts     |-> IF v1 = "window" THEN 0 ELSE t]
  BY DEF RL!Refresh, q
<1> HIDE DEF r
<1>2. /\ r = [log |-> r.log, tokens |-> r.tokens, ts |-> r.ts] /\ r.log = {e \in v.log : e[1] > t - Window}
      /\ r.tokens = IF v = RL!NoValue \/ v1 = "window" THEN RL!Capacity ELSE RL!Min({RL!Capacity, v.tokens + q})
      /\ r.ts = IF v1 = "window" THEN 0 ELSE t
  BY <1>1
<1>3. RL!Min({RL!Capacity, v.tokens + q}) \in Int /\ RL!Min({RL!Capacity, v.tokens + q}) <= RL!Capacity
  <2>1. v.tokens + q \in Int /\ RL!Capacity \in Int
    BY <1>0
  <2> QED BY <2>1, LesserOfTwo
<1>4. r.tokens \in Int /\ r.tokens <= RL!Capacity
  BY <1>0, <1>2, <1>3
<1>5. RL!IsFiniteSet(r.log)
  BY <1>0, <1>2, FS_Subset, EntriesAreCounted
<1>6. r.ts \in Int
  BY <1>2
<1> QED BY <1>2, <1>4, <1>5, <1>6 DEF r, RL!IsValue

\* A value that store s decides by, refreshed at time t.
Ready(s, w, t, x) ==
    /\ RL!IsValue(w) /\ w.tokens <= RL!Capacity /\ w.ts = (IF v1 = "window" THEN 0 ELSE t)
    /\ RL!Kept(s, w, v6[s], x)

LEMMA RefreshedIsReady ==
  ASSUME RL!IInv, NEW s \in RL!Stores, NEW t, ReadsAs(s, t)
  PROVE  Ready(s, RL!Refresh(RL!Value(s), t), t, v7)
<1>1. /\ v1 \in {"bucket", "window"} /\ v2 \in Int /\ RL!IsValue(RL!Value(s)) /\ v6[s] \in Seq(Int)
      /\ RL!Value(s) = RL!NoValue => v6[s] = <<>>
      /\ RL!Kept(s, RL!Value(s), v6[s], v7) /\ t \in Int
  BY DEF RL!IInv, RL!Shape, RL!Ordered, ReadsAs
<1>2. RL!Kept(s, RL!Refresh(RL!Value(s), t), v6[s], v7)
  <2>1. CASE v1 = "window"
    BY <1>1, <2>1, LoggedStays DEF RL!Kept
  <2>2. CASE v1 = "bucket"
    BY <1>1, <2>2, AccountedStays DEF RL!Kept
  <2> QED BY <1>1, <2>1, <2>2
<1> QED BY <1>1, <1>2, RefreshIsValue DEF Ready

\* Redis drops a key only when what it knows counts no longer, or forgets.
LEMMA AskedIsReady ==
  ASSUME RL!IInv, NEW i \in Instances,
         v7' = (v7 \/ (v1 = "bucket" /\ RL!Expired /\ RL!NotYetFull(v3.value)))
  PROVE  Ready("redis", RL!Asked(i), RL!Clock(i), v7') /\ v7' \in BOOLEAN /\ (v7 => v7')
<1> DEFINE t == RL!Clock(i)
           a == v6["redis"]
           r == RL!Refresh(RL!NoValue, t)
<1>0. "redis" \in RL!Stores
  BY DEF RL!Stores
<1>1. /\ v1 \in {"bucket", "window"} /\ v2 \in Int /\ RL!IsValue(v3.value) /\ a \in Seq(Int)
      /\ RL!Kept("redis", v3.value, a, v7) /\ RL!KeptLongEnough /\ v3.expires \in Int
      /\ RL!Value("redis") = v3.value /\ v7 \in BOOLEAN
  BY <1>0 DEF RL!IInv, RL!Shape, RL!Ordered, RL!Value
<1>2. ReadsAs("redis", t) /\ t \in Int
  BY <1>1, ClocksAreClose DEF ReadsAs
<1>3. v7' \in BOOLEAN /\ (v7 => v7')
  BY <1>1
<1> HIDE DEF t
<1>4. CASE ~RL!Expired
  <2>1. RL!Asked(i) = RL!Refresh(RL!Value("redis"), t)
    BY <1>1, <1>4 DEF RL!Asked, RL!Found, t
  <2>2. Ready("redis", RL!Asked(i), t, v7)
    BY <1>0, <1>2, <2>1, RefreshedIsReady
  <2> QED BY <1>3, <2>2 DEF Ready, RL!Kept, t
<1>5. CASE RL!Expired
  <2>1. RL!Asked(i) = r
    BY <1>5 DEF RL!Asked, RL!Found, t
  <2>2. RL!IsValue(r) /\ r.tokens <= RL!Capacity /\ r.ts = (IF v1 = "window" THEN 0 ELSE t)
    BY <1>1, <1>2, NoValueIsValue, RefreshIsValue
  <2> HIDE DEF r
  <2>3. RL!Kept("redis", r, a, v7')
    <3>1. CASE v1 = "window"
      <4>1. ASSUME NEW m \in 1..Len(a) PROVE v2 - a[m] + RL!Skew("redis") >= Window
        <5>1. a[m] \in Int /\ a[m] + Window <= v3.expires
          BY <1>1, <3>1, ElementOfSeq DEF RL!KeptLongEnough
        <5>2. v3.expires <= v2
          BY <1>1, <1>5 DEF RL!Expired
        <5>3. RL!Skew("redis") \in Nat /\ Window \in Nat
          BY <1>0, BoundsAreInts, LimiterAssumption
        <5> QED BY <1>1, <5>1, <5>2, <5>3
      <4> QED BY <3>1, <4>1 DEF RL!Kept, RL!Logged
    <3>2. CASE v1 = "bucket" /\ v7'
      BY <3>2 DEF RL!Kept
    <3>3. CASE v1 = "bucket" /\ ~v7'
      <4>1. ~v7 /\ ~RL!NotYetFull(v3.value)
        BY <1>1, <1>5, <3>3
      <4>2. RL!Accounted("redis", v3.value, a)
        BY <1>1, <3>3, <4>1 DEF RL!Kept
      <4>3. RL!Accounted("redis", r, a)
        BY <1>1, <1>2, <3>3, <4>1, <4>2, FullIsAccounted DEF r
      <4> QED BY <3>3, <4>3 DEF RL!Kept
    <3> QED BY <1>1, <3>1, <3>2, <3>3
  <2> QED BY <1>3, <2>1, <2>2, <2>3 DEF Ready, t
<1> QED BY <1>4, <1>5

\* What store s promises of the admissions a, and what a decision leaves behind.
Holds(s, a, x) ==
    IF v1 = "window" THEN RL!WithinWindow(s, a) ELSE (s = "redis" /\ x) \/ RL!WithinBucket(s, a)

Settled(s, v, a, x) ==
    /\ RL!IsValue(v) /\ a \in Seq(Int) /\ RL!InOrder(a) /\ (v = RL!NoValue => a = <<>>)
    /\ RL!Kept(s, v, a, x) /\ Holds(s, a, x)

LEMMA DecisionSettles ==
  ASSUME RL!IInv, NEW s \in RL!Stores, NEW w, NEW t, NEW x, ReadsAs(s, t), Ready(s, w, t, x), v7 => x
  PROVE  Settled(s, RL!Spend(s, w, t), RL!Admit(s, w), x)
<1> DEFINE a == v6[s]
           u == RL!Spend(s, w, t)
<1>1. /\ v1 \in {"bucket", "window"} /\ v2 \in Int /\ a \in Seq(Int) /\ RL!InOrder(a)
      /\ Holds(s, a, x)
  BY DEF RL!IInv, RL!Shape, RL!Ordered, RL!EachStoreHolds, Holds
<1>2. /\ RL!IsValue(w) /\ w.tokens <= RL!Capacity /\ w.ts = (IF v1 = "window" THEN 0 ELSE t)
      /\ RL!Kept(s, w, a, x)
  BY DEF Ready
<1>3. Window \in Nat \ {0} /\ RL!Capacity \in Nat /\ RL!Capacity >= Window /\ w.tokens \in Int
  BY <1>2, CapacityIsNat, LimiterAssumption DEF RL!IsValue
<1>4. CASE ~RL!Allows(w)
  <2>1. u = w /\ RL!Admit(s, w) = a
    BY <1>4 DEF RL!Spend, RL!Admit
  <2>2. w # RL!NoValue
    <3>1. CASE v1 = "window"
      BY <1>2, <3>1, NoValueIsValue
    <3>2. CASE v1 = "bucket"
      BY <1>3, <1>4, <3>2, NoValueIsValue DEF RL!Allows
    <3> QED BY <1>1, <3>1, <3>2
  <2> QED BY <1>1, <1>2, <2>1, <2>2 DEF Settled
<1>5. CASE RL!Allows(w)
  <2>1. RL!Admit(s, w) = Append(a, v2)
    BY <1>5 DEF RL!Admit
  <2>2. Append(a, v2) \in Seq(Int) /\ RL!InOrder(Append(a, v2))
    BY <1>1, InOrderAppends
  <2>3. CASE v1 = "window"
    <3>1. /\ RL!IsValue(u) /\ u.ts = w.ts /\ RL!Logged(s, u, Append(a, v2)) /\ RL!WithinWindow(s, Append(a, v2))
      <4>1. RL!Logged(s, w, a) /\ RL!WithinWindow(s, a)
        BY <1>1, <1>2, <2>3 DEF RL!Kept, Holds
      <4> QED BY <1>1, <1>2, <1>5, <2>3, <4>1, WindowAdmits
    <3>2. u # RL!NoValue
      BY <1>2, <2>3, <3>1, NoValueIsValue
    <3> QED BY <2>1, <2>2, <2>3, <3>1, <3>2 DEF Settled, RL!Kept, Holds
  <2>4. CASE v1 = "bucket"
    <3>1. u = [w EXCEPT !.tokens = @ - Window]
      BY <1>5, <2>4 DEF RL!Spend
    <3>2. /\ u = [log |-> w.log, tokens |-> w.tokens - Window, ts |-> w.ts]
          /\ u.log = w.log /\ u.tokens = w.tokens - Window /\ u.ts = w.ts
      BY <1>2, <3>1 DEF RL!IsValue
    <3>3. RL!IsValue(u)
      BY <1>2, <1>3, <3>2 DEF RL!IsValue
    <3>4. u # RL!NoValue
      BY <1>2, <1>3, <3>2, NoValueIsValue
    <3>5. ASSUME ~(s = "redis" /\ x)
          PROVE  RL!Accounted(s, u, Append(a, v2)) /\ RL!WithinBucket(s, Append(a, v2))
      <4>1. RL!Accounted(s, w, a) /\ RL!WithinBucket(s, a) /\ w.ts = t
        BY <1>1, <1>2, <2>4, <3>5 DEF RL!Kept, Holds
      <4> QED BY <1>1, <1>2, <1>5, <2>4, <4>1, BucketAdmits
    <3> QED BY <2>1, <2>2, <2>4, <3>3, <3>4, <3>5 DEF Settled, RL!Kept, Holds
  <2> QED BY <1>1, <2>3, <2>4
<1> QED BY <1>4, <1>5

LEMMA MemorySettles ==
  ASSUME RL!IInv, NEW i \in Instances, NEW x, v7 => x
  PROVE  Settled(i, RL!Spend(i, RL!Recalled(i), RL!Clock(i)), RL!Admit(i, RL!Recalled(i)), x)
<1>1. i \in RL!Stores /\ i # "redis" /\ RL!Value(i) = v4[i] /\ v2 \in Int
  BY LimiterAssumption DEF RL!Stores, RL!Value, RL!IInv, RL!Shape
<1>2. ReadsAs(i, RL!Clock(i))
  BY <1>1, ClocksAreClose
<1>3. Ready(i, RL!Recalled(i), RL!Clock(i), v7)
  BY <1>1, <1>2, RefreshedIsReady DEF RL!Recalled
<1>4. Ready(i, RL!Recalled(i), RL!Clock(i), x)
  BY <1>1, <1>3 DEF Ready, RL!Kept
<1> QED BY <1>1, <1>2, <1>4, DecisionSettles

LEMMA RedisSettles ==
  ASSUME RL!IInv, NEW i \in Instances, RL!Script(i), v6'["redis"] = RL!Admit("redis", RL!Asked(i)), UNCHANGED <<v1, v2>>
  PROVE  /\ Settled("redis", v3'.value, v6'["redis"], v7') /\ v7' \in BOOLEAN /\ (v7 => v7')
         /\ v3' = [up |-> v3'.up, value |-> v3'.value, expires |-> v3'.expires] /\ v3'.expires \in Int
         /\ RL!KeptLongEnough'
<1> DEFINE w == RL!Asked(i)
           t == RL!Clock(i)
<1>0. "redis" \in RL!Stores
  BY DEF RL!Stores
<1>1. /\ v1 \in {"bucket", "window"} /\ v2 \in Int /\ v3.expires \in Int /\ v6["redis"] \in Seq(Int)
      /\ v3 = [up |-> v3.up, value |-> v3.value, expires |-> v3.expires] /\ RL!InOrder(v6["redis"])
      /\ RL!KeptLongEnough
  BY <1>0 DEF RL!IInv, RL!Shape, RL!Ordered
<1>2. Ready("redis", w, t, v7') /\ v7' \in BOOLEAN /\ (v7 => v7')
  BY AskedIsReady DEF RL!Script
<1>3. ReadsAs("redis", t)
  BY <1>1, ClocksAreClose
<1> HIDE DEF w, t
<1>4. v3' = [v3 EXCEPT !.value = RL!Spend("redis", w, t), !.expires = RL!Expiry(w)]
  BY DEF RL!Script, w, t
<1>5. /\ v3'.value = RL!Spend("redis", w, t) /\ v3'.expires = RL!Expiry(w)
      /\ v3' = [up |-> v3'.up, value |-> v3'.value, expires |-> v3'.expires]
  BY <1>1, <1>4
<1>6. Settled("redis", v3'.value, v6'["redis"], v7')
  BY <1>0, <1>2, <1>3, <1>5, DecisionSettles DEF w
<1>7. RL!Expiry(w) \in Int
  <2>1. CASE v1 = "window"
    BY <1>1, <2>1, LimiterAssumption DEF RL!Expiry
  <2>2. CASE v1 = "bucket"
    <3> DEFINE left == IF RL!Allows(w) THEN w.tokens - Window ELSE w.tokens
               missing == (IF RL!Allows(w) THEN RL!Capacity ELSE Window) - left + Window
               long == RL!CeilDiv(missing, Limit)
    <3>1. w.tokens \in Int /\ Window \in Int /\ Limit \in Nat \ {0} /\ RL!Capacity \in Int
      BY <1>2, CapacityIsNat, LimiterAssumption DEF Ready, RL!IsValue
    <3>2. missing \in Int
      BY <3>1
    <3> HIDE DEF missing
    <3>3. long \in Int
      BY <3>1, <3>2 DEF RL!CeilDiv
    <3> HIDE DEF long
    <3>4. RL!Max({1, long}) \in Int
      <4>1. \E y \in {1, long} : \A z \in {1, long} : y >= z
        BY <3>3
      <4> QED BY <3>3, <4>1 DEF RL!Max
    <3>5. RL!Expiry(w) = v2 + RL!Max({1, long})
      BY <2>2 DEF RL!Expiry, long, missing
    <3> QED BY <1>1, <3>4, <3>5
  <2> QED BY <1>1, <2>1, <2>2
<1>8. RL!KeptLongEnough'
  <2> SUFFICES ASSUME v1 = "window", NEW m \in 1..Len(v6'["redis"])
               PROVE  v6'["redis"][m] + Window <= v3'.expires
    BY DEF RL!KeptLongEnough
  <2>0. Window \in Nat
    BY LimiterAssumption
  <2>1. CASE RL!Allows(w)
    <3>1. v3'.expires = v2 + Window
      BY <1>5, <2>1 DEF RL!Expiry
    <3>2. v6'["redis"] \in Seq(Int) /\ v6'["redis"][m] <= v2
      BY <1>6 DEF Settled, RL!InOrder
    <3>3. v6'["redis"][m] \in Int
      BY <3>2, ElementOfSeq
    <3> QED BY <1>1, <2>0, <3>1, <3>2, <3>3
  <2>2. CASE ~RL!Allows(w)
    <3>1. v3'.expires = v3.expires /\ v6'["redis"] = v6["redis"]
      BY <1>5, <2>2 DEF RL!Expiry, RL!Admit, w
    <3> QED BY <1>1, <3>1 DEF RL!KeptLongEnough
  <2> QED BY <2>1, <2>2
<1> QED BY <1>2, <1>5, <1>6, <1>7, <1>8

\* A step after which each store is as before, empty, or as a decision leaves it.
LEMMA StoresInv ==
  ASSUME RL!IInv, UNCHANGED <<v1, v2>>, v7' \in BOOLEAN, v7 => v7',
         v3' = [up |-> v3'.up, value |-> v3'.value, expires |-> v3'.expires], v3'.expires \in Int,
         v4' = [i \in Instances |-> v4'[i]], v6' = [s \in RL!Stores |-> v6'[s]], RL!KeptLongEnough',
         \A s \in RL!Stores :
            \/ RL!Value(s)' = RL!Value(s) /\ v6'[s] = v6[s]
            \/ RL!Value(s)' = RL!NoValue /\ v6'[s] = <<>>
            \/ Settled(s, RL!Value(s)', v6'[s], v7')
  PROVE  RL!IInv'
<1>0. v1 \in {"bucket", "window"} /\ v2 \in Int
  BY DEF RL!IInv, RL!Shape
<1>1. ASSUME NEW s \in RL!Stores PROVE Settled(s, RL!Value(s)', v6'[s], v7')
  <2>1. CASE RL!Value(s)' = RL!Value(s) /\ v6'[s] = v6[s]
    <3>1. Settled(s, RL!Value(s), v6[s], v7)
      BY DEF RL!IInv, RL!Shape, RL!Ordered, RL!EachStoreHolds, Settled, Holds
    <3>2. Settled(s, RL!Value(s), v6[s], v7')
      BY <3>1 DEF Settled, Holds, RL!Kept
    <3> QED BY <2>1, <3>2
  <2>2. CASE RL!Value(s)' = RL!NoValue /\ v6'[s] = <<>>
    <3>1. RL!NoValue.tokens <= RL!Capacity
      BY CapacityIsNat, NoValueIsValue
    <3>2. Len(<<>>) = 0 /\ 1..0 = {} /\ <<>> \in Seq(Int)
      OBVIOUS
    <3>3. RL!InOrder(<<>>) /\ RL!Logged(s, RL!NoValue, <<>>) /\ RL!Accounted(s, RL!NoValue, <<>>)
          /\ RL!WithinWindow(s, <<>>) /\ RL!WithinBucket(s, <<>>)
      BY <3>1, <3>2 DEF RL!InOrder, RL!Logged, RL!Accounted, RL!WithinWindow, RL!WithinBucket
    <3>4. Settled(s, RL!NoValue, <<>>, v7')
      BY <3>2, <3>3, NoValueIsValue DEF Settled, RL!Kept, Holds
    <3> QED BY <2>2, <3>4
  <2> QED BY <2>1, <2>2
<1>2. RL!Shape'
  BY <1>0, <1>1 DEF RL!Shape, Settled, RL!IsValue
<1>3. RL!Ordered'
  BY <1>1 DEF RL!Ordered, Settled, RL!InOrder, RL!NoValue
<1>4. RL!EachStoreHolds'
  BY <1>1 DEF RL!EachStoreHolds, Settled, Holds
<1>5. (\A s \in RL!Stores : RL!Kept(s, RL!Value(s), v6[s], v7))'
  BY <1>1 DEF Settled, RL!Kept, RL!Logged, RL!Accounted
<1> QED BY <1>2, <1>3, <1>4, <1>5 DEF RL!IInv

\* Redis and the memories of the instances are different stores.
LEMMA StoresAreApart ==
  ASSUME RL!IInv
  PROVE  /\ "redis" \in RL!Stores /\ v3 = [up |-> v3.up, value |-> v3.value, expires |-> v3.expires]
         /\ v3.expires \in Int /\ v4 = [i \in Instances |-> v4[i]] /\ v6 = [s \in RL!Stores |-> v6[s]]
         /\ RL!KeptLongEnough /\ v7 \in BOOLEAN
         /\ \A s \in RL!Stores : s # "redis" => s \in Instances
         /\ \A i \in Instances : i \in RL!Stores /\ i # "redis"
  BY LimiterAssumption DEF RL!IInv, RL!Shape, RL!Stores

LEMMA ConsumeRedisInv ==
  ASSUME RL!IInv, NEW i \in Instances, RL!ConsumeRedis(i), UNCHANGED <<v1, v2>>
  PROVE  RL!IInv'
<1>1. v6' = [v6 EXCEPT !["redis"] = RL!Admit("redis", RL!Asked(i))] /\ v4' = v4 /\ RL!Script(i)
  BY DEF RL!ConsumeRedis
<1>2. v6'["redis"] = RL!Admit("redis", RL!Asked(i)) /\ \A s \in RL!Stores : s # "redis" => v6'[s] = v6[s]
  BY <1>1, StoresAreApart
<1>3. v6' = [s \in RL!Stores |-> v6'[s]] /\ v4' = [j \in Instances |-> v4'[j]]
  BY <1>1, StoresAreApart
<1>4. ASSUME NEW s \in RL!Stores
      PROVE  \/ RL!Value(s)' = RL!Value(s) /\ v6'[s] = v6[s]
             \/ Settled(s, RL!Value(s)', v6'[s], v7')
  BY <1>1, <1>2, RedisSettles DEF RL!Value
<1> QED BY <1>1, <1>2, <1>3, <1>4, RedisSettles, StoresInv

LEMMA AnswerLostInv ==
  ASSUME RL!IInv, NEW i \in Instances, RL!AnswerLost(i), UNCHANGED <<v1, v2>>
  PROVE  RL!IInv'
<1> DEFINE u == RL!Spend(i, RL!Recalled(i), RL!Clock(i))
<1>1. /\ v6' = [v6 EXCEPT !["redis"] = RL!Admit("redis", RL!Asked(i)), ![i] = RL!Admit(i, RL!Recalled(i))]
      /\ v4' = [v4 EXCEPT ![i] = u] /\ RL!Script(i)
  BY DEF RL!AnswerLost, RL!ByMemory
<1> HIDE DEF u
<1>2. /\ v6'["redis"] = RL!Admit("redis", RL!Asked(i)) /\ v6'[i] = RL!Admit(i, RL!Recalled(i)) /\ v4'[i] = u
      /\ \A s \in RL!Stores : s # "redis" /\ s # i => v6'[s] = v6[s] /\ v4'[s] = v4[s]
  BY <1>1, StoresAreApart
<1>3. v6' = [s \in RL!Stores |-> v6'[s]] /\ v4' = [j \in Instances |-> v4'[j]]
  BY <1>1, StoresAreApart
<1>4. Settled(i, v4'[i], v6'[i], v7')
  BY <1>1, <1>2, RedisSettles, MemorySettles DEF u
<1>5. ASSUME NEW s \in RL!Stores
      PROVE  \/ RL!Value(s)' = RL!Value(s) /\ v6'[s] = v6[s]
             \/ Settled(s, RL!Value(s)', v6'[s], v7')
  BY <1>1, <1>2, <1>4, RedisSettles, StoresAreApart DEF RL!Value
<1> QED BY <1>1, <1>2, <1>3, <1>5, RedisSettles, StoresInv

LEMMA ConsumeMemoryInv ==
  ASSUME RL!IInv, NEW i \in Instances, RL!ConsumeMemory(i), UNCHANGED <<v1, v2>>
  PROVE  RL!IInv'
<1> DEFINE u == RL!Spend(i, RL!Recalled(i), RL!Clock(i))
<1>1. /\ v6' = [v6 EXCEPT ![i] = RL!Admit(i, RL!Recalled(i))] /\ v4' = [v4 EXCEPT ![i] = u]
      /\ v3' = v3 /\ v7' = v7
  BY DEF RL!ConsumeMemory, RL!ByMemory
<1> HIDE DEF u
<1>2. /\ v6'[i] = RL!Admit(i, RL!Recalled(i)) /\ v4'[i] = u
      /\ \A s \in RL!Stores : s # i => v6'[s] = v6[s] /\ v4'[s] = v4[s]
  BY <1>1, StoresAreApart
<1>3. v6' = [s \in RL!Stores |-> v6'[s]] /\ v4' = [j \in Instances |-> v4'[j]]
  BY <1>1, StoresAreApart
<1>4. Settled(i, v4'[i], v6'[i], v7')
  BY <1>1, <1>2, MemorySettles DEF u
<1>5. ASSUME NEW s \in RL!Stores
      PROVE  \/ RL!Value(s)' = RL!Value(s) /\ v6'[s] = v6[s]
             \/ Settled(s, RL!Value(s)', v6'[s], v7')
  BY <1>1, <1>2, <1>4, StoresAreApart DEF RL!Value
<1>6. RL!KeptLongEnough'
  BY <1>1, <1>2, StoresAreApart DEF RL!KeptLongEnough
<1> QED BY <1>1, <1>3, <1>5, <1>6, StoresAreApart, StoresInv

\* reset, and a restart for the memory of its instance: emptied stores owe nothing.
LEMMA DeletedInv ==
  ASSUME RL!IInv, NEW D \in SUBSET RL!Stores, UNCHANGED <<v1, v2, v7>>,
         v3' = IF "redis" \in D THEN [v3 EXCEPT !.value = RL!NoValue] ELSE v3,
         v4' = [j \in Instances |-> IF j \in D THEN RL!NoValue ELSE v4[j]],
         v6' = [s \in RL!Stores |-> IF s \in D THEN <<>> ELSE v6[s]]
  PROVE  RL!IInv'
<1>1. /\ v3' = [up |-> v3'.up, value |-> v3'.value, expires |-> v3'.expires]
      /\ v3'.expires = v3.expires /\ v3'.value = IF "redis" \in D THEN RL!NoValue ELSE v3.value
  BY StoresAreApart
<1>2. v6' = [s \in RL!Stores |-> v6'[s]] /\ v4' = [j \in Instances |-> v4'[j]]
  OBVIOUS
<1>3. ASSUME NEW s \in RL!Stores
      PROVE  \/ RL!Value(s)' = RL!Value(s) /\ v6'[s] = v6[s]
             \/ RL!Value(s)' = RL!NoValue /\ v6'[s] = <<>>
  BY <1>1, StoresAreApart DEF RL!Value
<1>4. RL!KeptLongEnough'
  <2>1. v6'["redis"] = <<>> \/ v6'["redis"] = v6["redis"]
    BY StoresAreApart
  <2>2. Len(<<>>) = 0 /\ 1..0 = {}
    OBVIOUS
  <2> QED BY <1>1, <2>1, <2>2, StoresAreApart DEF RL!KeptLongEnough
<1> QED BY <1>1, <1>2, <1>3, <1>4, StoresAreApart, StoresInv

LEMMA StoreDecidesInv ==
  ASSUME RL!IInv, NEW i \in Instances, NEW healthy, RL!Decide(i, healthy), UNCHANGED <<v1, v2>>
  PROVE  RL!IInv'
  BY ConsumeRedisInv, AnswerLostInv, ConsumeMemoryInv DEF RL!Decide

LEMMA DeleteInv ==
  ASSUME RL!IInv, NEW i \in Instances, NEW healthy, RL!Delete(i, healthy), UNCHANGED <<v1, v2>>
  PROVE  RL!IInv'
<1> DEFINE Empties(D) ==
             /\ v3' = IF "redis" \in D THEN [v3 EXCEPT !.value = RL!NoValue] ELSE v3
             /\ v4' = [j \in Instances |-> IF j \in D THEN RL!NoValue ELSE v4[j]]
             /\ v6' = [s \in RL!Stores |-> IF s \in D THEN <<>> ELSE v6[s]]
             /\ v7' = v7
<1>1. CASE RL!DeleteRedis
  <2>1. Empties({"redis"})
    BY <1>1, StoresAreApart DEF RL!DeleteRedis
  <2> QED BY <2>1, StoresAreApart, DeletedInv
<1>2. CASE RL!DeleteBoth(i)
  <2>1. Empties({"redis", i})
    BY <1>2, StoresAreApart DEF RL!DeleteBoth
  <2> QED BY <2>1, StoresAreApart, DeletedInv
<1>3. CASE RL!DeleteMemory(i)
  <2>1. Empties({i})
    BY <1>3, StoresAreApart DEF RL!DeleteMemory
  <2> QED BY <2>1, StoresAreApart, DeletedInv
<1> QED BY <1>1, <1>2, <1>3 DEF RL!Delete

LEMMA MemoryRestartsInv ==
  ASSUME RL!IInv, NEW i \in Instances, RL!Restart(i)
  PROVE  RL!IInv'
<1>1. /\ v4' = [j \in Instances |-> IF j \in {i} THEN RL!NoValue ELSE v4[j]]
      /\ v6' = [s \in RL!Stores |-> IF s \in {i} THEN <<>> ELSE v6[s]]
      /\ v3' = v3 /\ UNCHANGED <<v1, v2, v7>>
  BY StoresAreApart DEF RL!Restart
<1>2. {i} \in SUBSET RL!Stores /\ "redis" \notin {i}
  BY StoresAreApart
<1> QED BY <1>1, <1>2, DeletedInv

LEMMA LimiterStutters ==
  ASSUME RL!IInv, UNCHANGED <<v1, v2, v4, v6, v7>>, v3' = v3 \/ v3' = [v3 EXCEPT !.up = ~@]
  PROVE  RL!IInv'
<1>1. /\ v3' = [up |-> v3'.up, value |-> v3'.value, expires |-> v3'.expires]
      /\ v3'.value = v3.value /\ v3'.expires = v3.expires
  BY StoresAreApart
<1>2. \A s \in RL!Stores : RL!Value(s)' = RL!Value(s) /\ v6'[s] = v6[s]
  BY <1>1 DEF RL!Value
<1>3. RL!KeptLongEnough'
  BY <1>1, StoresAreApart DEF RL!KeptLongEnough
<1> QED BY <1>1, <1>2, <1>3, StoresAreApart, StoresInv

\* As time passes, fewer admissions count.
LEMMA TimePassesInv ==
  ASSUME RL!IInv, RL!Tick
  PROVE  RL!IInv'
<1>1. v2 \in Int /\ v2' = v2 + 1 /\ UNCHANGED <<v1, v3, v4, v6, v7>>
  BY DEF RL!Tick, RL!IInv, RL!Shape
<1>2. \A s \in RL!Stores : /\ RL!Value(s)' = RL!Value(s) /\ v6[s] \in Seq(Int) /\ Len(v6[s]) \in Nat
                           /\ \A m \in 1..Len(v6[s]) : v6[s][m] \in Int
  BY <1>1, LenProperties, ElementOfSeq DEF RL!Value, RL!IInv, RL!Shape
<1>3. RL!Shape' /\ RL!KeptLongEnough' /\ RL!EachStoreHolds'
  BY <1>1 DEF RL!IInv, RL!Shape, RL!Value, RL!IsValue, RL!KeptLongEnough, RL!EachStoreHolds,
              RL!WithinWindow, RL!WithinBucket, RL!Between
<1>4. RL!Ordered'
  BY <1>1, <1>2 DEF RL!IInv, RL!Ordered, RL!InOrder, RL!NoValue
<1>5. ASSUME NEW s \in RL!Stores PROVE RL!Kept(s, RL!Value(s), v6[s], v7)'
  <2>1. CASE v1 = "window"
    <3>1. RL!Logged(s, RL!Value(s), v6[s])
      BY <2>1 DEF RL!IInv, RL!Kept
    <3>2. Window \in Nat /\ RL!Skew(s) \in Nat
      BY BoundsAreInts, LimiterAssumption
    <3>3. RL!Logged(s, RL!Value(s), v6[s])'
      <4> SUFFICES ASSUME NEW m \in 1..Len(v6[s]), ~(v2' - v6[s][m] + RL!Skew(s) >= Window)
                   PROVE  \E score \in Int : score >= v6[s][m] + RL!Low(s) /\ <<score, m>> \in RL!Value(s).log
        BY <1>1, <1>2 DEF RL!Logged
      <4>1. v6[s][m] \in Int
        BY <1>2
      <4>2. ~(v2 - v6[s][m] + RL!Skew(s) >= Window)
        BY <1>1, <3>2, <4>1
      <4> QED BY <3>1, <4>2 DEF RL!Logged
    <3> QED BY <1>1, <2>1, <3>3 DEF RL!Kept
  <2>2. CASE v1 # "window"
    <3>1. (s = "redis" /\ v7) \/ RL!Accounted(s, RL!Value(s), v6[s])
      BY <2>2 DEF RL!IInv, RL!Kept
    <3> QED BY <1>1, <1>2, <2>2, <3>1 DEF RL!Kept, RL!Accounted
  <2> QED BY <2>1, <2>2
<1> QED BY <1>3, <1>4, <1>5 DEF RL!IInv

LEMMA LimiterInit == RL!Init => RL!IInv
<1> SUFFICES ASSUME RL!Init PROVE RL!IInv
  OBVIOUS
<1>0. /\ v1 \in {"bucket", "window"} /\ v2 = 0 /\ v3 = [up |-> TRUE, value |-> RL!NoValue, expires |-> 0]
      /\ v4 = [i \in Instances |-> RL!NoValue] /\ v6 = [s \in RL!Stores |-> <<>>] /\ v7 = FALSE
  BY DEF RL!Init
<1>1. \A s \in RL!Stores : RL!Value(s) = RL!NoValue /\ v6[s] = <<>> /\ v6[s] \in Seq(Int)
  BY <1>0 DEF RL!Value, RL!Stores
<1>2. Len(<<>>) = 0 /\ 1..0 = {} /\ RL!NoValue.tokens <= RL!Capacity
  BY CapacityIsNat, NoValueIsValue
<1>3. \A s : RL!InOrder(<<>>) /\ RL!Logged(s, RL!NoValue, <<>>) /\ RL!Accounted(s, RL!NoValue, <<>>)
             /\ RL!WithinWindow(s, <<>>) /\ RL!WithinBucket(s, <<>>)
  BY <1>2 DEF RL!InOrder, RL!Logged, RL!Accounted, RL!WithinWindow, RL!WithinBucket
<1>4. RL!Shape
  <2>1. v4 = [i \in Instances |-> v4[i]] /\ v6 = [s \in RL!Stores |-> v6[s]]
    BY <1>0
  <2>2. v3 = [up |-> v3.up, value |-> v3.value, expires |-> v3.expires] /\ v3.expires \in Int
    BY <1>0
  <2>3. v2 \in Int
    BY <1>0
  <2>4. v7 \in BOOLEAN
    BY <1>0, Zenon
  <2>5. \A s \in RL!Stores : RL!IsValue(RL!Value(s)) /\ v6[s] \in Seq(Int)
    BY <1>1, NoValueIsValue
  <2> QED BY <1>0, <2>1, <2>2, <2>3, <2>4, <2>5 DEF RL!Shape
<1>5. RL!KeptLongEnough
  BY <1>0, <1>2 DEF RL!KeptLongEnough, RL!Stores
<1> QED BY <1>1, <1>3, <1>4, <1>5 DEF RL!IInv, RL!Ordered, RL!EachStoreHolds, RL!Kept

LEMMA LimiterStep ==
  ASSUME RL!IInv, RL!Next
  PROVE  RL!IInv'
<1>1. ASSUME RL!Outage PROVE RL!IInv'
  BY <1>1, LimiterStutters DEF RL!Outage
<1>2. ASSUME NEW i \in Instances, RL!StartPing(i) PROVE RL!IInv'
  BY <1>2, LimiterStutters DEF RL!StartPing
<1>3. ASSUME NEW i \in Instances, RL!PingEnds(i) \/ RL!Consume(i) \/ RL!Reset(i) PROVE RL!IInv'
  BY <1>3, StoreDecidesInv, DeleteInv DEF RL!PingEnds, RL!Consume, RL!Reset
<1> QED BY <1>1, <1>2, <1>3, TimePassesInv, MemoryRestartsInv DEF RL!Next

LEMMA LimiterInv == ServicesSpec => [](service = "rateLimiter" => RL!IInv)
<1>1. ServicesInit => (service = "rateLimiter" => RL!IInv)
  BY LimiterInit DEF ServicesInit, OtherInit
<1>2. (service = "rateLimiter" => RL!IInv) /\ [ServicesNext]_ServicesVars => (service = "rateLimiter" => RL!IInv)'
  <2> SUFFICES ASSUME service' = "rateLimiter", service = "rateLimiter" => RL!IInv, [ServicesNext]_ServicesVars
               PROVE  RL!IInv'
    OBVIOUS
  <2>1. service = "rateLimiter"
    BY ServiceIsFixed
  <2>2. RL!Next \/ UNCHANGED others
    BY <2>1 DEF ServicesNext, OtherNext, ServicesVars
  <2> QED BY <2>1, <2>2, LimiterStep, LimiterStutters DEF others
<1> QED BY <1>1, <1>2, PTL DEF ServicesSpec

\* consume, over both scripts and the fallback: for any number of instances, any
\* limit, window, burst and any clocks within their bounds, and through outages,
\* lost answers, restarts and resets, a store admits no more than the policy.
THEOREM StoresHold == ServicesSpec => []EachStoreHolds
<1>1. (service = "rateLimiter" => RL!IInv) => EachStoreHolds
  BY DEF RL!IInv, EachStoreHolds
<1> QED BY <1>1, LimiterInv, PTL
=============================================================================
