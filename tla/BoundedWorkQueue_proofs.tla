----------------------- MODULE BoundedWorkQueue_proofs -----------------------
(***************************************************************************)
(* Proofs about BoundedWorkQueue for every set of tasks and every limit.   *)
(* The conjunction of the checked invariants is inductive: work            *)
(* conservation is what bounds pump() to at most one start per settling    *)
(* task, and the exact backlog is what keeps the running counter right.    *)
(***************************************************************************)
EXTENDS BoundedWorkQueue, FiniteSetTheorems, SequenceTheorems, TLAPS

Active == {t \in Tasks : phase[t] \in InSlot}

IInv ==
    /\ TypeOK
    /\ WithinLimits
    /\ BacklogExact
    /\ WorkConserving
    /\ IdleWaitersHaveAWaker

\* The active tasks are finitely many.
LEMMA ActiveFinite == IsFiniteSet(Active) /\ Cardinality(Active) \in Nat
  <1>1. Active \in SUBSET Tasks
    BY DEF Active
  <1> QED BY <1>1, QueueOptions, FS_Subset, FS_CardinalityType

\* An actor's places in the backlog are finitely many.
LEMMA ActorWaitingFinite ==
  ASSUME TypeOK, NEW a
  PROVE  IsFiniteSet(ActorWaiting(a)) /\ Cardinality(ActorWaiting(a)) \in Nat
  <1>1. Len(waiting) \in Nat
    BY DEF TypeOK
  <1>2. IsFiniteSet(1..Len(waiting))
    BY <1>1, FS_Interval
  <1>3. ActorWaiting(a) \in SUBSET (1..Len(waiting))
    BY DEF ActorWaiting
  <1> QED BY <1>2, <1>3, FS_Subset, FS_CardinalityType

LEMMA InitIInv == Init => IInv
  <1> SUFFICES ASSUME Init PROVE IInv
    OBVIOUS
  <1> USE DEF Init
  <1>1. Active = {} /\ Len(waiting) = 0
    BY DEF Active, InSlot
  <1>2. running = Cardinality(Active)
    BY <1>1, FS_EmptySet
  <1>3. TypeOK
    BY <1>2, QueueOptions DEF TypeOK, Active
  <1>4. ASSUME NEW a \in Actors PROVE Cardinality(ActorWaiting(a)) = 0
    <2>1. ActorWaiting(a) = {}
      BY <1>1 DEF ActorWaiting
    <2> QED BY <2>1, FS_EmptySet
  <1>5. WithinLimits
    BY <1>1, <1>4, QueueOptions DEF WithinLimits
  <1> QED BY <1>1, <1>3, <1>5 DEF IInv, BacklogExact, WorkConserving, IdleWaitersHaveAWaker

LEMMA StartStep ==
  ASSUME IInv, NEW t \in Tasks, SubmitStart(t)
  PROVE  IInv'
  <1> USE DEF IInv
  <1>1. phase \in [Tasks -> {"out", "waiting"} \union InSlot] /\ running = Cardinality(Active)
    BY DEF TypeOK, Active
  <1>2. Active' = Active \union {t} /\ t \notin Active
    BY <1>1 DEF Active, SubmitStart, InSlot
  <1>3. Cardinality(Active') = Cardinality(Active) + 1
    BY <1>2, ActiveFinite, FS_AddElement
  <1>4. running' = Cardinality(Active') /\ running \in Nat
    BY <1>1, <1>3, ActiveFinite DEF SubmitStart
  <1>5. waiting = <<>>
    BY QueueOptions, <1>4 DEF WorkConserving, SubmitStart
  <1>6. TypeOK'
    BY <1>4, QueueOptions DEF TypeOK, SubmitStart, Active, InSlot
  <1>7. WithinLimits'
    BY <1>4, QueueOptions DEF WithinLimits, SubmitStart, ActorWaiting
  <1>8. BacklogExact'
    BY <1>1, <1>5 DEF BacklogExact, SubmitStart
  <1> QED BY <1>4, <1>5, <1>6, <1>7, <1>8 DEF SubmitStart, WorkConserving, IdleWaitersHaveAWaker

LEMMA WaitStep ==
  ASSUME IInv, NEW t \in Tasks, SubmitWait(t)
  PROVE  IInv'
  <1> USE DEF IInv
  <1>1. phase \in [Tasks -> {"out", "waiting"} \union InSlot] /\ waiting \in Seq(Tasks) /\ Len(waiting) \in Nat
    BY DEF TypeOK
  <1>2. Active' = Active
    BY <1>1 DEF Active, SubmitWait, InSlot
  <1>3. /\ waiting' = Append(waiting, t) /\ waiting' \in Seq(Tasks) /\ Len(waiting') = Len(waiting) + 1
        /\ \A k \in 1..Len(waiting) : waiting'[k] = waiting[k]
        /\ waiting'[Len(waiting) + 1] = t
    BY <1>1, AppendProperties DEF SubmitWait
  <1>4. TypeOK'
    BY <1>1, <1>2, <1>3 DEF TypeOK, SubmitWait, Active
  <1>5. running = MaxConcurrent /\ running \in Nat
    BY QueueOptions, ActiveFinite DEF WithinLimits, SubmitWait, TypeOK, Active
  <1>6. ASSUME NEW a \in Actors PROVE Cardinality(ActorWaiting(a)') <= MaxQueuedPerActor
    <2>1. CASE a = ActorOf[t]
      <3>1. ActorWaiting(a)' = ActorWaiting(a) \union {Len(waiting) + 1}
        BY <1>1, <1>3, <2>1 DEF ActorWaiting
      <3>2. IsFiniteSet(ActorWaiting(a)) /\ Cardinality(ActorWaiting(a)) \in Nat
        BY ActorWaitingFinite
      <3>3. \/ Cardinality(ActorWaiting(a)') = Cardinality(ActorWaiting(a))
            \/ Cardinality(ActorWaiting(a)') = Cardinality(ActorWaiting(a)) + 1
        BY <3>1, <3>2, FS_AddElement
      <3>4. Cardinality(ActorWaiting(a)) < MaxQueuedPerActor
        BY <2>1 DEF SubmitWait
      <3> QED BY <3>2, <3>3, <3>4, QueueOptions
    <2>2. CASE a # ActorOf[t]
      <3>1. ActorWaiting(a)' = ActorWaiting(a)
        BY <1>1, <1>3, <2>2 DEF ActorWaiting
      <3> QED BY <3>1 DEF WithinLimits
    <2> QED BY <2>1, <2>2
  <1>7. WithinLimits'
    BY <1>1, <1>3, <1>5, <1>6, QueueOptions DEF WithinLimits, SubmitWait
  <1>8. \A k \in 1..Len(waiting) : waiting[k] \in Tasks /\ waiting[k] # t
    BY <1>1 DEF BacklogExact, SubmitWait
  <1>9. BacklogExact'
    <2>1. \A k \in 1..Len(waiting') : phase'[waiting'[k]] = "waiting"
      BY <1>1, <1>3, <1>8 DEF BacklogExact, SubmitWait
    <2>2. \A j, k \in 1..Len(waiting') : waiting'[j] = waiting'[k] => j = k
      BY <1>1, <1>3, <1>8 DEF BacklogExact
    <2>3. ASSUME NEW u \in Tasks, phase'[u] = "waiting"
          PROVE  \E k \in 1..Len(waiting') : waiting'[k] = u
      <3>1. CASE u = t
        BY <3>1, <1>1, <1>3
      <3>2. CASE u # t
        BY <3>2, <2>3, <1>1, <1>3 DEF BacklogExact, SubmitWait
      <3> QED BY <3>1, <3>2
    <2> QED BY <2>1, <2>2, <2>3 DEF BacklogExact
  <1>10. running' = running /\ idleWaiters' = idleWaiters
    BY DEF SubmitWait
  <1> QED BY <1>4, <1>5, <1>7, <1>9, <1>10, QueueOptions DEF WorkConserving, IdleWaitersHaveAWaker

\* With every slot taken, pump() starts exactly one waiter per freed slot.
LEMMA PumpOne ==
  ASSUME running = MaxConcurrent, Len(waiting) \in Nat, Len(waiting) >= 1
  PROVE  PumpCount(running - 1) = 1
  <1>1. MaxConcurrent - (running - 1) = 1
    BY QueueOptions
  <1>2. PumpCount(running - 1) = IF 1 < Len(waiting) THEN 1 ELSE Len(waiting)
    BY <1>1, Zenon DEF PumpCount
  <1> QED BY <1>2

\* What the finally block of start() does when it starts nobody or the head.
LEMMA SettleEffect ==
  ASSUME NEW t \in Tasks, Settle(t), running \in Nat
  PROVE  /\ idleWaiters' = IF running' = 0 /\ waiting' = <<>> THEN {} ELSE idleWaiters
         /\ PumpCount(running - 1) = 0 =>
              /\ running' = running - 1
              /\ waiting' = SubSeq(waiting, 1, Len(waiting))
              /\ phase' = [u \in Tasks |-> IF u = t THEN "out" ELSE phase[u]]
              /\ attempt' = [u \in Tasks |-> IF u = t THEN 0 ELSE attempt[u]]
         /\ PumpCount(running - 1) = 1 =>
              /\ running' = running
              /\ waiting' = SubSeq(waiting, 2, Len(waiting))
              /\ phase' = [u \in Tasks |-> IF u = t THEN "out" ELSE IF u = waiting[1] THEN "executing" ELSE phase[u]]
              /\ attempt' = [u \in Tasks |-> IF u = t THEN 0 ELSE IF u = waiting[1] THEN 1 ELSE attempt[u]]
  <1>1. {waiting[k] : k \in 1..0} = {}
    OBVIOUS
  <1>2. {waiting[k] : k \in 1..1} = {waiting[1]}
    OBVIOUS
  <1>3. ASSUME PumpCount(running - 1) = 0
        PROVE  /\ running' = running - 1 + 0
               /\ waiting' = SubSeq(waiting, 0 + 1, Len(waiting))
               /\ phase' = [u \in Tasks |-> IF u = t THEN "out" ELSE IF u \in {} THEN "executing" ELSE phase[u]]
               /\ attempt' = [u \in Tasks |-> IF u = t THEN 0 ELSE IF u \in {} THEN 1 ELSE attempt[u]]
    BY <1>1, <1>3, Zenon DEF Settle
  <1>4. ASSUME PumpCount(running - 1) = 1
        PROVE  /\ running' = running - 1 + 1
               /\ waiting' = SubSeq(waiting, 1 + 1, Len(waiting))
               /\ phase' = [u \in Tasks |-> IF u = t THEN "out" ELSE IF u \in {waiting[1]} THEN "executing" ELSE phase[u]]
               /\ attempt' = [u \in Tasks |-> IF u = t THEN 0 ELSE IF u \in {waiting[1]} THEN 1 ELSE attempt[u]]
    BY <1>2, <1>4, Zenon DEF Settle
  <1>5. idleWaiters' = IF running' = 0 /\ waiting' = <<>> THEN {} ELSE idleWaiters
    BY Zenon DEF Settle
  <1> QED BY <1>3, <1>4, <1>5

\* A settling task hands its slot to the head of the backlog when there is one.
LEMMA SettleStep ==
  ASSUME IInv, NEW t \in Tasks, TaskResolves(t)
  PROVE  IInv'
  <1> USE DEF IInv
  <1>1. /\ phase \in [Tasks -> {"out", "waiting"} \union InSlot]
        /\ attempt \in [Tasks -> 0..MaxAttempts]
        /\ waiting \in Seq(Tasks) /\ Len(waiting) \in Nat
        /\ running = Cardinality(Active)
        /\ MaxConcurrent \in Nat /\ MaxAttempts \in Nat \ {0}
    BY QueueOptions DEF TypeOK, Active
  <1>2. t \in Active /\ phase[t] = "executing"
    BY DEF TaskResolves, Active, InSlot
  <1>3. running \in Nat \ {0} /\ Cardinality(Active \ {t}) = running - 1
    BY <1>1, <1>2, ActiveFinite, FS_RemoveElement, FS_EmptySet
  <1>4. CASE waiting = <<>>
    <2>1. PumpCount(running - 1) = 0
      BY <1>1, <1>3, <1>4 DEF PumpCount, WithinLimits
    <2>2. /\ running' = running - 1
          /\ waiting' = SubSeq(waiting, 1, Len(waiting))
          /\ phase' = [u \in Tasks |-> IF u = t THEN "out" ELSE phase[u]]
          /\ attempt' = [u \in Tasks |-> IF u = t THEN 0 ELSE attempt[u]]
          /\ idleWaiters' = IF running' = 0 /\ waiting' = <<>> THEN {} ELSE idleWaiters
      BY <2>1, <1>1, <1>3, SettleEffect DEF TaskResolves
    <2>3. waiting' = <<>> /\ Len(waiting') = 0
      BY <2>2, <1>1, <1>4
    <2>4. Active' = Active \ {t}
      BY <1>1, <2>2 DEF Active, InSlot
    <2>5. TypeOK'
      <3>1. running' = Cardinality(Active')
        BY <1>3, <2>2, <2>4
      <3>2. phase' \in [Tasks -> {"out", "waiting"} \union InSlot] /\ attempt' \in [Tasks -> 0..MaxAttempts]
        BY <1>1, <2>2
      <3>3. \A u \in Tasks : phase'[u] = "backoff" => attempt'[u] < MaxAttempts
        BY <1>1, <2>2 DEF TypeOK
      <3>4. waiting' \in Seq(Tasks) /\ idleWaiters' \subseteq Idlers
        BY <2>2, <2>3 DEF TypeOK
      <3> QED BY <3>1, <3>2, <3>3, <3>4 DEF TypeOK, Active
    <2>6. WithinLimits'
      <3>1. ASSUME NEW a \in Actors PROVE Cardinality(ActorWaiting(a)') = 0
        <4>1. ActorWaiting(a)' = {}
          BY <2>3 DEF ActorWaiting
        <4> QED BY <4>1, FS_EmptySet
      <3> QED BY <1>1, <1>3, <2>2, <2>3, <3>1, QueueOptions DEF WithinLimits
    <2>7. BacklogExact'
      BY <1>1, <1>2, <1>4, <2>2, <2>3 DEF BacklogExact
    <2> QED BY <1>3, <2>2, <2>3, <2>5, <2>6, <2>7 DEF WorkConserving, IdleWaitersHaveAWaker
  <1>5. CASE waiting # <<>>
    <2> DEFINE h == waiting[1]
    <2>1. Len(waiting) >= 1 /\ running = MaxConcurrent
      BY <1>1, <1>5, EmptySeq DEF WorkConserving
    <2>2. PumpCount(running - 1) = 1
      BY <1>1, <1>3, <2>1, PumpOne
    <2>3. h \in Tasks /\ phase[h] = "waiting" /\ h # t /\ h \notin Active
      BY <1>1, <1>2, <2>1 DEF BacklogExact, Active, InSlot
    <2>5. /\ running' = running
          /\ waiting' = SubSeq(waiting, 2, Len(waiting))
          /\ phase' = [u \in Tasks |-> IF u = t THEN "out" ELSE IF u = h THEN "executing" ELSE phase[u]]
          /\ attempt' = [u \in Tasks |-> IF u = t THEN 0 ELSE IF u = h THEN 1 ELSE attempt[u]]
          /\ idleWaiters' = IF running' = 0 /\ waiting' = <<>> THEN {} ELSE idleWaiters
      BY <2>2, <1>1, <1>3, SettleEffect DEF TaskResolves
    <2>6. /\ waiting' \in Seq(Tasks) /\ Len(waiting') = Len(waiting) - 1
          /\ \A k \in 1..Len(waiting') : waiting'[k] = waiting[k + 1]
      <3>1. \A i \in 2..Len(waiting) : waiting[i] \in Tasks
        BY <1>1
      <3>2. /\ SubSeq(waiting, 2, Len(waiting)) \in Seq(Tasks)
            /\ Len(SubSeq(waiting, 2, Len(waiting))) = IF 2 <= Len(waiting) THEN Len(waiting) - 2 + 1 ELSE 0
            /\ \A i \in 1..(Len(waiting) - 2 + 1) : SubSeq(waiting, 2, Len(waiting))[i] = waiting[2 + i - 1]
        BY <1>1, <3>1, SubSeqProperties
      <3>3. waiting' = SubSeq(waiting, 2, Len(waiting))
        BY <2>5
      <3>4. waiting' \in Seq(Tasks) /\ Len(waiting') = Len(waiting) - 1
        <4>1. Len(waiting') = IF 2 <= Len(waiting) THEN Len(waiting) - 2 + 1 ELSE 0
          BY <3>2, <3>3, Zenon
        <4>2. waiting' \in Seq(Tasks)
          BY <3>2, <3>3, Zenon
        <4>3. \A n \in Nat : n >= 1 => (IF 2 <= n THEN n - 2 + 1 ELSE 0) = n - 1
          OBVIOUS
        <4>4. Len(waiting) \in Nat /\ Len(waiting) >= 1
          BY <1>1, <2>1
        <4> QED BY <4>1, <4>2, <4>3, <4>4, Zenon
      <3>5. ASSUME NEW k \in 1..Len(waiting') PROVE waiting'[k] = waiting[k + 1]
        <4>1. k \in 1..(Len(waiting) - 2 + 1) /\ 2 + k - 1 = k + 1
          BY <1>1, <2>1, <3>4
        <4>2. SubSeq(waiting, 2, Len(waiting))[k] = waiting[2 + k - 1]
          BY <4>1, <3>2
        <4> QED BY <4>1, <4>2, <3>3
      <3> QED BY <3>4, <3>5
    <2>7. Active' = (Active \ {t}) \union {h}
      BY <1>1, <2>3, <2>5 DEF Active, InSlot
    <2>8. Cardinality(Active') = running
      <3>1. IsFiniteSet(Active \ {t})
        BY ActiveFinite, FS_RemoveElement
      <3>2. h \notin Active \ {t}
        BY <2>3
      <3>3. Cardinality((Active \ {t}) \union {h}) = Cardinality(Active \ {t}) + 1
        BY <3>1, <3>2, FS_AddElement
      <3> QED BY <2>7, <3>3, <1>3
    <2>9. TypeOK'
      BY <1>1, <1>3, <2>5, <2>6, <2>8 DEF TypeOK, Active, InSlot
    <2>10. ASSUME NEW a \in Actors PROVE Cardinality(ActorWaiting(a)') <= MaxQueuedPerActor
      <3> DEFINE f == [k \in ActorWaiting(a)' |-> k + 1]
      <3>1. f \in Injection(ActorWaiting(a)', ActorWaiting(a))
        <4>1. \A k \in ActorWaiting(a)' : k + 1 \in ActorWaiting(a) /\ k \in Nat
          BY <1>1, <2>6 DEF ActorWaiting
        <4>2. f \in [ActorWaiting(a)' -> ActorWaiting(a)]
          BY <4>1
        <4>3. \A j, k \in ActorWaiting(a)' : f[j] = f[k] => j = k
          BY <4>1
        <4> HIDE DEF f
        <4> QED BY <4>2, <4>3 DEF Injection, IsInjective
      <3>2. IsFiniteSet(ActorWaiting(a)')
        BY <3>1, ActorWaitingFinite, FS_Injection
      <3>3. Cardinality(ActorWaiting(a)') <= Cardinality(ActorWaiting(a))
        BY <3>1, ActorWaitingFinite, FS_Injection
      <3> HIDE DEF f
      <3> QED BY <3>2, <3>3, ActorWaitingFinite, FS_CardinalityType, QueueOptions DEF WithinLimits
    <2>11. WithinLimits'
      BY <1>1, <1>3, <2>5, <2>6, <2>10, QueueOptions DEF WithinLimits
    <2>12. BacklogExact'
      <3>1. \A k \in 1..Len(waiting') : k + 1 \in 1..Len(waiting) /\ k + 1 # 1
        BY <1>1, <2>6
      <3>2. \A k \in 1..Len(waiting') : waiting'[k] \in Tasks /\ waiting'[k] # h /\ waiting'[k] # t
        <4> SUFFICES ASSUME NEW k \in 1..Len(waiting')
                     PROVE  waiting'[k] \in Tasks /\ waiting'[k] # h /\ waiting'[k] # t
          OBVIOUS
        <4>1. waiting'[k] = waiting[k + 1] /\ k + 1 \in 1..Len(waiting) /\ k + 1 # 1 /\ 1 \in 1..Len(waiting)
          BY <3>1, <1>1, <2>1, <2>6
        <4>2. waiting[k + 1] \in Tasks /\ phase[waiting[k + 1]] = "waiting" /\ waiting[k + 1] # h
          BY <4>1, <1>1 DEF BacklogExact
        <4> QED BY <4>1, <4>2, <1>2
      <3>3. \A k \in 1..Len(waiting') : phase'[waiting'[k]] = "waiting"
        BY <3>1, <3>2, <2>5, <2>6 DEF BacklogExact
      <3>4. \A j, k \in 1..Len(waiting') : waiting'[j] = waiting'[k] => j = k
        BY <3>1, <2>6 DEF BacklogExact
      <3>5. ASSUME NEW u \in Tasks, phase'[u] = "waiting"
            PROVE  \E k \in 1..Len(waiting') : waiting'[k] = u
        <4>1. u # h /\ phase[u] = "waiting"
          BY <3>5, <2>5, <2>3
        <4>2. PICK k \in 1..Len(waiting) : waiting[k] = u
          BY <4>1 DEF BacklogExact
        <4>3. k # 1 /\ k - 1 \in 1..Len(waiting') /\ (k - 1) + 1 = k
          BY <4>1, <4>2, <2>6, <1>1
        <4> QED BY <4>2, <4>3, <2>6
      <3> QED BY <3>3, <3>4, <3>5 DEF BacklogExact
    <2> QED BY <1>3, <2>1, <2>5, <2>9, <2>11, <2>12 DEF WorkConserving, IdleWaitersHaveAWaker
  <1> QED BY <1>4, <1>5

\* Retrying keeps the slot: nothing the invariant speaks of moves.
LEMMA RetryStep ==
  ASSUME IInv, NEW t \in Tasks, TaskFailsRetryable(t) \/ BackoffOver(t)
  PROVE  IInv'
  <1> USE DEF IInv
  <1>1. phase \in [Tasks -> {"out", "waiting"} \union InSlot] /\ attempt \in [Tasks -> 0..MaxAttempts]
    BY DEF TypeOK
  <1>2. /\ phase'[t] \in InSlot /\ phase[t] \in InSlot
        /\ \A u \in Tasks : u # t => phase'[u] = phase[u]
        /\ UNCHANGED <<running, waiting, idleWaiters>>
    BY <1>1 DEF TaskFailsRetryable, BackoffOver, InSlot
  <1>3. Active' = Active
    BY <1>1, <1>2 DEF Active
  <1>4. phase' \in [Tasks -> {"out", "waiting"} \union InSlot]
    BY <1>1, <1>2 DEF TaskFailsRetryable, BackoffOver
  <1>5. attempt' \in [Tasks -> 0..MaxAttempts]
    BY <1>1, QueueOptions DEF TaskFailsRetryable, BackoffOver, TypeOK
  <1>51. \A u \in Tasks : phase'[u] = "backoff" => attempt'[u] < MaxAttempts
    BY <1>1, QueueOptions DEF TaskFailsRetryable, BackoffOver, TypeOK
  <1>6. TypeOK'
    BY <1>51, <1>2, <1>3, <1>4, <1>5 DEF TypeOK, Active
  <1>7. BacklogExact'
    <2>1. \A u \in Tasks : phase'[u] = "waiting" <=> phase[u] = "waiting"
      BY <1>1, <1>2 DEF InSlot
    <2>2. waiting \in Seq(Tasks)
      BY DEF TypeOK
    <2> QED BY <1>2, <2>1, <2>2 DEF BacklogExact
  <1> QED BY <1>2, <1>6, <1>7 DEF WithinLimits, ActorWaiting, WorkConserving, IdleWaitersHaveAWaker

LEMMA NextIInv == IInv /\ [Next]_vars => IInv'
  <1> SUFFICES ASSUME IInv, [Next]_vars PROVE IInv'
    OBVIOUS
  <1>1. CASE UNCHANGED vars
    BY <1>1 DEF vars, IInv, TypeOK, WithinLimits, BacklogExact, WorkConserving,
                IdleWaitersHaveAWaker, ActorWaiting
  <1>2. ASSUME NEW i \in Idlers, Idle(i) PROVE IInv'
    <2>1. running \in Nat /\ running > 0
      BY <1>2, ActiveFinite, QueueOptions DEF Idle, IInv, WorkConserving, TypeOK, Active
    <2> QED BY <1>2, <2>1 DEF Idle, IInv, TypeOK, WithinLimits, BacklogExact, WorkConserving,
                IdleWaitersHaveAWaker, ActorWaiting
  <1> QED BY <1>1, <1>2, StartStep, WaitStep, SettleStep, RetryStep DEF Next

\* For every set of tasks and every limit the queue's invariants always hold:
\* it stays within its limits and never leaves a slot free while a task waits.
THEOREM QueueIsSafe == Spec => [](TypeOK /\ WithinLimits /\ BacklogExact /\ WorkConserving /\ IdleWaitersHaveAWaker)
  BY InitIInv, NextIInv, PTL DEF Spec, IInv

\* Work conservation on its own, the form the run checks.
THEOREM AlwaysWorkConserving == Spec => []WorkConserving
  <1>1. IInv => WorkConserving
    BY DEF IInv
  <1> QED BY InitIInv, NextIInv, <1>1, PTL DEF Spec

\* A caller of idle() always has a task in a slot whose pump() will come: the
\* wake-up it waits for is never already past.
THEOREM WaitersAreWoken == Spec => []IdleWaitersHaveAWaker
  <1>1. IInv => IdleWaitersHaveAWaker
    BY DEF IInv
  <1> QED BY InitIInv, NextIInv, <1>1, PTL DEF Spec

\* No submission gets a slot ahead of the backlog.
THEOREM NeverOvertakes == Spec => NoOvertaking
  <1>1. IInv /\ [Next]_vars
        => [\A t \in Tasks : phase[t] = "out" /\ phase'[t] = "executing" => waiting = <<>>]_vars
    <2> SUFFICES ASSUME IInv, Next, NEW t \in Tasks, phase[t] = "out", phase'[t] = "executing"
                 PROVE  waiting = <<>>
      OBVIOUS
    <2>1. phase \in [Tasks -> {"out", "waiting"} \union InSlot] /\ running \in Nat
      BY ActiveFinite DEF IInv, TypeOK, Active
    <2>2. ASSUME NEW u \in Tasks, SubmitStart(u) PROVE waiting = <<>>
      BY <2>1, <2>2, QueueOptions DEF SubmitStart, IInv, WorkConserving
    <2>3. ASSUME NEW u \in Tasks, SubmitWait(u) PROVE FALSE
      BY <2>1, <2>3 DEF SubmitWait
    <2>4. ASSUME NEW u \in Tasks, TaskResolves(u), waiting # <<>> PROVE FALSE
      <3>1. waiting \in Seq(Tasks) /\ Len(waiting) \in Nat
        BY DEF IInv, TypeOK
      <3>2. running = MaxConcurrent /\ Len(waiting) >= 1
        BY <2>4, <3>1, EmptySeq DEF IInv, WorkConserving
      <3>3. PumpCount(running - 1) = 1
        BY <2>1, <3>1, <3>2, PumpOne
      <3>4. phase'[t] \in {"out", phase[t]} \/ t \in {waiting[k] : k \in 1..1}
        BY <2>4, <3>3 DEF TaskResolves, Settle
      <3> QED BY <3>2, <3>4 DEF IInv, BacklogExact
    <2>5. ASSUME NEW u \in Tasks, TaskFailsRetryable(u) \/ BackoffOver(u) PROVE FALSE
      BY <2>1, <2>5 DEF TaskFailsRetryable, BackoffOver
    <2> QED BY <2>2, <2>3, <2>4, <2>5 DEF Next, Idle
  <1> QED BY InitIInv, NextIInv, <1>1, PTL DEF Spec, NoOvertaking
=============================================================================
