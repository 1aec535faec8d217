----------------------- MODULE OracleSubmission_proofs -----------------------
(***************************************************************************)
(* Proofs about OracleSubmission for any number of concurrent calls and    *)
(* monitors, any retry limit and every combination of disturbances.        *)
(* Snapshots are saved over the row long after they were read, so what is  *)
(* claimed of the row has to be claimed of every snapshot in memory.       *)
(***************************************************************************)
EXTENDS OracleSubmission, TLAPS

Mined == \E t \in Tx : txState[t] = "success"

\* What is true of the row, and of every entity somebody may still save.
Sound(r) ==
    /\ r.status = "SUBMITTED" => r.tx \in 1..sent /\ r.signed /\ r.attempts > 0
    /\ r.status = "CONFIRMED" => Mined

WorkersSound ==
    \A w \in Workers :
        /\ Sound(work[w].snap)
        /\ work[w].pc \in {"sending", "recording"} => work[w].snap.signed = TRUE /\ work[w].attempt > 0
        /\ work[w].pc = "recording" => work[w].snap.status = "SUBMITTED"

MonitorsSound ==
    \A m \in Monitors :
        /\ Sound(mon[m].snap)
        /\ mon[m].pc = "waiting" => mon[m].tx \in Tx
        /\ mon[m].pc = "receipt" => mon[m].tx \in Tx

FreshTx == \A t \in Tx : t > sent => txState[t] = "unsent"

IInv == TypeOK /\ Sound(row) /\ WorkersSound /\ MonitorsSound /\ FreshTx

\* What holds until two calls overlap or something goes wrong.
WorkersCalm ==
    \A w \in Workers :
        /\ work[w].pc \in {"idle", "saving", "sending", "recording"}
        /\ work[w].pc \in {"saving", "sending"} => sent = 0
        /\ work[w].pc = "recording" => sent = 1
        /\ work[w].pc \in {"sending", "recording"} => row.status = "PENDING" /\ row.signed

MonitorsCalm ==
    \A m \in Monitors :
        /\ mon[m].pc \in {"off", "waiting", "receipt", "receiptSave"}
        /\ mon[m].pc # "off" => sent = 1 /\ mon[m].tx = 1 /\ row.status # "PENDING"
        /\ mon[m].pc \in {"receipt", "receiptSave"} => txState[1] \in {"success", "reverted"}
        /\ mon[m].pc = "receiptSave" =>
              /\ mon[m].snap.signed
              /\ mon[m].snap.status = IF txState[1] = "success" THEN "CONFIRMED" ELSE "FAILED"

RowCalm ==
    sent = 1 =>
        /\ row.signed
        /\ row.status \in {"SUBMITTED", "CONFIRMED", "FAILED"} \/ \E w \in Workers : work[w].pc = "recording"

CalmState == OneAtATime /\ BroadcastOnce /\ WorkersCalm /\ MonitorsCalm /\ RowCalm

CalmInv == calm => CalmState

WorkerRecords == [pc : {"idle", "saving", "resetting", "submit", "sending", "recording"},
                  snap : Rows, attempt : 0..MaxRetries + 1]
MonitorRecords == [pc : {"off", "waiting", "receipt", "error", "receiptSave", "errorSave"},
                   tx : 0..MaxTx, snap : Rows]

LEMMA NoRowSound == NoRow \in Rows /\ Sound(NoRow)
  BY SubmissionAssumption DEF NoRow, Rows, Statuses, Sound

LEMMA InitIInv == Init => IInv
  <1> SUFFICES ASSUME Init PROVE IInv
    OBVIOUS
  <1>1. TypeOK
    <2>1. 0 \in 0..MaxTx /\ 0 \in 0..MaxRetries + 1
      BY SubmissionAssumption
    <2>2. work \in [Workers -> WorkerRecords]
      BY <2>1, NoRowSound DEF Init, WorkerRecords
    <2>3. mon \in [Monitors -> MonitorRecords]
      BY <2>1, NoRowSound DEF Init, MonitorRecords
    <2>4. row \in Rows /\ expired \in BOOLEAN /\ calm \in BOOLEAN /\ sent \in 0..MaxTx
      BY <2>1, NoRowSound DEF Init
    <2>5. txState \in [Tx -> {"unsent", "pending", "success", "reverted"}]
      BY DEF Init
    <2> QED BY <2>2, <2>3, <2>4, <2>5 DEF TypeOK, WorkerRecords, MonitorRecords
  <1>2. Sound(row) /\ WorkersSound /\ MonitorsSound /\ FreshTx
    BY NoRowSound DEF Init, WorkersSound, MonitorsSound, FreshTx
  <1> QED BY <1>1, <1>2 DEF IInv

\* A snapshot stays sound while transactions are only broadcast and mined.
LEMMA SoundIsStable ==
  ASSUME TypeOK, sent' \in Nat, sent' >= sent,
         \A t \in Tx : txState[t] = "success" => txState'[t] = "success",
         NEW r \in Rows, Sound(r)
  PROVE  Sound(r)'
  <1>1. sent \in Nat
    BY SubmissionAssumption DEF TypeOK
  <1>2. Mined => Mined'
    BY DEF Mined
  <1>3. \A t \in 1..sent : t \in 1..sent'
    BY <1>1
  <1> QED BY <1>2, <1>3 DEF Sound

\* A worker's move to a sound, well-typed snapshot keeps all workers sound.
LEMMA WorkerMoves ==
  ASSUME TypeOK, WorkersSound, sent' \in Nat, sent' >= sent,
         \A t \in Tx : txState[t] = "success" => txState'[t] = "success",
         NEW w \in Workers,
         NEW pc \in {"idle", "saving", "resetting", "submit", "sending", "recording"},
         NEW s \in Rows, NEW a \in 0..MaxRetries + 1,
         Goto(w, pc, s, a), Sound(s)',
         pc \in {"sending", "recording"} => s.signed = TRUE /\ a > 0,
         pc = "recording" => s.status = "SUBMITTED"
  PROVE  WorkersSound' /\ work' \in [Workers -> WorkerRecords]
  <1>1. work \in [Workers -> WorkerRecords]
    BY DEF TypeOK, WorkerRecords
  <1>2. [pc |-> pc, snap |-> s, attempt |-> a] \in WorkerRecords
    BY DEF WorkerRecords
  <1>3. work' \in [Workers -> WorkerRecords]
    BY <1>1, <1>2 DEF Goto
  <1>4. ASSUME NEW v \in Workers
        PROVE  /\ Sound(work[v].snap)'
               /\ work'[v].pc \in {"sending", "recording"} => work'[v].snap.signed = TRUE /\ work'[v].attempt > 0
               /\ work'[v].pc = "recording" => work'[v].snap.status = "SUBMITTED"
    <2>1. CASE v = w
      <3>1. work'[v] = [pc |-> pc, snap |-> s, attempt |-> a]
        BY <2>1, <1>1 DEF Goto
      <3>2. work'[v].snap = s /\ work'[v].pc = pc /\ work'[v].attempt = a
        BY <3>1
      <3>3. Sound(work[v].snap)'
        BY <3>2 DEF Sound
      <3> QED BY <3>2, <3>3
    <2>2. CASE v # w
      <3>1. work'[v] = work[v] /\ work[v].snap \in Rows /\ Sound(work[v].snap)
        BY <2>2, <1>1 DEF Goto, WorkersSound, WorkerRecords
      <3>2. \A r \in Rows : Sound(r) => Sound(r)'
        BY SoundIsStable
      <3>3. Sound(work[v].snap)'
        BY <3>1, <3>2 DEF Sound
      <3> QED BY <3>1, <3>3 DEF WorkersSound
    <2> QED BY <2>1, <2>2
  <1> QED BY <1>3, <1>4 DEF WorkersSound

LEMMA MonitorsStay ==
  ASSUME TypeOK, MonitorsSound, sent' \in Nat, sent' >= sent, UNCHANGED mon,
         \A t \in Tx : txState[t] = "success" => txState'[t] = "success"
  PROVE  MonitorsSound'
  <1>1. \A m \in Monitors : mon[m].snap \in Rows
    BY DEF TypeOK
  <1>2. \A r \in Rows : Sound(r) => Sound(r)'
    BY SoundIsStable
  <1>3. ASSUME NEW m \in Monitors PROVE Sound(mon[m].snap)'
    BY <1>1, <1>2 DEF MonitorsSound, Sound
  <1> QED BY <1>3 DEF MonitorsSound

LEMMA WorkersStay ==
  ASSUME TypeOK, WorkersSound, sent' \in Nat, sent' >= sent, UNCHANGED work,
         \A t \in Tx : txState[t] = "success" => txState'[t] = "success"
  PROVE  WorkersSound'
  <1>1. \A w \in Workers : work[w].snap \in Rows
    BY DEF TypeOK
  <1>2. \A r \in Rows : Sound(r) => Sound(r)'
    BY SoundIsStable
  <1>3. ASSUME NEW w \in Workers PROVE Sound(work[w].snap)'
    BY <1>1, <1>2 DEF WorkersSound, Sound
  <1> QED BY <1>3 DEF WorkersSound

\* A worker moves on and touches nothing but its own entity.
LEMMA WorkerOnlyStep ==
  ASSUME IInv, calm' \in BOOLEAN, NEW w \in Workers,
         NEW pc \in {"idle", "saving", "resetting", "submit", "sending", "recording"},
         NEW s \in Rows, NEW a \in 0..MaxRetries + 1,
         Goto(w, pc, s, a), Sound(s),
         pc \in {"sending", "recording"} => s.signed = TRUE /\ a > 0,
         pc = "recording" => s.status = "SUBMITTED",
         UNCHANGED <<row, expired, txState, sent, mon>>
  PROVE  IInv'
  <1>1. TypeOK /\ WorkersSound /\ MonitorsSound /\ Sound(row) /\ row \in Rows /\ sent \in Nat
    BY SubmissionAssumption DEF IInv, TypeOK
  <1>2. /\ sent' \in Nat /\ sent' >= sent
        /\ \A t \in Tx : txState[t] = "success" => txState'[t] = "success"
    BY <1>1
  <1>3. \A r \in Rows : Sound(r) => Sound(r)'
    BY <1>1, <1>2, SoundIsStable
  <1>4. Sound(s)' /\ Sound(row)'
    BY <1>1, <1>3 DEF Sound
  <1>5. WorkersSound' /\ work' \in [Workers -> WorkerRecords]
    BY <1>1, <1>2, <1>4, WorkerMoves
  <1>6. MonitorsSound'
    BY <1>1, <1>2, MonitorsStay
  <1>7. TypeOK'
    BY <1>1, <1>5 DEF TypeOK, WorkerRecords
  <1> QED BY <1>4, <1>5, <1>6, <1>7 DEF IInv, FreshTx

\* A worker saves its entity over the row.
LEMMA WorkerSaves ==
  ASSUME IInv, calm' \in BOOLEAN, NEW w \in Workers, NEW pc \in {"idle", "submit"},
         Goto(w, pc, NoRow, 0), row' = work[w].snap,
         UNCHANGED <<expired, txState, sent>>, MonitorsSound', mon' \in [Monitors -> MonitorRecords]
  PROVE  IInv'
  <1>1. TypeOK /\ WorkersSound /\ Sound(work[w].snap) /\ work[w].snap \in Rows /\ sent \in Nat
    BY SubmissionAssumption DEF IInv, TypeOK, WorkersSound
  <1>2. /\ sent' \in Nat /\ sent' >= sent
        /\ \A t \in Tx : txState[t] = "success" => txState'[t] = "success"
    BY <1>1
  <1>3. \A r \in Rows : Sound(r) => Sound(r)'
    BY <1>1, <1>2, SoundIsStable
  <1>4. Sound(NoRow)' /\ Sound(row)'
    BY <1>1, <1>3, NoRowSound DEF Sound
  <1>5. 0 \in 0..MaxRetries + 1
    BY SubmissionAssumption
  <1>6. WorkersSound' /\ work' \in [Workers -> WorkerRecords]
    BY <1>1, <1>2, <1>4, <1>5, NoRowSound, WorkerMoves
  <1>7. TypeOK'
    BY <1>1, <1>6 DEF TypeOK, WorkerRecords, MonitorRecords
  <1> QED BY <1>4, <1>6, <1>7 DEF IInv, FreshTx

\* Starting a monitor of a real transaction.
LEMMA MonitorStarts ==
  ASSUME IInv, NEW t \in Tx, StartMonitor(t), UNCHANGED <<sent, txState>>
  PROVE  MonitorsSound' /\ mon' \in [Monitors -> MonitorRecords]
  <1>1. mon \in [Monitors -> MonitorRecords] /\ sent \in Nat /\ TypeOK
    BY SubmissionAssumption DEF IInv, TypeOK, MonitorRecords
  <1>2. PICK m \in Monitors : mon' = [mon EXCEPT ![m] = [pc |-> "waiting", tx |-> t, snap |-> NoRow]]
    BY DEF StartMonitor
  <1>3. [pc |-> "waiting", tx |-> t, snap |-> NoRow] \in MonitorRecords
    BY NoRowSound DEF MonitorRecords, Tx
  <1>4. \A r \in Rows : Sound(r) => Sound(r)'
    BY <1>1, SoundIsStable
  <1>5. ASSUME NEW n \in Monitors
        PROVE  /\ Sound(mon[n].snap)'
               /\ mon'[n].pc = "waiting" => mon'[n].tx \in Tx
               /\ mon'[n].pc = "receipt" => mon'[n].tx \in Tx
    <2>1. CASE n = m
      <3>1. mon'[n].snap = NoRow /\ mon'[n].tx = t /\ mon'[n].pc = "waiting"
        BY <2>1, <1>1, <1>2
      <3>2. Sound(NoRow)'
        BY <1>4, NoRowSound
      <3>3. Sound(mon[n].snap)'
        BY <3>1, <3>2 DEF Sound
      <3> QED BY <3>1, <3>3
    <2>2. CASE n # m
      <3>1. mon'[n] = mon[n] /\ mon[n].snap \in Rows /\ Sound(mon[n].snap)
        BY <2>2, <1>1, <1>2 DEF IInv, MonitorsSound, MonitorRecords
      <3>2. Sound(mon[n].snap)'
        BY <3>1, <1>4 DEF Sound
      <3> QED BY <3>1, <3>2 DEF IInv, MonitorsSound
    <2> QED BY <2>1, <2>2
  <1> QED BY <1>1, <1>2, <1>3, <1>5 DEF MonitorsSound

\* The catch block of the retry loop.
LEMMA CatchKeepsSound ==
  ASSUME IInv, NEW w \in Workers, work[w].pc \in {"sending", "recording"},
         NEW permanent, CatchError(w, permanent)
  PROVE  \E pc \in {"saving", "sending"}, s \in Rows, a \in 0..MaxRetries + 1 :
            /\ Goto(w, pc, s, a)
            /\ Sound(s)
            /\ pc = "sending" => s.signed = TRUE /\ a > 0
  <1> DEFINE a == work[w].attempt
             s == [work[w].snap EXCEPT !.attempts = a]
             f == [s EXCEPT !.status = "FAILED"]
  <1>1. /\ work[w].snap \in Rows /\ a \in 0..MaxRetries + 1 /\ a > 0
        /\ work[w].snap.signed = TRUE /\ Sound(work[w].snap)
    BY DEF IInv, TypeOK, WorkersSound
  <1>2. s \in Rows /\ f \in Rows /\ s.signed = TRUE
    BY <1>1 DEF Rows, Statuses
  <1>3. Sound(s)
    BY <1>1 DEF Sound, Rows
  <1>4. Sound(f)
    BY <1>1 DEF Sound, Rows
  <1>5. CASE permanent \/ a > MaxRetries
    <2>1. Goto(w, "saving", f, 0) /\ 0 \in 0..MaxRetries + 1
      BY <1>5, SubmissionAssumption DEF CatchError
    <2> QED BY <2>1, <1>2, <1>4
  <1>6. CASE ~(permanent \/ a > MaxRetries)
    <2>1. Goto(w, "sending", s, a + 1)
      BY <1>6 DEF CatchError
    <2>2. a + 1 \in 0..MaxRetries + 1 /\ a + 1 > 0
      BY <1>1, <1>6, SubmissionAssumption
    <2> QED BY <2>1, <2>2, <1>2, <1>3
  <1> QED BY <1>5, <1>6

\* The steps that only load the row into memory or give up.
LEMMA ReadStep ==
  ASSUME IInv, calm' \in BOOLEAN, NEW w \in Workers,
         \/ SignRead(w) \/ CleanupRead(w) \/ RetryRead(w) \/ SubmitRefused(w)
         \/ SubmitExpired(w) \/ SubmitBegin(w) \/ SaveFails(w)
  PROVE  IInv'
  <1>1. row \in Rows /\ Sound(row) /\ 0 \in 0..MaxRetries + 1 /\ 1 \in 0..MaxRetries + 1
    BY SubmissionAssumption DEF IInv, TypeOK
  <1>2. UNCHANGED <<row, expired, txState, sent, mon>>
    BY DEF SignRead, CleanupRead, RetryRead, SubmitRefused, SubmitExpired, SubmitBegin, SaveFails
  <1>3. CASE SignRead(w)
    <2>1. [row EXCEPT !.signed = TRUE] \in Rows /\ Sound([row EXCEPT !.signed = TRUE])
      BY <1>1 DEF Rows, Sound
    <2> QED BY <1>1, <1>2, <1>3, <2>1, WorkerOnlyStep DEF SignRead
  <1>4. CASE CleanupRead(w) \/ SubmitExpired(w)
    <2>1. [row EXCEPT !.status = "FAILED"] \in Rows /\ Sound([row EXCEPT !.status = "FAILED"])
      BY <1>1 DEF Rows, Sound, Statuses
    <2> QED BY <1>1, <1>2, <1>4, <2>1, WorkerOnlyStep DEF CleanupRead, SubmitExpired
  <1>5. CASE RetryRead(w)
    <2>1. [row EXCEPT !.status = "PENDING"] \in Rows /\ Sound([row EXCEPT !.status = "PENDING"])
      BY <1>1 DEF Rows, Sound, Statuses
    <2> QED BY <1>1, <1>2, <1>5, <2>1, WorkerOnlyStep DEF RetryRead
  <1>6. CASE SubmitRefused(w) \/ SaveFails(w)
    BY <1>1, <1>2, <1>6, NoRowSound, WorkerOnlyStep DEF SubmitRefused, SaveFails, Return
  <1>7. CASE SubmitBegin(w)
    <2>1. row.signed = TRUE
      BY <1>7, <1>1 DEF SubmitBegin, Rows
    <2>2. Goto(w, "sending", row, 1)
      BY <1>7 DEF SubmitBegin
    <2>3. \A pc \in {"sending"} : pc # "recording" /\ 1 > 0
      OBVIOUS
    <2> QED BY <1>1, <1>2, <2>1, <2>2, <2>3, WorkerOnlyStep
  <1> QED BY <1>3, <1>4, <1>5, <1>6, <1>7

LEMMA FailedAttemptStep ==
  ASSUME IInv, calm' \in BOOLEAN, NEW w \in Workers, BroadcastRejected(w) \/ RecordFails(w)
  PROVE  IInv'
  <1>1. UNCHANGED <<row, expired, txState, sent, mon>> /\ work[w].pc \in {"sending", "recording"}
    BY DEF BroadcastRejected, RecordFails
  <1>2. PICK permanent : CatchError(w, permanent)
    BY DEF BroadcastRejected, RecordFails
  <1>3. PICK pc \in {"saving", "sending"}, s \in Rows, a \in 0..MaxRetries + 1 :
            /\ Goto(w, pc, s, a)
            /\ Sound(s)
            /\ pc = "sending" => s.signed = TRUE /\ a > 0
    BY <1>1, <1>2, CatchKeepsSound
  <1> QED BY <1>1, <1>3, WorkerOnlyStep

LEMMA SaveStep ==
  ASSUME IInv, calm' \in BOOLEAN, NEW w \in Workers,
         RetryReset(w) \/ SaveSnapshot(w) \/ Record(w) \/ SubmitResumesMonitoring(w)
  PROVE  IInv'
  <1>1. UNCHANGED <<expired, txState, sent>>
    BY DEF RetryReset, SaveSnapshot, Record, SubmitResumesMonitoring
  <1>2. TypeOK /\ MonitorsSound /\ sent \in Nat /\ mon \in [Monitors -> MonitorRecords]
    BY SubmissionAssumption DEF IInv, TypeOK, MonitorRecords
  <1>3. CASE RetryReset(w) \/ SaveSnapshot(w)
    <2>1. UNCHANGED mon /\ row' = work[w].snap
      BY <1>3 DEF RetryReset, SaveSnapshot
    <2>2. MonitorsSound' /\ mon' \in [Monitors -> MonitorRecords]
      BY <1>1, <1>2, <2>1, MonitorsStay
    <2> QED BY <1>1, <1>3, <2>1, <2>2, WorkerSaves DEF RetryReset, SaveSnapshot, Return
  <1>4. CASE Record(w)
    <2>1. work[w].snap.tx \in Tx
      <3>1. work[w].snap.status = "SUBMITTED" /\ Sound(work[w].snap) /\ sent \in 0..MaxTx
        BY <1>4 DEF Record, IInv, WorkersSound, TypeOK
      <3>2. work[w].snap.tx \in 1..sent
        BY <3>1 DEF Sound
      <3> QED BY <3>1, <3>2, SubmissionAssumption DEF Tx
    <2>2. MonitorsSound' /\ mon' \in [Monitors -> MonitorRecords]
      BY <1>1, <1>4, <2>1, MonitorStarts DEF Record
    <2> QED BY <1>1, <1>4, <2>2, WorkerSaves DEF Record, Return
  <1>5. CASE SubmitResumesMonitoring(w)
    <2>1. row.tx \in Tx /\ UNCHANGED row
      BY <1>5, SubmissionAssumption DEF SubmitResumesMonitoring, IInv, TypeOK, Rows, Tx
    <2>2. MonitorsSound' /\ mon' \in [Monitors -> MonitorRecords]
      BY <1>1, <1>5, <2>1, MonitorStarts DEF SubmitResumesMonitoring
    <2>3. \A r \in Rows : Sound(r) => Sound(r)'
      BY <1>1, <1>2, SoundIsStable
    <2>4. Sound(NoRow)' /\ Sound(row)' /\ 0 \in 0..MaxRetries + 1
      BY <2>1, <2>3, NoRowSound, SubmissionAssumption DEF IInv, Sound, TypeOK
    <2>5. WorkersSound' /\ work' \in [Workers -> WorkerRecords]
      <3>1. Goto(w, "idle", NoRow, 0)
        BY <1>5 DEF SubmitResumesMonitoring, Return
      <3>2. /\ sent' \in Nat /\ sent' >= sent
            /\ \A t \in Tx : txState[t] = "success" => txState'[t] = "success"
        BY <1>1, <1>2
      <3>3. WorkersSound
        BY DEF IInv
      <3> QED BY <1>2, <2>4, <3>1, <3>2, <3>3, NoRowSound, WorkerMoves
    <2>6. TypeOK'
      BY <1>1, <2>1, <2>2, <2>5 DEF IInv, TypeOK, WorkerRecords, MonitorRecords
    <2> QED BY <1>1, <2>2, <2>4, <2>5, <2>6 DEF IInv, FreshTx
  <1> QED BY <1>3, <1>4, <1>5

\* A transaction is accepted by the chain.
LEMMA BroadcastStep ==
  ASSUME IInv, calm' \in BOOLEAN, NEW w \in Workers, Broadcast(w) \/ BroadcastLost(w)
  PROVE  IInv'
  <1>1. /\ TypeOK /\ WorkersSound /\ MonitorsSound /\ Sound(row) /\ row \in Rows
        /\ sent \in 0..MaxTx /\ txState \in [Tx -> {"unsent", "pending", "success", "reverted"}]
        /\ work[w].snap \in Rows /\ work[w].attempt \in 0..MaxRetries + 1
    BY DEF IInv, TypeOK
  <1>2. /\ work[w].pc = "sending" /\ Accept /\ UNCHANGED <<row, expired, mon>>
        /\ work[w].snap.signed = TRUE /\ work[w].attempt > 0
    BY DEF Broadcast, BroadcastLost, IInv, WorkersSound
  <1>3. sent' \in 0..MaxTx /\ sent' \in Nat /\ sent' >= sent /\ sent' = sent + 1 /\ sent' \in 1..sent' /\ sent + 1 \in Tx
    BY <1>1, <1>2, SubmissionAssumption DEF Accept, Tx
  <1>4. /\ \A t \in Tx : txState[t] = "success" => txState'[t] = "success"
        /\ FreshTx'
        /\ txState' \in [Tx -> {"unsent", "pending", "success", "reverted"}]
    <2>1. txState[sent + 1] = "unsent"
      BY <1>1, <1>3 DEF IInv, FreshTx
    <2>2. txState' = [txState EXCEPT ![sent + 1] = "pending"]
      BY <1>2 DEF Accept
    <2> QED BY <1>1, <1>3, <2>1, <2>2, SubmissionAssumption DEF IInv, FreshTx, Tx
  <1>5. QED
    <2>1. \A r \in Rows : Sound(r) => Sound(r)'
      BY <1>1, <1>3, <1>4, SoundIsStable
    <2>2. Sound(row)' /\ MonitorsSound'
      BY <1>1, <1>2, <1>3, <1>4, <2>1, MonitorsStay DEF Sound
    <2>3. WorkersSound' /\ work' \in [Workers -> WorkerRecords]
      <3>1. CASE Broadcast(w)
        <4> DEFINE s == [work[w].snap EXCEPT !.status = "SUBMITTED", !.tx = sent + 1,
                                             !.attempts = work[w].attempt]
        <4>0. sent + 1 \in 0..MaxTx /\ "SUBMITTED" \in Statuses
          BY <1>3, SubmissionAssumption DEF Tx, Statuses
        <4>1. s \in Rows /\ s.status = "SUBMITTED" /\ s.tx = sent' /\ s.signed = TRUE /\ s.attempts > 0
          <5>1. s \in Rows
            BY <1>1, <4>0 DEF Rows
          <5>2. s.status = "SUBMITTED" /\ s.tx = sent + 1 /\ s.signed = work[w].snap.signed /\ s.attempts = work[w].attempt
            BY <1>1 DEF Rows
          <5> QED BY <5>1, <5>2, <1>2, <1>3
        <4>3. Goto(w, "recording", s, work[w].attempt)
          BY <3>1 DEF Broadcast
        <4> HIDE DEF s
        \* The entity and the attempt as they are now, fixed before the step.
        <4>4. PICK r, a : r = s /\ a = work[w].attempt
          OBVIOUS
        <4>5. Sound(r)'
          BY <4>1, <4>4, <1>3 DEF Sound
        <4> QED BY <1>1, <1>2, <1>3, <1>4, <4>1, <4>3, <4>4, <4>5, WorkerMoves
      <3>2. CASE BroadcastLost(w)
        <4>1. PICK pc \in {"saving", "sending"}, s \in Rows, a \in 0..MaxRetries + 1 :
                  /\ Goto(w, pc, s, a)
                  /\ Sound(s)
                  /\ pc = "sending" => s.signed = TRUE /\ a > 0
          BY <1>2, <3>2, CatchKeepsSound DEF BroadcastLost
        <4>2. Sound(s)'
          BY <2>1, <4>1
        <4> QED BY <1>1, <1>3, <1>4, <4>1, <4>2, WorkerMoves
      <3> QED BY <3>1, <3>2
    <2>5. TypeOK'
      BY <1>1, <1>2, <1>3, <1>4, <2>3 DEF TypeOK, WorkerRecords
    <2> QED BY <1>4, <2>2, <2>3, <2>5 DEF IInv

\* A monitor moves on and touches at most the row, which it leaves sound.
LEMMA MonitorMoves ==
  ASSUME IInv, calm' \in BOOLEAN, NEW m \in Monitors,
         NEW pc \in {"off", "waiting", "receipt", "error", "receiptSave", "errorSave"},
         NEW s \in Rows, MonitorAt(m, pc, s), Sound(s),
         pc \in {"waiting", "receipt"} => mon[m].tx \in Tx,
         UNCHANGED <<expired, txState, sent, work>>, row' \in Rows, Sound(row')
  PROVE  IInv'
  <1>1. /\ TypeOK /\ WorkersSound /\ sent \in Nat /\ mon \in [Monitors -> MonitorRecords]
    BY SubmissionAssumption DEF IInv, TypeOK, MonitorRecords
  <1>2. \A r \in Rows : Sound(r) => Sound(r)'
    BY <1>1, SoundIsStable
  <1>3. WorkersSound'
    BY <1>1, WorkersStay
  <1>4. mon' \in [Monitors -> MonitorRecords]
    BY <1>1 DEF MonitorAt, MonitorRecords
  <1>5. ASSUME NEW n \in Monitors
        PROVE  /\ Sound(mon[n].snap)'
               /\ mon'[n].pc = "waiting" => mon'[n].tx \in Tx
               /\ mon'[n].pc = "receipt" => mon'[n].tx \in Tx
    <2>1. CASE n = m
      <3>1. mon'[n].snap = s /\ mon'[n].tx = mon[m].tx /\ mon'[n].pc = pc
        BY <2>1, <1>1 DEF MonitorAt, MonitorRecords
      <3>2. Sound(s)'
        BY <1>2
      <3>3. Sound(mon[n].snap)'
        BY <3>1, <3>2 DEF Sound
      <3> QED BY <3>1, <3>3
    <2>2. CASE n # m
      <3>1. mon'[n] = mon[n] /\ mon[n].snap \in Rows /\ Sound(mon[n].snap)
        BY <2>2, <1>1 DEF IInv, MonitorsSound, MonitorAt, MonitorRecords
      <3>2. Sound(mon[n].snap)'
        BY <3>1, <1>2 DEF Sound
      <3> QED BY <3>1, <3>2 DEF IInv, MonitorsSound
    <2> QED BY <2>1, <2>2
  <1>6. Sound(row)'
    BY DEF Sound, Mined
  <1>7. TypeOK'
    BY <1>1, <1>4 DEF TypeOK, MonitorRecords
  <1> QED BY <1>3, <1>5, <1>6, <1>7 DEF IInv, MonitorsSound, FreshTx

LEMMA MonitorStepSound ==
  ASSUME IInv, calm' \in BOOLEAN, NEW m \in Monitors, MonitorStep(m) \/ MonitorFault(m)
  PROVE  IInv'
  <1>1. /\ row \in Rows /\ Sound(row) /\ mon[m].snap \in Rows /\ Sound(mon[m].snap)
        /\ mon[m].pc \in {"waiting", "receipt"} => mon[m].tx \in Tx
    BY DEF IInv, TypeOK, MonitorsSound
  <1>2. UNCHANGED <<expired, txState, sent, work>>
    BY DEF MonitorStep, MonitorFault, MonitorReceipt, MonitorLosesReceipt, MonitorRead, MonitorSave, MonitorSaveFails
  <1>3. CASE MonitorReceipt(m)
    BY <1>1, <1>2, <1>3, NoRowSound, MonitorMoves DEF MonitorReceipt
  <1>4. CASE MonitorLosesReceipt(m)
    BY <1>1, <1>2, <1>4, NoRowSound, MonitorMoves DEF MonitorLosesReceipt
  <1>5. CASE MonitorRead(m)
    <2> DEFINE c == [row EXCEPT !.status = "CONFIRMED"]
               f == [row EXCEPT !.status = "FAILED"]
    <2>1. c \in Rows /\ f \in Rows /\ c.status = "CONFIRMED" /\ f.status = "FAILED"
      BY <1>1 DEF Rows, Statuses
    <2>2. Sound(f)
      BY <2>1 DEF Sound
    <2>3. mon[m].pc = "receipt" /\ txState[mon[m].tx] = "success" => Sound(c)
      BY <1>1, <2>1 DEF Sound, Mined
    <2>4. UNCHANGED row
      BY <1>5 DEF MonitorRead
    <2>5. \/ MonitorAt(m, "receiptSave", c) /\ Sound(c)
          \/ MonitorAt(m, "receiptSave", f)
          \/ MonitorAt(m, "errorSave", f)
      BY <1>5, <2>3 DEF MonitorRead
    <2> HIDE DEF c, f
    <2> QED BY <1>1, <1>2, <2>1, <2>2, <2>4, <2>5, MonitorMoves
  <1>6. CASE MonitorSave(m)
    BY <1>1, <1>2, <1>6, NoRowSound, MonitorMoves DEF MonitorSave
  <1>7. CASE MonitorSaveFails(m)
    <2>1. UNCHANGED row /\ (MonitorAt(m, "error", NoRow) \/ MonitorAt(m, "off", NoRow))
      BY <1>7 DEF MonitorSaveFails
    <2> QED BY <1>1, <1>2, <2>1, NoRowSound, MonitorMoves
  <1> QED BY <1>3, <1>4, <1>5, <1>6, <1>7 DEF MonitorStep, MonitorFault

\* Creation, time, the chain and crashes.
LEMMA OutsideStep ==
  ASSUME IInv, calm' \in BOOLEAN, CreatePayload \/ Expire \/ Crash \/ (\E t \in Tx : Mine(t))
  PROVE  IInv'
  <1>1. /\ TypeOK /\ WorkersSound /\ MonitorsSound /\ Sound(row) /\ row \in Rows
        /\ sent \in Nat /\ sent \in 0..MaxTx /\ txState \in [Tx -> {"unsent", "pending", "success", "reverted"}]
    BY SubmissionAssumption DEF IInv, TypeOK
  <1>2. sent' = sent /\ \A t \in Tx : txState[t] = "success" => txState'[t] = "success"
    BY <1>1 DEF CreatePayload, Expire, Crash, Mine
  <1>3. FreshTx' /\ txState' \in [Tx -> {"unsent", "pending", "success", "reverted"}]
    BY <1>1, <1>2 DEF CreatePayload, Expire, Crash, Mine, IInv, FreshTx
  <1>4. \A r \in Rows : Sound(r) => Sound(r)'
    BY <1>1, <1>2, SoundIsStable
  <1>5. row' \in Rows /\ Sound(row)'
    <2>1. CASE CreatePayload
      <3>1. row' = [NoRow EXCEPT !.status = "PENDING"] /\ row'.status = "PENDING" /\ row' \in Rows
        <4>1. row' = [NoRow EXCEPT !.status = "PENDING"]
          BY <2>1 DEF CreatePayload
        <4>2. NoRow \in Rows /\ "PENDING" \in Statuses
          BY NoRowSound DEF Statuses
        <4> QED BY <4>1, <4>2 DEF Rows
      <3> QED BY <3>1 DEF Sound
    <2>2. CASE ~CreatePayload
      <3>1. row' = row
        BY <2>2 DEF Expire, Crash, Mine
      <3> QED BY <3>1, <1>1, <1>4 DEF Sound
    <2> QED BY <2>1, <2>2
  <1>6. CASE Crash
    <2>1. 0 \in 0..MaxTx /\ 0 \in 0..MaxRetries + 1 /\ Sound(NoRow)'
      BY SubmissionAssumption, NoRowSound, <1>4
    <2>2. work' \in [Workers -> WorkerRecords]
      BY <1>6, <2>1, NoRowSound DEF Crash, WorkerRecords
    <2>3. mon' \in [Monitors -> MonitorRecords]
      BY <1>6, <2>1, NoRowSound DEF Crash, MonitorRecords
    <2>4. \A w \in Workers : work'[w] = [pc |-> "idle", snap |-> NoRow, attempt |-> 0]
      BY <1>6 DEF Crash
    <2>5. \A m \in Monitors : mon'[m] = [pc |-> "off", tx |-> 0, snap |-> NoRow]
      BY <1>6 DEF Crash
    <2>6. WorkersSound'
      BY <2>1, <2>4 DEF WorkersSound, Sound
    <2>7. MonitorsSound'
      BY <2>1, <2>5 DEF MonitorsSound, Sound
    <2>8. TypeOK'
      BY <1>1, <1>2, <1>3, <1>5, <1>6, <2>2, <2>3 DEF Crash, TypeOK, WorkerRecords, MonitorRecords
    <2> QED BY <1>3, <1>5, <2>6, <2>7, <2>8 DEF IInv
  <1>7. CASE ~Crash
    <2>1. UNCHANGED <<work, mon>> /\ expired' \in BOOLEAN
      BY <1>1, <1>7 DEF CreatePayload, Expire, Mine, TypeOK
    <2>2. WorkersSound' /\ MonitorsSound'
      BY <1>1, <1>2, <2>1, WorkersStay, MonitorsStay
    <2>3. TypeOK'
      BY <1>1, <1>2, <1>3, <1>5, <2>1 DEF TypeOK
    <2> QED BY <1>3, <1>5, <2>2, <2>3 DEF IInv
  <1> QED BY <1>6, <1>7

LEMMA NextIInv == IInv /\ [Next]_vars => IInv'
  <1> SUFFICES ASSUME IInv, [Next]_vars PROVE IInv'
    OBVIOUS
  <1>1. CASE UNCHANGED vars
    BY <1>1 DEF vars, IInv, TypeOK, Sound, Mined, WorkersSound, MonitorsSound, FreshTx
  <1>2. CASE Next
    <2>1. calm' \in BOOLEAN
      BY <1>2 DEF Next, StaysCalm, Upsets
    <2>2. ASSUME NEW w \in Workers, WorkerStep(w) \/ WorkerFault(w) PROVE IInv'
      BY <2>1, <2>2, ReadStep, FailedAttemptStep, SaveStep, BroadcastStep DEF WorkerStep, WorkerFault
    <2> QED BY <1>2, <2>1, <2>2, MonitorStepSound, OutsideStep DEF Next
  <1> QED BY <1>1, <1>2

\* Type correctness of the submission pipeline.
THEOREM Typing == Spec => []TypeOK
  <1>1. IInv => TypeOK
    BY DEF IInv
  <1> QED BY <1>1, InitIInv, NextIInv, PTL DEF Spec

\* A payload is never reported CONFIRMED unless the chain executed one of its
\* transactions, whatever calls, monitors and faults are interleaved.
THEOREM ConfirmationsAreReal == Spec => []ConfirmedMeansMined
  <1>1. IInv => ConfirmedMeansMined
    BY DEF IInv, Sound, Mined, ConfirmedMeansMined
  <1> QED BY <1>1, InitIInv, NextIInv, PTL DEF Spec

\* A SUBMITTED payload always names a transaction that was broadcast.
THEOREM SubmissionsAreTraceable == Spec => []SubmittedIsTraceable
  <1>1. IInv => SubmittedIsTraceable
    BY DEF IInv, Sound, SubmittedIsTraceable
  <1> QED BY <1>1, InitIInv, NextIInv, PTL DEF Spec

-----------------------------------------------------------------------------
(* Until two calls overlap or something goes wrong. *)

\* What the snapshots can say before and after the one broadcast.
LEMMA OneTransaction ==
  ASSUME IInv, CalmState
  PROVE  /\ sent \in {0, 1}
         /\ sent = 0 => \A r \in Rows : Sound(r) => r.status \notin {"SUBMITTED", "CONFIRMED"}
         /\ row.status = "SUBMITTED" => sent = 1 /\ row.tx = 1
         /\ row.status = "CONFIRMED" => sent = 1 /\ txState[1] = "success"
         /\ sent = 1 => 1 \in Tx
  <1>1. sent \in 0..MaxTx /\ sent \in {0, 1} /\ row \in Rows /\ Sound(row)
    BY SubmissionAssumption DEF IInv, TypeOK, CalmState, BroadcastOnce
  <1>2. Mined => sent = 1 /\ txState[1] = "success"
    <2> SUFFICES ASSUME NEW t \in Tx, txState[t] = "success" PROVE sent = 1 /\ txState[1] = "success"
      BY DEF Mined
    <2>1. t \in Nat /\ t >= 1 /\ ~(t > sent)
      BY SubmissionAssumption DEF IInv, FreshTx, Tx
    <2> QED BY <1>1, <2>1
  <1>3. sent = 1 => 1 \in Tx
    BY <1>1, SubmissionAssumption DEF Tx
  <1> QED BY <1>1, <1>2, <1>3 DEF Sound

LEMMA CalmInit == Init => CalmInv
  BY SubmissionAssumption DEF Init, CalmInv, CalmState, OneAtATime, BroadcastOnce, WorkersCalm, MonitorsCalm, RowCalm

\* A call loads the row: nothing was broadcast, or the call only resumes a monitor.
LEMMA CalmReads ==
  ASSUME IInv, CalmState, OneAtATime', NEW w \in Workers,
         SignRead(w) \/ CleanupRead(w) \/ SubmitRefused(w) \/ SubmitExpired(w) \/ SubmitBegin(w)
  PROVE  CalmState'
  <1>1. work \in [Workers -> WorkerRecords] /\ row \in Rows
    BY DEF IInv, TypeOK, WorkerRecords
  <1>2. UNCHANGED <<row, expired, txState, sent, mon>>
    BY DEF SignRead, CleanupRead, SubmitRefused, SubmitExpired, SubmitBegin
  <1>3. work[w].pc = "idle" /\ ~SubmitRefused(w)
    BY DEF CalmState, WorkersCalm, SignRead, CleanupRead, SubmitRefused, SubmitExpired, SubmitBegin, MaySubmit
  <1>4. PICK R \in WorkerRecords : /\ work' = [work EXCEPT ![w] = R] /\ R.pc \in {"saving", "sending"}
                                   /\ R.pc = "sending" => row.status = "PENDING" /\ row.signed
    <2>1. [row EXCEPT !.signed = TRUE] \in Rows /\ [row EXCEPT !.status = "FAILED"] \in Rows
      BY <1>1 DEF Rows, Statuses
    <2>2. 0 \in 0..MaxRetries + 1 /\ 1 \in 0..MaxRetries + 1
      BY SubmissionAssumption
    <2>3. CASE SignRead(w)
      <3> DEFINE R == [pc |-> "saving", snap |-> [row EXCEPT !.signed = TRUE], attempt |-> 0]
      <3>1. R \in WorkerRecords /\ work' = [work EXCEPT ![w] = R]
        BY <2>1, <2>2, <2>3 DEF SignRead, Goto, WorkerRecords
      <3> QED BY <3>1
    <2>4. CASE CleanupRead(w) \/ SubmitExpired(w)
      <3> DEFINE R == [pc |-> "saving", snap |-> [row EXCEPT !.status = "FAILED"], attempt |-> 0]
      <3>1. R \in WorkerRecords /\ work' = [work EXCEPT ![w] = R]
        BY <2>1, <2>2, <2>4 DEF CleanupRead, SubmitExpired, Goto, WorkerRecords
      <3> QED BY <3>1
    <2>5. CASE SubmitBegin(w)
      <3> DEFINE R == [pc |-> "sending", snap |-> row, attempt |-> 1]
      <3>1. R \in WorkerRecords /\ work' = [work EXCEPT ![w] = R]
        BY <1>1, <2>2, <2>5 DEF SubmitBegin, Goto, WorkerRecords
      <3> QED BY <2>5, <3>1 DEF SubmitBegin
    <2> QED BY <1>3, <2>3, <2>4, <2>5
  <1>5. work'[w] = R /\ \A v \in Workers : v # w => work'[v] = work[v]
    BY <1>1, <1>4
  <1>6. \A v \in Workers : v # w => work[v].pc = "idle"
    BY <1>4, <1>5 DEF OneAtATime
  <1>7. sent = 0
    <2>1. sent = 1 => row.signed /\ row.status \in {"SUBMITTED", "CONFIRMED", "FAILED"}
      BY <1>3, <1>6 DEF CalmState, RowCalm
    <2> QED BY <1>3, <2>1, OneTransaction DEF SignRead, CleanupRead, SubmitExpired, SubmitBegin
  <1> QED BY <1>2, <1>4, <1>5, <1>7 DEF CalmState, BroadcastOnce, WorkersCalm, MonitorsCalm, RowCalm

\* The retry loop: no transaction was accepted yet.
LEMMA CalmRejection ==
  ASSUME IInv, CalmState, OneAtATime', NEW w \in Workers, BroadcastRejected(w)
  PROVE  CalmState'
  <1>1. work \in [Workers -> WorkerRecords] /\ work[w].pc = "sending" /\ UNCHANGED <<row, expired, txState, sent, mon>>
    BY DEF IInv, TypeOK, WorkerRecords, BroadcastRejected
  <1>2. sent = 0
    BY <1>1 DEF CalmState, WorkersCalm
  <1>3. PICK pc \in {"saving", "sending"}, s \in Rows, a \in 0..MaxRetries + 1 : Goto(w, pc, s, a)
    BY <1>1, CatchKeepsSound DEF BroadcastRejected
  <1>4. work'[w].pc = pc /\ \A v \in Workers : v # w => work'[v] = work[v]
    BY <1>1, <1>3 DEF Goto
  <1> QED BY <1>1, <1>2, <1>4 DEF CalmState, BroadcastOnce, WorkersCalm, MonitorsCalm, RowCalm

\* The one broadcast: the row is still PENDING and nobody monitors anything.
LEMMA CalmBroadcast ==
  ASSUME IInv, CalmState, OneAtATime', NEW w \in Workers, Broadcast(w)
  PROVE  CalmState'
  <1>1. work \in [Workers -> WorkerRecords] /\ work[w].pc = "sending" /\ UNCHANGED <<row, expired, mon>>
    BY DEF IInv, TypeOK, WorkerRecords, Broadcast
  <1>2. sent = 0 /\ sent' = 1
    BY <1>1 DEF CalmState, WorkersCalm, Broadcast, Accept
  <1>3. work'[w].pc = "recording" /\ \A v \in Workers : v # w => work'[v] = work[v] /\ work[v].pc = "idle"
    <2>1. work'[w].pc = "recording" /\ \A v \in Workers : v # w => work'[v] = work[v]
      BY <1>1 DEF Broadcast, Goto
    <2> QED BY <2>1, <1>1 DEF CalmState, OneAtATime
  <1>4. \A m \in Monitors : mon[m].pc = "off"
    BY <1>2 DEF CalmState, MonitorsCalm
  <1>5. row.status = "PENDING" /\ row.signed
    BY <1>1 DEF CalmState, WorkersCalm
  <1> QED BY <1>1, <1>2, <1>3, <1>4, <1>5 DEF CalmState, BroadcastOnce, WorkersCalm, MonitorsCalm, RowCalm

\* The end of a call: its entity is saved while nothing was broadcast, or names the broadcast.
LEMMA CalmSaves ==
  ASSUME IInv, CalmState, OneAtATime', NEW w \in Workers, SaveSnapshot(w) \/ RetryReset(w)
  PROVE  CalmState'
  <1>1. work \in [Workers -> WorkerRecords] /\ SaveSnapshot(w) /\ UNCHANGED <<expired, txState, sent, mon>>
    BY DEF IInv, TypeOK, WorkerRecords, SaveSnapshot, RetryReset, CalmState, WorkersCalm
  <1>2. sent = 0 /\ work[w].pc = "saving"
    BY <1>1 DEF CalmState, WorkersCalm, SaveSnapshot
  <1>3. work'[w].pc = "idle" /\ \A v \in Workers : v # w => work'[v] = work[v] /\ work[v].pc = "idle"
    <2>1. work'[w].pc = "idle" /\ \A v \in Workers : v # w => work'[v] = work[v]
      BY <1>1 DEF SaveSnapshot, Return, Goto
    <2> QED BY <1>2, <2>1 DEF CalmState, OneAtATime
  <1>4. \A m \in Monitors : mon[m].pc = "off"
    BY <1>2 DEF CalmState, MonitorsCalm
  <1> QED BY <1>1, <1>2, <1>3, <1>4 DEF CalmState, BroadcastOnce, WorkersCalm, MonitorsCalm, RowCalm

\* The broadcast is recorded, or its monitoring resumed: one more monitor of transaction 1.
LEMMA CalmMonitoring ==
  ASSUME IInv, CalmState, OneAtATime', NEW w \in Workers, Record(w) \/ SubmitResumesMonitoring(w)
  PROVE  CalmState'
  <1>1. /\ work \in [Workers -> WorkerRecords] /\ mon \in [Monitors -> MonitorRecords]
        /\ UNCHANGED <<expired, txState, sent>>
    BY DEF IInv, TypeOK, WorkerRecords, MonitorRecords, Record, SubmitResumesMonitoring
  <1>2. work'[w].pc = "idle" /\ \A v \in Workers : v # w => work'[v] = work[v]
    BY <1>1 DEF Record, SubmitResumesMonitoring, Return, Goto
  <1>3. sent = 1 /\ row'.status = "SUBMITTED" /\ row'.signed /\ StartMonitor(1)
    <2>1. CASE Record(w)
      <3>1. sent = 1 /\ work[w].snap.status = "SUBMITTED" /\ Sound(work[w].snap) /\ row' = work[w].snap
        BY <2>1 DEF Record, IInv, WorkersSound, CalmState, WorkersCalm
      <3>2. work[w].snap.tx = 1 /\ work[w].snap.signed
        BY <3>1 DEF Sound
      <3> QED BY <2>1, <3>1, <3>2 DEF Record
    <2>2. CASE SubmitResumesMonitoring(w)
      <3>1. row.status = "SUBMITTED" /\ StartMonitor(row.tx) /\ row' = row /\ row.signed
        BY <2>2 DEF SubmitResumesMonitoring, IInv, Sound
      <3> QED BY <3>1, OneTransaction
    <2> QED BY <2>1, <2>2
  <1>4. \A v \in Workers : work'[v].pc = "idle"
    <2>1. ASSUME NEW v \in Workers, v # w, work[v].pc # "idle" PROVE FALSE
      <3>1. work[v].pc = "recording" /\ row.status = "PENDING"
        BY <1>3, <2>1 DEF CalmState, WorkersCalm
      <3>2. work[w].pc # "recording" /\ SubmitResumesMonitoring(w)
        BY <2>1, <3>1 DEF CalmState, OneAtATime, Record
      <3> QED BY <3>1, <3>2 DEF SubmitResumesMonitoring
    <2> QED BY <1>2, <2>1
  <1>5. PICK m \in Monitors : mon' = [mon EXCEPT ![m] = [pc |-> "waiting", tx |-> 1, snap |-> NoRow]]
    BY <1>3 DEF StartMonitor
  <1>6. mon'[m].pc = "waiting" /\ mon'[m].tx = 1 /\ \A n \in Monitors : n # m => mon'[n] = mon[n]
    BY <1>1, <1>5
  <1>7. MonitorsCalm'
    BY <1>1, <1>3, <1>6 DEF CalmState, MonitorsCalm
  <1> QED BY <1>1, <1>3, <1>4, <1>7 DEF CalmState, BroadcastOnce, WorkersCalm, RowCalm

\* A monitor takes the receipt to the row.
LEMMA CalmMonitor ==
  ASSUME IInv, CalmState, OneAtATime', NEW m \in Monitors, MonitorStep(m)
  PROVE  CalmState'
  <1>1. /\ mon \in [Monitors -> MonitorRecords] /\ row \in Rows
        /\ UNCHANGED <<expired, txState, sent, work>>
    BY DEF IInv, TypeOK, MonitorRecords, MonitorStep, MonitorReceipt, MonitorRead, MonitorSave
  <1>2. mon[m].pc \in {"waiting", "receipt", "receiptSave"}
    BY DEF CalmState, MonitorsCalm, MonitorStep, MonitorReceipt, MonitorRead, MonitorSave
  <1>3. /\ sent = 1 /\ mon[m].tx = 1 /\ row.status # "PENDING" /\ row.signed
        /\ row.status \in {"SUBMITTED", "CONFIRMED", "FAILED"}
        /\ \A w \in Workers : work[w].pc = "idle"
    <2>1. sent = 1 /\ mon[m].tx = 1 /\ row.status # "PENDING"
      BY <1>2 DEF CalmState, MonitorsCalm
    <2> QED BY <2>1 DEF CalmState, WorkersCalm, RowCalm
  <1>4. CASE MonitorReceipt(m)
    <2>1. row' = row /\ mon' = [mon EXCEPT ![m].pc = "receipt", ![m].snap = NoRow] /\ txState[1] \in {"success", "reverted"}
      BY <1>3, <1>4 DEF MonitorReceipt, MonitorAt
    <2>2. mon'[m].pc = "receipt" /\ mon'[m].tx = 1 /\ \A n \in Monitors : n # m => mon'[n] = mon[n]
      BY <1>1, <1>3, <2>1 DEF MonitorRecords
    <2>3. MonitorsCalm'
      BY <1>1, <1>3, <2>1, <2>2 DEF CalmState, MonitorsCalm
    <2> QED BY <1>1, <1>3, <2>1, <2>3 DEF CalmState, BroadcastOnce, WorkersCalm, RowCalm
  <1>5. CASE MonitorRead(m)
    <2> DEFINE s == [row EXCEPT !.status = IF txState[1] = "success" THEN "CONFIRMED" ELSE "FAILED"]
    <2>1. row' = row /\ mon' = [mon EXCEPT ![m].pc = "receiptSave", ![m].snap = s] /\ txState[1] \in {"success", "reverted"}
      BY <1>2, <1>3, <1>5 DEF MonitorRead, MonitorAt, CalmState, MonitorsCalm
    <2>2. s.signed /\ s.status = IF txState[1] = "success" THEN "CONFIRMED" ELSE "FAILED"
      BY <1>1, <1>3 DEF Rows
    <2> HIDE DEF s
    <2>3. /\ mon'[m].pc = "receiptSave" /\ mon'[m].tx = 1 /\ mon'[m].snap = s
          /\ \A n \in Monitors : n # m => mon'[n] = mon[n]
      BY <1>1, <1>3, <2>1 DEF MonitorRecords
    <2>4. MonitorsCalm'
      BY <1>1, <1>3, <2>1, <2>2, <2>3 DEF CalmState, MonitorsCalm
    <2> QED BY <1>1, <1>3, <2>1, <2>4 DEF CalmState, BroadcastOnce, WorkersCalm, RowCalm
  <1>6. CASE MonitorSave(m)
    <2>1. row' = mon[m].snap /\ mon' = [mon EXCEPT ![m].pc = "off", ![m].snap = NoRow] /\ mon[m].pc = "receiptSave"
      BY <1>2, <1>6 DEF MonitorSave, MonitorAt
    <2>2. row'.signed /\ row'.status \in {"CONFIRMED", "FAILED"}
      BY <2>1 DEF CalmState, MonitorsCalm
    <2>3. mon'[m].pc = "off" /\ \A n \in Monitors : n # m => mon'[n] = mon[n]
      BY <1>1, <2>1 DEF MonitorRecords
    <2>4. MonitorsCalm'
      BY <1>1, <1>3, <2>2, <2>3 DEF CalmState, MonitorsCalm
    <2> QED BY <1>1, <1>3, <2>2, <2>4 DEF CalmState, BroadcastOnce, WorkersCalm, RowCalm
  <1> QED BY <1>4, <1>5, <1>6 DEF MonitorStep

\* Creation, time and the chain.
LEMMA CalmOutside ==
  ASSUME IInv, CalmState, OneAtATime', CreatePayload \/ Expire \/ \E t \in Tx : Mine(t)
  PROVE  CalmState'
  <1>1. UNCHANGED <<sent, work, mon>> /\ txState \in [Tx -> {"unsent", "pending", "success", "reverted"}]
    BY DEF IInv, TypeOK, CreatePayload, Expire, Mine
  <1>2. CASE CreatePayload
    <2>1. sent = 0 /\ txState' = txState
      BY <1>2, OneTransaction DEF CreatePayload, Exists, CalmState, RowCalm, WorkersCalm
    <2>2. \A w \in Workers : work[w].pc \in {"idle", "saving"}
      BY <1>2, <2>1 DEF CreatePayload, Exists, CalmState, WorkersCalm
    <2> QED BY <1>1, <2>1, <2>2 DEF CalmState, BroadcastOnce, WorkersCalm, MonitorsCalm, RowCalm
  <1>3. CASE Expire
    BY <1>1, <1>3 DEF Expire, CalmState, BroadcastOnce, WorkersCalm, MonitorsCalm, RowCalm
  <1>4. ASSUME NEW t \in Tx, Mine(t) PROVE CalmState'
    <2>1. row' = row /\ (txState[1] \in {"success", "reverted"} => txState'[1] = txState[1])
      BY <1>1, <1>4 DEF Mine
    <2> QED BY <1>1, <2>1 DEF CalmState, BroadcastOnce, WorkersCalm, MonitorsCalm, RowCalm
  <1> QED BY <1>2, <1>3, <1>4

LEMMA CalmStep == IInv /\ CalmInv /\ [Next]_vars => CalmInv'
  <1> SUFFICES ASSUME IInv, CalmInv, [Next]_vars, calm' PROVE CalmState'
    BY DEF CalmInv
  <1>1. CASE UNCHANGED vars
    BY <1>1 DEF vars, CalmInv, CalmState, OneAtATime, BroadcastOnce, WorkersCalm, MonitorsCalm, RowCalm
  <1>2. CASE Next
    <2>1. CalmState /\ OneAtATime'
      BY <1>2 DEF Next, StaysCalm, Upsets, CalmInv
    <2>2. \/ CreatePayload \/ Expire \/ \E t \in Tx : Mine(t)
          \/ \E w \in Workers : WorkerStep(w)
          \/ \E m \in Monitors : MonitorStep(m)
      BY <1>2 DEF Next, Upsets
    <2>3. ASSUME NEW w \in Workers, WorkerStep(w) PROVE CalmState'
      BY <2>1, <2>3, CalmReads, CalmRejection, CalmBroadcast, CalmSaves, CalmMonitoring DEF WorkerStep
    <2> QED BY <2>1, <2>2, <2>3, CalmMonitor, CalmOutside
  <1> QED BY <1>1, <1>2

\* submitPayload broadcasts a payload at most once for any number of calls, as long
\* as they come one after the other and nothing fails, rejected attempts included.
THEOREM CalmPayloadsGoOnce == Spec => []CalmBroadcastsOnce
  <1>1. CalmInv => CalmBroadcastsOnce
    BY DEF CalmInv, CalmState, CalmBroadcastsOnce
  <1> QED BY <1>1, InitIInv, NextIInv, CalmInit, CalmStep, PTL DEF Spec

\* Until then CONFIRMED is final, whatever the number of monitors that resumed calls
\* started (monitorTransaction).
THEOREM CalmVerdictsAreFinal == Spec => CalmIsFinal
  <1>1. ASSUME IInv, CalmInv, [Next]_vars, calm, row.status = "CONFIRMED" PROVE row'.status = "CONFIRMED"
    <2>1. CalmState /\ sent = 1 /\ txState[1] = "success"
      BY <1>1, OneTransaction DEF CalmInv
    <2>2. \A w \in Workers : work[w].pc = "idle"
      BY <1>1, <2>1 DEF CalmState, WorkersCalm
    <2>3. ASSUME NEW w \in Workers, WorkerStep(w) \/ WorkerFault(w) PROVE row' = row
      BY <2>2, <2>3 DEF WorkerStep, WorkerFault, SignRead, CleanupRead, RetryRead, RetryReset, SubmitResumesMonitoring,
                        SubmitRefused, SubmitExpired, SubmitBegin, Broadcast, BroadcastLost, BroadcastRejected,
                        Record, RecordFails, SaveSnapshot, SaveFails
    <2>4. ASSUME NEW m \in Monitors, MonitorStep(m) \/ MonitorFault(m) PROVE row'.status = "CONFIRMED"
      <3>1. CASE MonitorSave(m)
        BY <2>1, <3>1 DEF MonitorSave, CalmState, MonitorsCalm
      <3> QED BY <1>1, <2>4, <3>1 DEF MonitorStep, MonitorFault, MonitorReceipt, MonitorRead, MonitorLosesReceipt, MonitorSaveFails
    <2>5. UNCHANGED vars \/ CreatePayload \/ Expire \/ Crash \/ (\E t \in Tx : Mine(t)) => row' = row
      BY <1>1 DEF vars, CreatePayload, Exists, Expire, Crash, Mine
    <2> QED BY <1>1, <2>3, <2>4, <2>5 DEF Next
  <1>2. IInv /\ CalmInv /\ [Next]_vars => [calm /\ row.status = "CONFIRMED" => row'.status = "CONFIRMED"]_vars
    BY <1>1
  <1> QED BY <1>2, InitIInv, NextIInv, CalmInit, CalmStep, PTL DEF Spec, CalmIsFinal
=============================================================================
