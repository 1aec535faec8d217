------------------------ MODULE ApprovalIntents_proofs ------------------------
(***************************************************************************)
(* Approval intents run at most once, whatever withdrawals, retractions,   *)
(* faults and crashes race with the execution, for every set of intents    *)
(* and calls.                                                              *)
(***************************************************************************)
EXTENDS ApprovalIntents, TLAPS

Settled(i) == intent[i].status \notin {"absent", "proposed"}
Working(c) == call[c].pc \in {"running", "finishing"}

\* The claim is won once: a call that runs or has run the operation is the only
\* one to do so for its intent, which nobody can claim or withdraw any more.
OneWorker ==
    /\ \A c \in Calls : Working(c) => Settled(call[c].id)
    /\ \A c, d \in Calls : Working(c) /\ Working(d) /\ call[c].id = call[d].id => c = d

\* Where the run of an intent stands, by its status and by its worker.
Progress ==
    /\ \A i \in Intents : ~Settled(i) => ran[i] = 0
    /\ \A c \in Calls : At(c, "running") => ran[call[c].id] = 0
    /\ \A c \in Calls : At(c, "finishing") =>
          /\ ran[call[c].id] = 1
          /\ call[c].outcome = outcome[call[c].id]
          /\ call[c].outcome \in {"completed", "failed"}

\* What was withdrawn has left "proposed" before anybody claimed it.
NeverClaimed ==
    \A i \in withdrawn :
        /\ Settled(i) /\ ran[i] = 0
        /\ \A c \in Calls : Working(c) => call[c].id # i

\* An id belongs to its proposal alone until the row is saved.
Saving == \A c \in Calls : At(c, "saving") => intent[call[c].id].status = "absent"
OneProposer ==
    \A c, d \in Calls :
        At(c, "saving") /\ ~At(d, "idle") /\ call[c].id = call[d].id => c = d

\* The twins that a proposal saw have been decided.
Decided(j) == \A i \in before[j] : Settled(i)
TwinsDecided ==
    /\ \A j \in Intents : intent[j].status = "proposed" => Decided(j)
    /\ \A c \in Calls : At(c, "saving") => Decided(call[c].id)

\* The inductive invariant.
IInv ==
    /\ TypeOK /\ OneWorker /\ Progress /\ IntentRunsOnce
    /\ NeverClaimed /\ Saving /\ OneProposer /\ TwinsDecided

-----------------------------------------------------------------------------
\* The service starts with no intent and no call.
LEMMA InitInv == Init => IInv
  BY DEF Init, IInv, TypeOK, OneWorker, Progress, IntentRunsOnce, NeverClaimed, Saving, OneProposer,
         TwinsDecided, Decided, Settled, Working, At, NoRow, Idle, Statuses, Outcomes

\* A call that is suspended has an intent.
LEMMA BusyCalls ==
  ASSUME TypeOK, NEW c \in Calls, ~At(c, "idle")
  PROVE  /\ call[c] \in Busy
         /\ call[c].id \in Intents
         /\ call[c].pc \in Pcs \ {"idle"}
         /\ call[c].outcome \in Outcomes
  BY DEF TypeOK, Busy, Idle, At

\* Nothing is stored of an intent that is still to be claimed, or has not run.
LEMMA NothingFiled ==
  ASSUME TypeOK, IntentRunsOnce, NEW i \in Intents, ~Settled(i) \/ ran[i] = 0
  PROVE  filed[i] = "no" /\ intent[i].receipt = "none" /\ intent[i].status \notin {"completed", "failed"}
<1>1. filed[i] \in {"no", "stored", "erased"} /\ outcome[i] \notin {"absent", "proposed"}
  BY DEF TypeOK, Outcomes
<1>2. /\ filed[i] = "stored" => ran[i] = 1 /\ intent[i].status = outcome[i]
      /\ filed[i] = "erased" => ran[i] = 1 /\ intent[i].status = "cancelled"
  <2>1. /\ filed[i] = "stored" => ran[i] = 1 /\ intent[i] = [status |-> outcome[i], receipt |-> outcome[i]]
        /\ filed[i] = "erased" => ran[i] = 1 /\ intent[i] = [status |-> "cancelled", receipt |-> "none"]
    BY Zenon DEF IntentRunsOnce
  <2> QED BY <2>1
<1>3. filed[i] = "no"
  BY <1>1, <1>2 DEF Settled
<1> QED BY <1>3 DEF IntentRunsOnce

\* A call that ends without touching a row (evidence written, a lost UPDATE, a
\* database call that throws, a crash) only leaves the others alone.
LEMMA Returning ==
  ASSUME IInv, NEW c \in Calls, Return(c), UNCHANGED <<intent, due, ran, outcome, withdrawn, before, filed>>
  PROVE  IInv'
<1> USE DEF IInv
<1>1. TypeOK'
  BY DEF TypeOK, Return, Idle
<1>2. \A d \in Calls : call'[d] = IF d = c THEN Idle ELSE call[d]
  BY DEF TypeOK, Return
<1>3. /\ \A d \in Calls : ~At(d, "idle")' => d # c
      /\ \A d \in Calls : Working(d)' => d # c
      /\ \A d \in Calls : At(d, "saving")' => d # c
      /\ \A d \in Calls : At(d, "running")' => d # c
      /\ \A d \in Calls : At(d, "finishing")' => d # c
  BY <1>2 DEF At, Working, Idle
<1>4. OneWorker'
  BY <1>2, <1>3 DEF OneWorker, Working, Settled
<1>5. Progress'
  BY <1>2, <1>3 DEF Progress, At, Settled
<1>6. IntentRunsOnce'
  BY DEF IntentRunsOnce
<1>7. NeverClaimed'
  BY <1>2, <1>3 DEF NeverClaimed, Working, Settled
<1>8. Saving' /\ OneProposer'
  BY <1>2, <1>3 DEF Saving, OneProposer, At
<1>9. TwinsDecided'
  BY <1>2, <1>3 DEF TwinsDecided, Decided, At, Settled
<1> QED BY <1>1, <1>4, <1>5, <1>6, <1>7, <1>8, <1>9

\* A call that has read a proposed intent (cancel, expireIntent, execute), or
\* proceeds to the retraction of its own, holds an id whose row is saved.
LEMMA Reading ==
  ASSUME IInv, NEW c \in Calls, NEW i \in Intents, NEW pc \in {"retracting", "cancelling", "expiring", "claiming"},
         Goto(c, pc, i), \A d \in Calls : At(d, "saving") => call[d].id # i,
         UNCHANGED <<intent, due, ran, outcome, withdrawn, before, filed>>
  PROVE  IInv'
<1> USE DEF IInv
<1>1. TypeOK'
  BY DEF TypeOK, Goto, Busy, Pcs, Outcomes
<1>2. \A d \in Calls : call'[d] = IF d = c THEN [pc |-> pc, id |-> i, outcome |-> "none"] ELSE call[d]
  BY DEF TypeOK, Goto
<1>3. /\ \A d \in Calls : Working(d)' => d # c
      /\ \A d \in Calls : At(d, "saving")' => d # c
      /\ \A d \in Calls : At(d, "running")' => d # c
      /\ \A d \in Calls : At(d, "finishing")' => d # c
  BY <1>2 DEF At, Working
<1>4. OneWorker'
  BY <1>2, <1>3 DEF OneWorker, Working, Settled
<1>5. Progress'
  BY <1>2, <1>3 DEF Progress, At, Settled
<1>6. IntentRunsOnce'
  BY DEF IntentRunsOnce
<1>7. NeverClaimed'
  BY <1>2, <1>3 DEF NeverClaimed, Working, Settled
<1>8. Saving' /\ OneProposer'
  BY <1>2, <1>3 DEF Saving, OneProposer, At
<1>9. TwinsDecided'
  BY <1>2, <1>3 DEF TwinsDecided, Decided, At, Settled
<1> QED BY <1>1, <1>4, <1>5, <1>6, <1>7, <1>8, <1>9

\* propose gives an unused id to a call that has seen no proposed twin.
LEMMA ProposeInv ==
  ASSUME IInv, NEW c \in Calls, NEW i \in Intents, Propose(c, i)
  PROVE  IInv'
<1> USE DEF IInv
<1>1. TypeOK'
  BY DEF TypeOK, Propose, Goto, Busy, Pcs, Outcomes, Saved
<1>2. /\ intent[i].status = "absent"
      /\ \A d \in Calls : ~At(d, "idle") => call[d].id # i
  BY DEF Propose, InUse, Saved
<1>3. \A d \in Calls : call'[d] = IF d = c THEN [pc |-> "saving", id |-> i, outcome |-> "none"] ELSE call[d]
  BY DEF TypeOK, Propose, Goto
<1>4. UNCHANGED <<intent, due, ran, outcome, withdrawn, filed>>
  BY DEF Propose
<1>5. /\ \A d \in Calls : Working(d)' => d # c
      /\ \A d \in Calls : At(d, "running")' => d # c
      /\ \A d \in Calls : At(d, "finishing")' => d # c
  BY <1>3 DEF At, Working
<1>6. OneWorker'
  BY <1>3, <1>4, <1>5 DEF OneWorker, Working, Settled
<1>7. Progress'
  BY <1>3, <1>4, <1>5 DEF Progress, At, Settled
<1>8. IntentRunsOnce'
  BY <1>4 DEF IntentRunsOnce
<1>9. NeverClaimed'
  BY <1>3, <1>4, <1>5 DEF NeverClaimed, Working, Settled
<1>10. Saving' /\ OneProposer'
  BY <1>2, <1>3, <1>4 DEF Saving, OneProposer, At
<1>11. TwinsDecided'
  <2>1. /\ before'[i] = Saved
        /\ \A j \in Intents \ {i} : before'[j] = before[j]
    BY DEF Propose, TypeOK
  <2>2. \A j \in Saved : Settled(j)
    BY DEF Propose, Saved, Settled
  <2>3. \A j \in Intents \ {i} : Decided(j) => Decided(j)'
    BY <1>4, <2>1 DEF Decided, Settled
  <2>4. Decided(i)'
    BY <1>4, <2>1, <2>2 DEF Decided, Settled
  <2>5. \A d \in Calls : At(d, "saving")' => d = c \/ (At(d, "saving") /\ call'[d].id = call[d].id /\ call[d].id # i)
    BY <1>2, <1>3 DEF At
  <2>6. \A d \in Calls : At(d, "saving") => call[d].id \in Intents
    BY BusyCalls DEF At
  <2> QED BY <1>2, <1>3, <1>4, <2>3, <2>4, <2>5, <2>6 DEF TwinsDecided
<1> QED BY <1>1, <1>6, <1>7, <1>8, <1>9, <1>10, <1>11

\* propose's insert makes an absent row proposed, and nobody counted on it.
LEMMA ProposeSaveInv ==
  ASSUME IInv, NEW c \in Calls, ProposeSave(c)
  PROVE  IInv'
<1> DEFINE i == call[c].id
<1> USE DEF IInv
<1>1. i \in Intents /\ intent[i].status = "absent"
  BY BusyCalls DEF ProposeSave, Saving, At
<1> HIDE DEF i
<1>2. /\ intent' = [intent EXCEPT ![i].status = "proposed"]
      /\ Goto(c, "evidencing", i)
      /\ UNCHANGED <<due, ran, outcome, withdrawn, before, filed>>
      /\ At(c, "saving") /\ call[c].id = i
  BY DEF ProposeSave, i
<1>3. TypeOK'
  BY <1>1, <1>2 DEF TypeOK, Goto, Busy, Pcs, Outcomes, Statuses
<1>4. \A d \in Calls : call'[d] = IF d = c THEN [pc |-> "evidencing", id |-> i, outcome |-> "none"] ELSE call[d]
  BY <1>2 DEF TypeOK, Goto
<1>5. /\ intent'[i].status = "proposed" /\ intent'[i].receipt = intent[i].receipt
      /\ \A j \in Intents \ {i} : intent'[j] = intent[j]
  BY <1>1, <1>2 DEF TypeOK
<1>6. \A j \in Intents : Settled(j)' <=> Settled(j)
  BY <1>1, <1>5 DEF Settled
<1>7. \A d \in Calls : ~At(d, "idle") => call[d].id \in Intents
  BY BusyCalls
<1>8. OneWorker'
  BY <1>4, <1>6, <1>7 DEF OneWorker, Working, At
<1>9. Progress'
  BY <1>2, <1>4, <1>6 DEF Progress, At
<1>10. IntentRunsOnce'
  <2>1. filed[i] = "no" /\ intent[i].receipt = "none"
    BY <1>1, NothingFiled DEF Settled
  <2> QED BY <1>1, <1>2, <1>5, <2>1 DEF IntentRunsOnce
<1>11. NeverClaimed'
  BY <1>2, <1>4, <1>6 DEF NeverClaimed, Working, TypeOK
<1>12. Saving' /\ OneProposer'
  BY <1>2, <1>4, <1>5, <1>7 DEF Saving, OneProposer, At
<1>13. TwinsDecided'
  <2>1. \A j \in Intents : Decided(j) => Decided(j)'
    BY <1>2, <1>6 DEF Decided, TypeOK
  <2> QED BY <1>2, <1>4, <1>5, <1>7, <2>1 DEF TwinsDecided, At
<1> QED BY <1>3, <1>8, <1>9, <1>10, <1>11, <1>12, <1>13

\* A retraction makes its row cancelled, whatever it was, and erases a receipt.
LEMMA RetractInv ==
  ASSUME IInv, NEW c \in Calls, Retract(c)
  PROVE  IInv'
<1> DEFINE i == call[c].id
<1> USE DEF IInv
<1>1. i \in Intents
  BY BusyCalls DEF Retract, At
<1> HIDE DEF i
<1>2. /\ intent' = [intent EXCEPT ![i] = [status |-> "cancelled", receipt |-> "none"]]
      /\ filed' = [filed EXCEPT ![i] = IF @ = "stored" THEN "erased" ELSE @]
      /\ Return(c)
      /\ UNCHANGED <<due, ran, outcome, withdrawn, before>>
      /\ At(c, "retracting") /\ call[c].id = i
  BY DEF Retract, i
<1>3. TypeOK'
  BY <1>1, <1>2 DEF TypeOK, Return, Statuses, Outcomes
<1>4. \A d \in Calls : call'[d] = IF d = c THEN Idle ELSE call[d]
  BY <1>2 DEF TypeOK, Return
<1>5. /\ intent'[i] = [status |-> "cancelled", receipt |-> "none"]
      /\ \A j \in Intents \ {i} : intent'[j] = intent[j]
  BY <1>1, <1>2 DEF TypeOK
<1>6. /\ \A j \in Intents : Settled(j) => Settled(j)'
      /\ \A j \in Intents : ~Settled(j)' => ~Settled(j) /\ intent'[j] = intent[j]
  BY <1>5 DEF Settled
<1>7. \A d \in Calls : ~At(d, "idle") => call[d].id \in Intents
  BY BusyCalls
<1>8. OneWorker'
  BY <1>4, <1>6, <1>7 DEF OneWorker, Working, At, Idle
<1>9. Progress'
  BY <1>2, <1>4, <1>6 DEF Progress, At, Idle
<1>10. IntentRunsOnce'
  <2>1. /\ filed'[i] = IF filed[i] = "stored" THEN "erased" ELSE filed[i]
        /\ \A j \in Intents \ {i} : filed'[j] = filed[j]
    BY <1>1, <1>2 DEF TypeOK
  <2> QED BY <1>1, <1>2, <1>5, <2>1 DEF IntentRunsOnce
<1>11. NeverClaimed'
  BY <1>2, <1>4, <1>6 DEF NeverClaimed, Working, TypeOK, Idle
<1>12. \A d \in Calls : At(d, "saving")' => At(d, "saving") /\ d # c /\ call'[d] = call[d] /\ call[d].id # i
  BY <1>2, <1>4 DEF OneProposer, At, Idle
<1>13. Saving' /\ OneProposer'
  BY <1>4, <1>5, <1>7, <1>12 DEF Saving, OneProposer, At, Idle
<1>14. TwinsDecided'
  <2>1. \A j \in Intents : Decided(j) => Decided(j)'
    BY <1>2, <1>6 DEF Decided, TypeOK
  <2> QED BY <1>5, <1>7, <1>12, <2>1 DEF TwinsDecided, At
<1> QED BY <1>3, <1>8, <1>9, <1>10, <1>11, <1>13, <1>14

\* Withdrawing intents that are all still proposed (one of them by cancel,
\* expireIntent or markExpired, all that are due by expireDueIntents).
LEMMA WithdrawProposed ==
  ASSUME IInv, NEW ids \in SUBSET Intents, \A i \in ids : intent[i].status = "proposed",
         intent' \in [Intents -> [status : Statuses, receipt : Outcomes]],
         \A i \in ids : intent'[i].status \in {"cancelled", "expired"} /\ intent'[i].receipt = intent[i].receipt,
         \A i \in Intents \ ids : intent'[i] = intent[i],
         withdrawn' = withdrawn \union ids,
         NEW C \in SUBSET Calls, \A c \in C : ~At(c, "idle"),
         call' = [c \in Calls |-> IF c \in C THEN Idle ELSE call[c]],
         UNCHANGED <<due, ran, outcome, before, filed>>
  PROVE  IInv'
<1> USE DEF IInv
<1>1. TypeOK'
  BY DEF TypeOK
<1>2. /\ \A j \in Intents : Settled(j)' <=> Settled(j) \/ j \in ids
      /\ \A j \in ids : ~Settled(j)
      /\ \A j \in Intents : ~Settled(j)' => intent'[j] = intent[j]
  BY DEF Settled
<1>3. /\ \A d \in Calls : ~At(d, "idle")' => ~At(d, "idle") /\ call'[d] = call[d]
      /\ \A d \in Calls : ~At(d, "idle") => call[d].id \in Intents
  BY BusyCalls DEF At, Idle
<1>4. \A d \in Calls : Working(d)' => Working(d) /\ call'[d] = call[d] /\ call[d].id \in Intents \ ids
  BY <1>2, <1>3 DEF Working, At, OneWorker
<1>5. OneWorker'
  BY <1>2, <1>4 DEF OneWorker
<1>6. Progress'
  <2>1. \A d \in Calls : At(d, "running")' => At(d, "running") /\ call'[d] = call[d]
    BY <1>3 DEF At
  <2>2. \A d \in Calls : At(d, "finishing")' => At(d, "finishing") /\ call'[d] = call[d]
    BY <1>3 DEF At
  <2> QED BY <1>2, <2>1, <2>2 DEF Progress
<1>7. IntentRunsOnce'
  <2>1. \A j \in ids : filed[j] = "no" /\ intent[j].receipt = "none"
    BY <1>2, NothingFiled
  <2>2. \A j \in ids : filed'[j] = "no" /\ intent'[j].receipt = "none" /\ intent'[j].status \notin {"completed", "failed"}
    BY <2>1
  <2> QED BY <2>2 DEF IntentRunsOnce
<1>8. NeverClaimed'
  BY <1>2, <1>4 DEF NeverClaimed, Progress, TypeOK
<1>9. \A d \in Calls : At(d, "saving")' => At(d, "saving") /\ call'[d] = call[d] /\ call[d].id \in Intents \ ids
  BY <1>3 DEF At, Saving
<1>10. Saving' /\ OneProposer'
  BY <1>3, <1>9 DEF Saving, OneProposer
<1>11. TwinsDecided'
  <2>1. \A j \in Intents : Decided(j) => Decided(j)'
    BY <1>2 DEF Decided, TypeOK
  <2>2. \A j \in Intents : intent'[j].status = "proposed" => intent[j].status = "proposed"
    OBVIOUS
  <2> QED BY <1>9, <2>1, <2>2 DEF TwinsDecided
<1> QED BY <1>1, <1>5, <1>6, <1>7, <1>8, <1>10, <1>11

LEMMA WithdrawInv ==
  ASSUME IInv, NEW c \in Calls, Withdraw(c)
  PROVE  IInv'
<1> DEFINE i == call[c].id
<1>1. i \in Intents /\ ~At(c, "idle") /\ intent[i].status = "proposed"
  BY BusyCalls DEF Withdraw, Withdrawing, At, IInv
<1>2. /\ intent' \in [Intents -> [status : Statuses, receipt : Outcomes]]
      /\ intent'[i].status \in {"cancelled", "expired"} /\ intent'[i].receipt = intent[i].receipt
      /\ \A j \in Intents \ {i} : intent'[j] = intent[j]
  BY <1>1 DEF Withdraw, IInv, TypeOK, Statuses
<1>3. /\ withdrawn' = withdrawn \union {i}
      /\ call' = [d \in Calls |-> IF d \in {c} THEN Idle ELSE call[d]]
      /\ UNCHANGED <<due, ran, outcome, before, filed>>
  BY DEF Withdraw, Return, IInv, TypeOK
<1> HIDE DEF i
<1> DEFINE ids == {i}
           C == {c}
<1>4. /\ ids \in SUBSET Intents /\ \A j \in ids : intent[j].status = "proposed"
      /\ \A j \in ids : intent'[j].status \in {"cancelled", "expired"} /\ intent'[j].receipt = intent[j].receipt
      /\ C \in SUBSET Calls /\ \A d \in C : ~At(d, "idle")
  BY <1>1, <1>2
<1> QED BY ONLY IInv, <1>2, <1>3, <1>4, WithdrawProposed

LEMMA ExpireDueInv ==
  ASSUME IInv, ExpireDueIntents
  PROVE  IInv'
<1> DEFINE ids == {i \in due : intent[i].status = "proposed"}
           C == {d \in Calls : FALSE}
<1>1. /\ ids \in SUBSET Intents /\ \A i \in ids : intent[i].status = "proposed"
      /\ C \in SUBSET Calls /\ \A d \in C : ~At(d, "idle")
  BY DEF IInv, TypeOK
<1>2. /\ intent' = [i \in Intents |-> IF i \in ids THEN [intent[i] EXCEPT !.status = "expired"] ELSE intent[i]]
      /\ withdrawn' = withdrawn \union ids
      /\ UNCHANGED <<due, call, ran, outcome, before, filed>>
  BY DEF ExpireDueIntents
<1> HIDE DEF ids
<1>3. /\ intent' \in [Intents -> [status : Statuses, receipt : Outcomes]]
      /\ \A i \in ids : intent'[i].status \in {"cancelled", "expired"} /\ intent'[i].receipt = intent[i].receipt
      /\ \A i \in Intents \ ids : intent'[i] = intent[i]
  BY <1>1, <1>2 DEF IInv, TypeOK, Statuses
<1>4. call' = [d \in Calls |-> IF d \in C THEN Idle ELSE call[d]]
  BY <1>2 DEF IInv, TypeOK
<1> HIDE DEF C
<1> QED BY ONLY IInv, <1>1, <1>2, <1>3, <1>4, WithdrawProposed

\* The claim takes a proposed intent, which has no worker, was not withdrawn
\* and has not run.
LEMMA ClaimInv ==
  ASSUME IInv, NEW c \in Calls, Claim(c)
  PROVE  IInv'
<1> DEFINE i == call[c].id
<1> USE DEF IInv
<1>1. i \in Intents /\ intent[i].status = "proposed"
  BY BusyCalls DEF Claim, At
<1> HIDE DEF i
<1>2. /\ intent' = [intent EXCEPT ![i].status = "executing"]
      /\ Goto(c, "running", i)
      /\ UNCHANGED <<due, ran, outcome, withdrawn, before, filed>>
      /\ At(c, "claiming") /\ call[c].id = i
  BY DEF Claim, i
<1>3. TypeOK'
  BY <1>1, <1>2 DEF TypeOK, Goto, Busy, Pcs, Outcomes, Statuses
<1>4. \A d \in Calls : call'[d] = IF d = c THEN [pc |-> "running", id |-> i, outcome |-> "none"] ELSE call[d]
  BY <1>2 DEF TypeOK, Goto
<1>5. /\ intent'[i].status = "executing" /\ intent'[i].receipt = intent[i].receipt
      /\ \A j \in Intents \ {i} : intent'[j] = intent[j]
  BY <1>1, <1>2 DEF TypeOK
<1>6. ~Settled(i) /\ \A j \in Intents : Settled(j)' <=> Settled(j) \/ j = i
  BY <1>1, <1>5 DEF Settled
<1>7. \A d \in Calls : ~At(d, "idle") => call[d].id \in Intents
  BY BusyCalls
<1>8. \A d \in Calls : Working(d) => call[d].id # i /\ call[d].id \in Intents
  BY <1>6, <1>7 DEF OneWorker, Working, At
<1>9. OneWorker'
  BY <1>1, <1>4, <1>6, <1>8 DEF OneWorker, Working
<1>10. ran[i] = 0
  BY <1>1, <1>6 DEF Progress
<1>11. Progress'
  BY <1>2, <1>4, <1>6, <1>10 DEF Progress, At
<1>12. IntentRunsOnce'
  <2>1. filed[i] = "no" /\ intent[i].receipt = "none"
    BY <1>1, <1>6, NothingFiled
  <2> QED BY <1>1, <1>2, <1>5, <2>1 DEF IntentRunsOnce
<1>13. NeverClaimed'
  BY <1>2, <1>4, <1>6 DEF NeverClaimed, Working, TypeOK
<1>14. \A d \in Calls : At(d, "saving")' => At(d, "saving") /\ d # c /\ call'[d] = call[d] /\ call[d].id # i
  BY <1>1, <1>4 DEF Saving, At
<1>15. Saving' /\ OneProposer'
  BY <1>4, <1>5, <1>7, <1>14 DEF Saving, OneProposer, At
<1>16. TwinsDecided'
  <2>1. \A j \in Intents : Decided(j) => Decided(j)'
    BY <1>2, <1>6 DEF Decided, TypeOK
  <2> QED BY <1>5, <1>7, <1>14, <2>1 DEF TwinsDecided, At
<1> QED BY <1>3, <1>9, <1>11, <1>12, <1>13, <1>15, <1>16

\* The one worker of an intent runs its operation, for the first time.
LEMMA RunInv ==
  ASSUME IInv, NEW c \in Calls, RunOperation(c)
  PROVE  IInv'
<1> DEFINE i == call[c].id
<1> USE DEF IInv
<1>1. i \in Intents /\ call[c] \in Busy /\ ran[i] = 0
  BY BusyCalls DEF RunOperation, At, Progress
<1> HIDE DEF i
<1>2. PICK o \in {"completed", "failed"} :
        /\ At(c, "running") /\ call[c].id = i
        /\ ran' = [ran EXCEPT ![i] = @ + 1]
        /\ outcome' = [outcome EXCEPT ![i] = o]
        /\ call' = [call EXCEPT ![c].pc = "finishing", ![c].outcome = o]
        /\ UNCHANGED <<intent, due, withdrawn, before, filed>>
  BY DEF RunOperation, i
<1>3. /\ call'[c] \in Busy /\ call'[c].pc = "finishing" /\ call'[c].id = i /\ call'[c].outcome = o
      /\ \A d \in Calls \ {c} : call'[d] = call[d]
      /\ call' \in [Calls -> {Idle} \union Busy]
  BY <1>1, <1>2 DEF TypeOK, Busy, Pcs, Outcomes
<1>4. /\ ran'[i] = 1 /\ outcome'[i] = o
      /\ \A j \in Intents \ {i} : ran'[j] = ran[j] /\ outcome'[j] = outcome[j]
      /\ ran' \in [Intents -> Nat] /\ outcome' \in [Intents -> Outcomes]
  BY <1>1, <1>2 DEF TypeOK, Outcomes
<1>5. TypeOK'
  BY <1>2, <1>3, <1>4 DEF TypeOK
<1>6. \A j \in Intents : Settled(j)' <=> Settled(j)
  BY <1>2 DEF Settled
<1>7. /\ Settled(i)
      /\ \A d \in Calls \ {c} : Working(d) => call[d].id # i /\ call[d].id \in Intents
  BY <1>2, BusyCalls DEF OneWorker, Working, At
<1>8. \A d \in Calls : ~At(d, "idle") => call[d].id \in Intents
  BY BusyCalls
<1>9. OneWorker'
  BY <1>1, <1>3, <1>6, <1>7 DEF OneWorker, Working
<1>10. Progress'
  <2>1. \A j \in Intents : ~Settled(j)' => ran'[j] = 0
    BY <1>4, <1>6, <1>7 DEF Progress
  <2>2. \A d \in Calls \ {c} : At(d, "running") \/ At(d, "finishing") => call[d].id \in Intents \ {i}
    BY <1>7 DEF Working, At
  <2> QED BY <1>3, <1>4, <2>1, <2>2 DEF Progress, At
<1>11. IntentRunsOnce'
  <2>1. /\ filed[i] = "no" /\ intent[i].receipt = "none" /\ intent[i].status \notin {"completed", "failed"}
        /\ filed' = filed /\ intent' = intent
    BY <1>1, <1>2, NothingFiled
  <2>2. \A j \in Intents \ {i} : ran'[j] = ran[j] /\ outcome'[j] = outcome[j]
    BY <1>4
  <2> QED BY <1>4, <2>1, <2>2 DEF IntentRunsOnce
<1>12. NeverClaimed'
  <2>1. i \notin withdrawn
    BY <1>2 DEF NeverClaimed, Working, At
  <2> QED BY <1>2, <1>3, <1>4, <1>6, <2>1 DEF NeverClaimed, Working, TypeOK
<1>13. Saving' /\ OneProposer'
  <2>1. \A d \in Calls : At(d, "saving")' => At(d, "saving") /\ d # c /\ call'[d] = call[d]
    BY <1>3 DEF At
  <2>2. \A d \in Calls : ~At(d, "idle")' => ~At(d, "idle") /\ call'[d].id = call[d].id
    BY <1>2, <1>3 DEF At
  <2> QED BY <1>2, <2>1, <2>2 DEF Saving, OneProposer
<1>14. TwinsDecided'
  BY <1>2, <1>3 DEF TwinsDecided, Decided, Settled, At
<1> QED BY <1>5, <1>9, <1>10, <1>11, <1>12, <1>13, <1>14

\* finish stores the outcome that the worker's own run had.
LEMMA FinishInv ==
  ASSUME IInv, NEW c \in Calls, Finish(c)
  PROVE  IInv'
<1> DEFINE i == call[c].id
           o == call[c].outcome
<1> USE DEF IInv
<1>1. /\ i \in Intents /\ Settled(i) /\ ran[i] = 1
      /\ o = outcome[i] /\ o \in {"completed", "failed"}
  BY BusyCalls DEF Finish, At, Progress, OneWorker, Working
<1> HIDE DEF i, o
<1>2. /\ intent' = [intent EXCEPT ![i] = [status |-> o, receipt |-> o]]
      /\ filed' = [filed EXCEPT ![i] = "stored"]
      /\ Return(c)
      /\ UNCHANGED <<due, ran, outcome, withdrawn, before>>
      /\ At(c, "finishing") /\ call[c].id = i
  BY DEF Finish, i, o
<1>3. TypeOK'
  BY <1>1, <1>2 DEF TypeOK, Return, Statuses, Outcomes
<1>4. \A d \in Calls : call'[d] = IF d = c THEN Idle ELSE call[d]
  BY <1>2 DEF TypeOK, Return
<1>5. /\ intent'[i] = [status |-> o, receipt |-> o]
      /\ \A j \in Intents \ {i} : intent'[j] = intent[j]
  BY <1>1, <1>2 DEF TypeOK
<1>6. \A j \in Intents : Settled(j)' <=> Settled(j)
  BY <1>1, <1>5 DEF Settled
<1>7. \A d \in Calls : ~At(d, "idle") => call[d].id \in Intents
  BY BusyCalls
<1>8. OneWorker'
  BY <1>4, <1>6, <1>7 DEF OneWorker, Working, At, Idle
<1>9. Progress'
  BY <1>2, <1>4, <1>6 DEF Progress, At, Idle
<1>10. IntentRunsOnce'
  <2>1. filed'[i] = "stored" /\ \A j \in Intents \ {i} : filed'[j] = filed[j]
    BY <1>1, <1>2 DEF TypeOK
  <2> QED BY <1>1, <1>2, <1>5, <2>1 DEF IntentRunsOnce
<1>11. NeverClaimed'
  BY <1>2, <1>4, <1>6 DEF NeverClaimed, Working, TypeOK, Idle
<1>12. \A d \in Calls : At(d, "saving")' => At(d, "saving") /\ d # c /\ call'[d] = call[d] /\ call[d].id # i
  BY <1>2, <1>4 DEF OneProposer, At, Idle
<1>13. Saving' /\ OneProposer'
  BY <1>4, <1>5, <1>7, <1>12 DEF Saving, OneProposer, At, Idle
<1>14. TwinsDecided'
  <2>1. \A j \in Intents : Decided(j) => Decided(j)'
    BY <1>2, <1>6 DEF Decided, TypeOK
  <2> QED BY <1>1, <1>5, <1>7, <1>12, <2>1 DEF TwinsDecided, At
<1> QED BY <1>3, <1>8, <1>9, <1>10, <1>11, <1>13, <1>14

\* Only the clock.
LEMMA ExpiryInv ==
  ASSUME IInv, NEW i \in Intents, ExpiryPasses(i)
  PROVE  IInv'
  BY DEF ExpiryPasses, IInv, TypeOK, OneWorker, Progress, IntentRunsOnce, NeverClaimed, Saving, OneProposer,
         TwinsDecided, Decided, Settled, Working, At, Saved

-----------------------------------------------------------------------------
\* Every step of a call keeps the invariant.
LEMMA CallInv ==
  ASSUME IInv, NEW c \in Calls, Continue(c) \/ \E i \in Intents : OnIntent(c, i)
  PROVE  IInv'
<1>1. ASSUME NEW i \in Intents, intent[i].status = "proposed"
      PROVE  \A d \in Calls : At(d, "saving") => call[d].id # i
  BY <1>1 DEF IInv, Saving
<1>2. ASSUME NEW i \in Intents, NEW pc \in {"cancelling", "expiring"}, ReadToWithdraw(c, i, pc)
      PROVE  IInv'
  BY <1>1, <1>2, Reading DEF ReadToWithdraw
<1>3. ASSUME NEW i \in Intents, OnIntent(c, i)
      PROVE  IInv'
  <2>1. CASE Propose(c, i)
    BY <2>1, ProposeInv
  <2>2. CASE CancelRead(c, i) \/ ExpireRead(c, i) \/ ExecuteFindsExpired(c, i)
    BY <1>2, <2>2 DEF CancelRead, ExpireRead, ExecuteFindsExpired
  <2>3. CASE ExecuteRead(c, i)
    BY <1>1, <2>3, Reading DEF ExecuteRead
  <2> QED BY <1>3, <2>1, <2>2, <2>3 DEF OnIntent
<1>4. CASE ProposeSave(c)
  BY <1>4, ProposeSaveInv
<1>5. CASE EvidenceFails(c)
  <2> DEFINE i == call[c].id
  <2>1. i \in Intents /\ \A d \in Calls : At(d, "saving") => call[d].id # i
    BY <1>5, BusyCalls DEF EvidenceFails, IInv, OneProposer, At
  <2>2. Goto(c, "retracting", i) /\ UNCHANGED <<intent, due, ran, outcome, withdrawn, before, filed>>
    BY <1>5 DEF EvidenceFails
  <2> HIDE DEF i
  <2> QED BY <2>1, <2>2, Reading
<1>6. CASE Retract(c)
  BY <1>6, RetractInv
<1>7. CASE Withdraw(c)
  BY <1>7, WithdrawInv
<1>8. CASE Claim(c)
  BY <1>8, ClaimInv
<1>9. CASE RunOperation(c)
  BY <1>9, RunInv
<1>10. CASE Finish(c)
  BY <1>10, FinishInv
<1>11. CASE ProposeEvidenced(c) \/ WithdrawLost(c) \/ ClaimLost(c) \/ SaveFails(c) \/ Crash(c)
  BY <1>11, Returning DEF ProposeEvidenced, WithdrawLost, ClaimLost, SaveFails, Crash
<1> QED BY <1>3, <1>4, <1>5, <1>6, <1>7, <1>8, <1>9, <1>10, <1>11 DEF Continue

\* IInv is inductive.
LEMMA NextInv == IInv /\ [Next]_vars => IInv'
<1> SUFFICES ASSUME IInv, [Next]_vars PROVE IInv'
  OBVIOUS
<1>1. CASE ExpireDueIntents
  BY <1>1, ExpireDueInv
<1>2. CASE \E i \in Intents : ExpiryPasses(i)
  BY <1>2, ExpiryInv
<1>3. CASE \E c \in Calls : Continue(c) \/ \E i \in Intents : OnIntent(c, i)
  BY <1>3, CallInv
<1>4. CASE UNCHANGED vars
  BY <1>4 DEF vars, IInv, TypeOK, OneWorker, Progress, IntentRunsOnce, NeverClaimed, Saving, OneProposer,
              TwinsDecided, Decided, Settled, Working, At
<1> QED BY <1>1, <1>2, <1>3, <1>4 DEF Next

LEMMA AlwaysIInv == Spec => []IInv
  BY InitInv, NextInv, PTL DEF Spec

-----------------------------------------------------------------------------
\* Rows, calls and histories keep their types under every interleaving.
THEOREM TypeCorrect == Spec => []TypeOK
<1>1. IInv => TypeOK
  BY DEF IInv
<1> QED BY <1>1, AlwaysIInv, PTL

\* execute: an intent's operation runs at most once, and what finish stored of it
\* stays but for a retraction of the proposal, for any number of calls and intents
\* and through every fault.
THEOREM IntentsRunOnce == Spec => []IntentRunsOnce
<1>1. IInv => IntentRunsOnce
  BY DEF IInv
<1> QED BY <1>1, AlwaysIInv, PTL

\* cancel, expireIntent, markExpired, expireDueIntents: what was withdrawn never runs.
THEOREM WithdrawalsHold == Spec => []WithdrawnNeverRuns
<1>1. IInv => WithdrawnNeverRuns
  BY DEF IInv, NeverClaimed, WithdrawnNeverRuns
<1> QED BY <1>1, AlwaysIInv, PTL

\* propose: identical proposed intents come from proposals that overlapped.
THEOREM TwinsOverlapped == Spec => []TwinsAreConcurrent
<1>1. IInv => TwinsAreConcurrent
  BY DEF IInv, TwinsDecided, Decided, Settled, TwinsAreConcurrent
<1> QED BY <1>1, AlwaysIInv, PTL
=============================================================================
