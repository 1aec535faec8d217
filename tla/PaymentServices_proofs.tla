------------------------ MODULE PaymentServices_proofs ------------------------
(***************************************************************************)
(* Proofs about the services that move money.  The inductive invariants    *)
(* are in the services' modules.                                           *)
(***************************************************************************)
EXTENDS Services, TLAPS

-----------------------------------------------------------------------------
(* Reconciliation *)

LEMMA PayingFacts ==
  /\ Listed \in Nat /\ Transactions \in Nat
  /\ \A r \in RE!Paying : r \in 1..Listed /\ Hash[r] \in RE!Txs
  BY ServicesAssumption DEF RE!Paying, RE!Txs

LEMMA ReconciliationInit == RE!Init => RE!IInv
  BY PayingFacts
  DEF RE!Init, RE!IInv, RE!Shape, RE!RowsAreStored, RE!PagesFollow, RE!OneIngestion, RE!DuplicatesCreditOnce,
      RE!Idle, RE!At, RE!InLoop, RE!PastInsert, RE!Stored, RE!Statuses

\* A call moves on, and with it perhaps the cursor; rows may change but stay.
\* Enough is that the call's new place fits: what it is about to ingest, if
\* anything, and that nothing is left behind it or behind the cursor.
LEMMA MovesInv ==
  ASSUME RE!IInv, NEW c \in Calls, NEW new, v5' = [v5 EXCEPT ![c] = new],
         v3' \in [RE!Txs -> RE!Statuses], \A t \in RE!Txs : v3'[t] = "absent" <=> v3[t] = "absent",
         UNCHANGED <<v7, v8>>,
         v4' \in 0..Listed, \A r \in RE!Paying : r <= v4' => RE!Stored(Hash[r]),
         "pc" \in DOMAIN new, new.pc \in {"idle", "registering", "listing", "finding", "fetching", "matching"},
         new.pc = "matching" =>
           /\ "job" \in DOMAIN new /\ new.job.kind = "retry"
           /\ new.job.todo \subseteq RE!Txs /\ new.job.of \in RE!Txs
           /\ \A t \in new.job.todo \union {new.job.of} : RE!Stored(t),
         new.pc = "finding" =>
           /\ "job" \in DOMAIN new /\ new.job.kind \in {"ingest", "poll"}
           /\ new.job.at \in RE!Paying /\ new.job.upTo \in 1..Listed /\ new.job.at <= new.job.upTo
           /\ new.job.kind = "poll" => \A r \in RE!Paying : r < new.job.at => RE!Stored(Hash[r]),
         new.pc = "fetching" =>
           new.from \in 1..Listed /\ \A r \in RE!Paying : r < new.from => RE!Stored(Hash[r])
  PROVE  RE!IInv'
<1> USE DEF RE!IInv, RE!At, RE!Tx, RE!Kind, RE!Ingests, RE!InLoop, RE!PastInsert, RE!Stored
<1>0. /\ v5'[c] = new /\ \A d \in Calls : d # c => v5'[d] = v5[d]
      /\ v5' = [d \in Calls |-> v5'[d]]
  BY DEF RE!Shape
<1>1. RE!Shape'
  BY <1>0 DEF RE!Shape
<1>2. RE!RowsAreStored'
  BY PayingFacts DEF RE!RowsAreStored
<1>3. RE!PagesFollow'
  BY <1>0, PayingFacts DEF RE!PagesFollow
<1>4. RE!OneIngestion'
  <2>1. \A d \in Calls : RE!PastInsert(d)' /\ RE!Ingests(d)' => d # c /\ v5'[d] = v5[d] /\ Hash[v5[d].job.at] \in RE!Txs
    BY <1>0, PayingFacts DEF RE!Shape
  <2> QED BY <2>1 DEF RE!OneIngestion
<1> QED BY <1>1, <1>2, <1>3, <1>4 DEF RE!DuplicatesCreditOnce

\* Webhooks and queues hand over one payment.
LEMMA IngestInv ==
  ASSUME RE!IInv, NEW c \in Calls, NEW r \in RE!Paying, RE!Ingest(c, r)
  PROVE  RE!IInv'
<1> DEFINE new == [pc |-> "finding", job |-> [kind |-> "ingest", at |-> r, upTo |-> r]]
<1>1. v5' = [v5 EXCEPT ![c] = new]
  BY DEF RE!Ingest, RE!Lookup
<1>2. UNCHANGED <<v3, v4, v7, v8>>
  BY DEF RE!Ingest
<1>3. v3 \in [RE!Txs -> RE!Statuses] /\ v4 \in 0..Listed /\ \A q \in RE!Paying : q <= v4 => RE!Stored(Hash[q])
  BY DEF RE!IInv, RE!Shape, RE!PagesFollow
<1>4. r \in 1..Listed /\ r <= r
  BY PayingFacts
<1>5. /\ DOMAIN new = {"pc", "job"} /\ new.pc = "finding"
      /\ new.job.kind = "ingest" /\ new.job.at = r /\ new.job.upTo = r
  OBVIOUS
<1> HIDE DEF new
<1> QED BY <1>1, <1>2, <1>3, <1>4, <1>5, MovesInv

\* A poll asks for what is behind the cursor.
LEMMA PollInv ==
  ASSUME RE!IInv, NEW c \in Calls, RE!PollHorizon(c)
  PROVE  RE!IInv'
<1> DEFINE new == [pc |-> "fetching", from |-> v4 + 1]
<1>1. v5' = [v5 EXCEPT ![c] = new] /\ UNCHANGED <<v3, v4, v7, v8>> /\ v4 < Listed
  BY DEF RE!PollHorizon
<1>2. v3 \in [RE!Txs -> RE!Statuses] /\ v4 \in 0..Listed /\ \A q \in RE!Paying : q <= v4 => RE!Stored(Hash[q])
  BY DEF RE!IInv, RE!Shape, RE!PagesFollow
<1>3. v4 + 1 \in 1..Listed /\ \A q \in RE!Paying : q < v4 + 1 => RE!Stored(Hash[q])
  BY <1>1, <1>2, PayingFacts
<1>4. DOMAIN new = {"pc", "from"} /\ new.pc = "fetching" /\ new.from = v4 + 1
  OBVIOUS
<1> HIDE DEF new
<1> QED BY <1>1, <1>2, <1>3, <1>4, MovesInv

\* The loop reads on behind what is stored; the cursor follows.
LEMMA ReadOnInv ==
  ASSUME RE!IInv, NEW c \in Calls, NEW from \in Nat, NEW upTo \in 1..Listed,
         \A r \in RE!Paying : r < from => RE!Stored(Hash[r]), RE!ReadOn(c, from, upTo),
         v3' \in [RE!Txs -> RE!Statuses], \A t \in RE!Txs : v3'[t] = "absent" <=> v3[t] = "absent",
         UNCHANGED <<v7, v8>>
  PROVE  RE!IInv'
<1> DEFINE payments == {r \in RE!Paying : r \in from..upTo}
<1>1. CASE payments = {} /\ RE!Return(c) /\ v4' = upTo
  <2>1. \A r \in RE!Paying : r <= upTo => RE!Stored(Hash[r])
    BY <1>1, PayingFacts
  <2>2. v5' = [v5 EXCEPT ![c] = RE!Idle] /\ "pc" \in DOMAIN RE!Idle /\ RE!Idle.pc = "idle"
    BY <1>1 DEF RE!Return, RE!Idle
  <2>3. v4' \in 0..Listed
    BY <1>1, PayingFacts
  <2> QED BY <1>1, <2>1, <2>2, <2>3, MovesInv
<1>2. ASSUME NEW r \in payments, \A q \in payments : r <= q, RE!Lookup(c, "poll", r, upTo), v4' = r - 1
      PROVE  RE!IInv'
  <2> DEFINE new == [pc |-> "finding", job |-> [kind |-> "poll", at |-> r, upTo |-> upTo]]
  <2>1. r \in RE!Paying /\ r \in 1..Listed /\ r <= upTo
    BY PayingFacts
  <2>2. \A q \in RE!Paying : q < r => RE!Stored(Hash[q])
    BY <1>2, <2>1, PayingFacts
  <2>3. v4' \in 0..Listed /\ \A q \in RE!Paying : q <= v4' => RE!Stored(Hash[q])
    BY <1>2, <2>1, <2>2, PayingFacts
  <2>4. v5' = [v5 EXCEPT ![c] = new]
    BY <1>2 DEF RE!Lookup
  <2>5. /\ DOMAIN new = {"pc", "job"} /\ new.pc = "finding"
        /\ new.job.kind = "poll" /\ new.job.at = r /\ new.job.upTo = upTo
    OBVIOUS
  <2> HIDE DEF new
  <2> QED BY <2>1, <2>2, <2>3, <2>4, <2>5, MovesInv
<1> QED BY <1>1, <1>2 DEF RE!ReadOn

\* The page is there: its first payment, if it has one.
LEMMA PageArrivesInv ==
  ASSUME RE!IInv, NEW c \in Calls, NEW upTo \in 1..Listed, RE!PageArrives(c, upTo)
  PROVE  RE!IInv'
<1> DEFINE from == v5[c].from
<1>1. from \in 1..Listed /\ from <= upTo /\ \A r \in RE!Paying : r < from => RE!Stored(Hash[r])
  BY DEF RE!PageArrives, RE!IInv, RE!PagesFollow
<1>2. UNCHANGED <<v3, v7, v8>> /\ v3 \in [RE!Txs -> RE!Statuses]
  BY DEF RE!PageArrives, RE!IInv, RE!Shape
<1>3. CASE from \in RE!Paying /\ RE!Lookup(c, "poll", from, upTo) /\ UNCHANGED v4
  <2> DEFINE new == [pc |-> "finding", job |-> [kind |-> "poll", at |-> from, upTo |-> upTo]]
  <2>1. v5' = [v5 EXCEPT ![c] = new]
    BY <1>3 DEF RE!Lookup
  <2>2. v4' \in 0..Listed /\ \A q \in RE!Paying : q <= v4' => RE!Stored(Hash[q])
    BY <1>3 DEF RE!IInv, RE!Shape, RE!PagesFollow
  <2> HIDE DEF from
  <2>3. /\ DOMAIN new = {"pc", "job"} /\ new.pc = "finding"
        /\ new.job.kind = "poll" /\ new.job.at = from /\ new.job.upTo = upTo
    OBVIOUS
  <2> HIDE DEF new
  <2> QED BY <1>1, <1>2, <1>3, <2>1, <2>2, <2>3, MovesInv
<1>4. CASE RE!ReadOn(c, from, upTo)
  <2>1. from \in Nat
    BY <1>1
  <2> HIDE DEF from
  <2> QED BY <1>1, <1>2, <1>4, <2>1, ReadOnInv
<1> QED BY <1>3, <1>4 DEF RE!PageArrives

\* A retry goes on with one of the stored transactions it has listed.
LEMMA RetryInv ==
  ASSUME RE!IInv, NEW c \in Calls, NEW todo \in SUBSET RE!Txs, \A t \in todo : RE!Stored(t),
         RE!Retry(c, todo), UNCHANGED <<v4, v7, v8>>,
         v3' \in [RE!Txs -> RE!Statuses], \A t \in RE!Txs : v3'[t] = "absent" <=> v3[t] = "absent"
  PROVE  RE!IInv'
<1>0. v4 \in 0..Listed /\ \A q \in RE!Paying : q <= v4 => RE!Stored(Hash[q])
  BY DEF RE!IInv, RE!Shape, RE!PagesFollow
<1>1. CASE RE!Return(c)
  <2>1. v5' = [v5 EXCEPT ![c] = RE!Idle] /\ "pc" \in DOMAIN RE!Idle /\ RE!Idle.pc = "idle"
    BY <1>1 DEF RE!Return, RE!Idle
  <2> QED BY <1>0, <2>1, MovesInv
<1>2. ASSUME NEW t \in todo,
             v5' = [v5 EXCEPT ![c] = [pc |-> "matching", job |-> [kind |-> "retry", of |-> t, todo |-> todo \ {t}]]]
      PROVE  RE!IInv'
  <2> DEFINE new == [pc |-> "matching", job |-> [kind |-> "retry", of |-> t, todo |-> todo \ {t}]]
  <2>1. /\ DOMAIN new = {"pc", "job"} /\ new.job.kind = "retry" /\ new.pc = "matching"
        /\ new.job.todo \subseteq RE!Txs /\ new.job.of \in RE!Txs
        /\ \A u \in new.job.todo \union {new.job.of} : RE!Stored(u)
    OBVIOUS
  <2>2. v5' = [v5 EXCEPT ![c] = new]
    BY <1>2
  <2> HIDE DEF new
  <2> QED BY <1>0, <2>1, <2>2, MovesInv
<1> QED BY <1>1, <1>2 DEF RE!Retry

\* An ingestion's transaction is stored and the loop goes on; the cursor follows.
LEMMA NextPaymentInv ==
  ASSUME RE!IInv, NEW c \in Calls, RE!InLoop(c), RE!NextPayment(c), UNCHANGED <<v7, v8>>,
         v3' \in [RE!Txs -> RE!Statuses], \A t \in RE!Txs : v3'[t] = "absent" <=> v3[t] = "absent",
         RE!Ingests(c) => RE!Stored(RE!Tx(c))
  PROVE  RE!IInv'
<1>0. v4 \in 0..Listed /\ \A q \in RE!Paying : q <= v4 => RE!Stored(Hash[q])
  BY DEF RE!IInv, RE!Shape, RE!PagesFollow
<1>1. CASE RE!Return(c) /\ UNCHANGED v4
  <2>1. v5' = [v5 EXCEPT ![c] = RE!Idle] /\ "pc" \in DOMAIN RE!Idle /\ RE!Idle.pc = "idle"
    BY <1>1 DEF RE!Return, RE!Idle
  <2> QED BY <1>0, <1>1, <2>1, MovesInv
<1>2. CASE RE!Kind(c) = "poll" /\ RE!ReadOn(c, v5[c].job.at + 1, v5[c].job.upTo)
  <2>1. v5[c].job.at \in RE!Paying /\ v5[c].job.at \in 1..Listed /\ v5[c].job.upTo \in 1..Listed
    BY <1>2, PayingFacts DEF RE!IInv, RE!Shape, RE!Ingests
  <2>2. RE!Stored(Hash[v5[c].job.at]) /\ \A r \in RE!Paying : r < v5[c].job.at => RE!Stored(Hash[r])
    BY <1>2 DEF RE!IInv, RE!PagesFollow, RE!Ingests, RE!Tx
  <2>3. v5[c].job.at + 1 \in Nat /\ \A r \in RE!Paying : r < v5[c].job.at + 1 => RE!Stored(Hash[r])
    BY <2>1, <2>2, PayingFacts
  <2> QED BY <1>2, <2>1, <2>3, ReadOnInv
<1>3. CASE RE!Kind(c) = "retry" /\ RE!Retry(c, v5[c].job.todo) /\ UNCHANGED v4
  <2>1. v5[c].job.todo \subseteq RE!Txs /\ \A t \in v5[c].job.todo : RE!Stored(t)
    BY <1>3 DEF RE!IInv, RE!Shape, RE!Ingests
  <2> QED BY <1>3, <2>1, RetryInv
<1> QED BY <1>1, <1>2, <1>3 DEF RE!NextPayment

\* The lookup finds a row: the loop goes on.
LEMMA FindDuplicateInv ==
  ASSUME RE!IInv, NEW c \in Calls, RE!FindDuplicate(c)
  PROVE  RE!IInv'
<1> QED BY NextPaymentInv DEF RE!FindDuplicate, RE!IInv, RE!Shape, RE!At, RE!InLoop, RE!Stored

\* The closing save: the transaction stays stored.
LEMMA CloseInv ==
  ASSUME RE!IInv, NEW c \in Calls, RE!Close(c)
  PROVE  RE!IInv'
<1>1. v3' \in [RE!Txs -> RE!Statuses]
  BY DEF RE!Close, RE!IInv, RE!Shape, RE!At
<1>2. RE!InLoop(c) /\ RE!Tx(c) \in RE!Txs /\ RE!Stored(RE!Tx(c))
  BY DEF RE!Close, RE!IInv, RE!OneIngestion, RE!At, RE!InLoop, RE!PastInsert
<1>3. \A t \in RE!Txs : v3'[t] = "absent" <=> v3[t] = "absent"
  BY <1>2 DEF RE!Close, RE!IInv, RE!Shape, RE!At, RE!Stored
<1> QED BY <1>1, <1>2, <1>3, NextPaymentInv DEF RE!Close

\* The lookup finds no row.
LEMMA FindNewInv ==
  ASSUME RE!IInv, NEW c \in Calls, RE!FindNew(c)
  PROVE  RE!IInv'
<1> USE DEF RE!FindNew, RE!IInv, RE!At, RE!Tx, RE!Kind, RE!Ingests, RE!InLoop, RE!PastInsert, RE!Stored
<1>1. RE!Shape'
  BY DEF RE!Shape, RE!Statuses
<1>2. RE!RowsAreStored' /\ RE!PagesFollow'
  BY PayingFacts DEF RE!Shape, RE!RowsAreStored, RE!PagesFollow
<1>3. RE!OneIngestion' /\ RE!DuplicatesCreditOnce'
  BY PayingFacts DEF RE!Shape, RE!OneIngestion, RE!DuplicatesCreditOnce
<1> QED BY <1>1, <1>2, <1>3

\* The unique index lets one ingestion past.
LEMMA InsertInv ==
  ASSUME RE!IInv, NEW c \in Calls, RE!Insert(c)
  PROVE  RE!IInv'
<1> USE DEF RE!Insert, RE!IInv, RE!At, RE!Tx, RE!Kind, RE!Ingests, RE!InLoop, RE!PastInsert, RE!Stored
<1>1. RE!Shape'
  BY DEF RE!Shape, RE!Statuses
<1>2. RE!RowsAreStored' /\ RE!PagesFollow'
  BY PayingFacts DEF RE!Shape, RE!RowsAreStored, RE!PagesFollow
<1>3. RE!OneIngestion' /\ RE!DuplicatesCreditOnce'
  BY PayingFacts DEF RE!Shape, RE!OneIngestion, RE!DuplicatesCreditOnce
<1> QED BY <1>1, <1>2, <1>3

\* Matching chooses the invoice and the status.
LEMMA MatchInv ==
  ASSUME RE!IInv, NEW c \in Calls, RE!Match(c)
  PROVE  RE!IInv'
<1> USE DEF RE!Match, RE!IInv, RE!At, RE!Tx, RE!Kind, RE!Ingests, RE!InLoop, RE!PastInsert, RE!Stored
<1>1. RE!Shape'
  BY DEF RE!Shape, RE!Statuses
<1>2. RE!RowsAreStored' /\ RE!PagesFollow'
  BY PayingFacts DEF RE!Shape, RE!RowsAreStored, RE!PagesFollow
<1>3. RE!OneIngestion' /\ RE!DuplicatesCreditOnce'
  BY PayingFacts DEF RE!Shape, RE!OneIngestion, RE!DuplicatesCreditOnce
<1> QED BY <1>1, <1>2, <1>3

\* The one ingestion of a transaction credits it.
LEMMA CreditInv ==
  ASSUME RE!IInv, NEW c \in Calls, RE!Credit(c)
  PROVE  RE!IInv'
<1> USE DEF RE!Credit, RE!IInv, RE!At, RE!Tx, RE!Kind, RE!Ingests, RE!InLoop, RE!PastInsert, RE!Stored
<1>0. RE!Tx(c) \in RE!Txs
  BY DEF RE!OneIngestion
<1>1. RE!Shape'
  <2>1. v7' \in [RE!Txs -> [ingest : Nat, retry : Nat]]
    BY <1>0 DEF RE!Shape
  <2>2. v5' = [v5 EXCEPT ![c] = [pc |-> "auditing", job |-> v5[c].job, status |-> v5[c].status]]
    BY DEF RE!Shape
  <2>3. v5' = [d \in Calls |-> v5'[d]] /\ \A d \in Calls : d # c => v5'[d] = v5[d]
    BY <2>2 DEF RE!Shape
  <2>4. /\ v5'[c].pc = "auditing" /\ v5'[c].job = v5[c].job /\ v5'[c].status = v5[c].status
        /\ DOMAIN v5'[c] = {"pc", "job", "status"}
    BY <2>2 DEF RE!Shape
  <2>5. UNCHANGED <<v3, v4>> /\ v5[c].pc = "crediting"
    OBVIOUS
  <2> HIDE DEF RE!Credit
  <2> QED BY <2>1, <2>3, <2>4, <2>5 DEF RE!Shape
<1>2. RE!RowsAreStored' /\ RE!PagesFollow'
  BY PayingFacts DEF RE!Shape, RE!RowsAreStored, RE!PagesFollow
<1>3. RE!OneIngestion' /\ RE!DuplicatesCreditOnce'
  <2>1. CASE RE!Ingests(c)
    <3>1. v7' = [v7 EXCEPT ![RE!Tx(c)].ingest = @ + 1]
      BY <2>1
    <3>2. /\ v7'[RE!Tx(c)].ingest = v7[RE!Tx(c)].ingest + 1 /\ v7[RE!Tx(c)].ingest = 0
          /\ \A t \in RE!Txs : t # RE!Tx(c) => v7'[t] = v7[t]
      BY <1>0, <2>1, <3>1 DEF RE!Shape, RE!OneIngestion
    <3>3. v5' = [v5 EXCEPT ![c] = [pc |-> "auditing", job |-> v5[c].job, status |-> v5[c].status]]
      BY DEF RE!Shape
    <3>4. /\ v5'[c] = [pc |-> "auditing", job |-> v5[c].job, status |-> v5[c].status]
          /\ \A d \in Calls : d # c => v5'[d] = v5[d]
      BY <3>3 DEF RE!Shape
    <3> QED BY <1>0, <2>1, <3>2, <3>4, PayingFacts DEF RE!Shape, RE!OneIngestion, RE!DuplicatesCreditOnce
  <2>2. CASE ~RE!Ingests(c)
    <3>1. v7' = [v7 EXCEPT ![RE!Tx(c)].retry = @ + 1]
      BY <2>2
    <3>2. \A t \in RE!Txs : v7'[t].ingest = v7[t].ingest
      BY <1>0, <3>1 DEF RE!Shape
    <3> QED BY <1>0, <2>2, <3>2, PayingFacts DEF RE!Shape, RE!OneIngestion, RE!DuplicatesCreditOnce
  <2> QED BY <2>1, <2>2
<1> QED BY <1>1, <1>2, <1>3

\* The audit entry is written.
LEMMA AuditInv ==
  ASSUME RE!IInv, NEW c \in Calls, RE!Audit(c)
  PROVE  RE!IInv'
<1> USE DEF RE!Audit, RE!IInv, RE!At, RE!Tx, RE!Kind, RE!Ingests, RE!InLoop, RE!PastInsert, RE!Stored
<1>1. RE!Shape'
  BY DEF RE!Shape, RE!Statuses
<1>2. RE!RowsAreStored' /\ RE!PagesFollow'
  BY PayingFacts DEF RE!Shape, RE!RowsAreStored, RE!PagesFollow
<1>3. RE!OneIngestion' /\ RE!DuplicatesCreditOnce'
  BY PayingFacts DEF RE!Shape, RE!OneIngestion, RE!DuplicatesCreditOnce
<1> QED BY <1>1, <1>2, <1>3

\* A failure inside reconcileTransaction.
LEMMA ReconcileFailsInv ==
  ASSUME RE!IInv, NEW c \in Calls, RE!ReconcileFails(c)
  PROVE  RE!IInv'
<1> USE DEF RE!ReconcileFails, RE!IInv, RE!At, RE!Tx, RE!Kind, RE!Ingests, RE!InLoop, RE!PastInsert, RE!Stored
<1>1. RE!Shape'
  BY DEF RE!Shape, RE!Statuses
<1>2. RE!RowsAreStored' /\ RE!PagesFollow'
  BY PayingFacts DEF RE!Shape, RE!RowsAreStored, RE!PagesFollow
<1>3. RE!OneIngestion' /\ RE!DuplicatesCreditOnce'
  BY PayingFacts DEF RE!Shape, RE!OneIngestion, RE!DuplicatesCreditOnce
<1> QED BY <1>1, <1>2, <1>3

\* A call that returns, throws, or creates an invoice ingests nothing.
LEMMA AsideInv ==
  ASSUME RE!IInv, NEW c \in Calls, NEW new, "pc" \in DOMAIN new, new.pc \in {"idle", "registering", "listing"},
         v5' = [v5 EXCEPT ![c] = new], UNCHANGED <<v3, v4, v7, v8>>
  PROVE  RE!IInv'
<1>1. v3 \in [RE!Txs -> RE!Statuses] /\ v4 \in 0..Listed /\ \A q \in RE!Paying : q <= v4 => RE!Stored(Hash[q])
  BY DEF RE!IInv, RE!Shape, RE!PagesFollow
<1> QED BY <1>1, MovesInv

\* The instance restarts: no call is left and the cursor is at the beginning.
LEMMA RestartInv ==
  ASSUME RE!IInv, RE!Restart
  PROVE  RE!IInv'
  BY PayingFacts
  DEF RE!Restart, RE!IInv, RE!Shape, RE!RowsAreStored, RE!PagesFollow, RE!OneIngestion, RE!DuplicatesCreditOnce,
      RE!Idle, RE!At, RE!InLoop, RE!PastInsert, RE!Stored

\* Every step of a call keeps the invariant.
LEMMA ReconciliationStep ==
  ASSUME RE!IInv, NEW c \in Calls, RE!Step(c)
  PROVE  RE!IInv'
<1>1. CASE \E r \in RE!Paying : RE!Ingest(c, r)
  BY <1>1, IngestInv
<1>2. CASE RE!PollHorizon(c) \/ \E r \in 1..Listed : RE!PageArrives(c, r)
  BY <1>2, PollInv, PageArrivesInv
<1>3. CASE RE!FindNew(c) \/ RE!FindDuplicate(c) \/ RE!Insert(c)
  BY <1>3, FindNewInv, FindDuplicateInv, InsertInv
<1>4. CASE RE!InsertRefused(c) \/ RE!CallFails(c)
  <2>1. v5' = [v5 EXCEPT ![c] = RE!Idle] /\ UNCHANGED <<v3, v4, v7, v8>>
    BY <1>4 DEF RE!InsertRefused, RE!CallFails, RE!Throw, RE!Return
  <2>2. "pc" \in DOMAIN RE!Idle /\ RE!Idle.pc = "idle"
    BY DEF RE!Idle
  <2> QED BY <2>1, <2>2, AsideInv
<1>5. CASE \E i \in RE!Invoices : RE!CreateInvoice(c, i)
  <2> PICK i \in RE!Invoices : RE!CreateInvoice(c, i)
    BY <1>5
  <2> DEFINE new == [pc |-> "registering", invoice |-> i]
  <2>1. v5' = [v5 EXCEPT ![c] = new] /\ UNCHANGED <<v3, v4, v7, v8>>
    BY DEF RE!CreateInvoice
  <2>2. "pc" \in DOMAIN new /\ new.pc = "registering"
    OBVIOUS
  <2> HIDE DEF new
  <2> QED BY <2>1, <2>2, AsideInv
<1>6. CASE RE!Register(c)
  <2>1. CASE v5' = [v5 EXCEPT ![c] = RE!Idle]
    <3>1. "pc" \in DOMAIN RE!Idle /\ RE!Idle.pc = "idle"
      BY DEF RE!Idle
    <3> QED BY <1>6, <2>1, <3>1, AsideInv DEF RE!Register
  <2>2. CASE v5' = [v5 EXCEPT ![c].pc = "listing"]
    <3> DEFINE new == [v5[c] EXCEPT !.pc = "listing"]
    <3>1. v5' = [v5 EXCEPT ![c] = new]
      BY <2>2 DEF RE!IInv, RE!Shape
    <3>2. "pc" \in DOMAIN new /\ new.pc = "listing"
      BY DEF RE!IInv, RE!Shape
    <3> HIDE DEF new
    <3> QED BY <1>6, <3>1, <3>2, AsideInv DEF RE!Register
  <2> QED BY <1>6, <2>1, <2>2 DEF RE!Register, RE!Return
<1>7. CASE RE!List(c) \/ \E i \in RE!Invoices : RE!ManualReconcile(c, i)
  <2>0. \A i, statuses : "absent" \notin statuses =>
          RE!Candidates(i, statuses) \in SUBSET RE!Txs /\ \A t \in RE!Candidates(i, statuses) : RE!Stored(t)
    BY DEF RE!Candidates, RE!Stored
  <2>1. PICK i, statuses :
          RE!Retry(c, RE!Candidates(i, statuses)) /\ "absent" \notin statuses /\ UNCHANGED <<v3, v4, v7, v8>>
    BY <1>7 DEF RE!List, RE!ManualReconcile
  <2>2. v3 \in [RE!Txs -> RE!Statuses]
    BY DEF RE!IInv, RE!Shape
  <2> QED BY <2>0, <2>1, <2>2, RetryInv
<1>8. CASE RE!Match(c) \/ RE!Credit(c) \/ RE!Audit(c) \/ RE!Close(c) \/ RE!ReconcileFails(c)
  BY <1>8, MatchInv, CreditInv, AuditInv, CloseInv, ReconcileFailsInv
<1> QED BY <1>1, <1>2, <1>3, <1>4, <1>5, <1>6, <1>7, <1>8 DEF RE!Step

\* A step of another service, or none, leaves the reconciliation's state alone.
LEMMA ReconciliationStutters ==
  ASSUME RE!IInv, UNCHANGED <<v3, v4, v5, v7, v8>>
  PROVE  RE!IInv'
  BY DEF RE!IInv, RE!Shape, RE!RowsAreStored, RE!PagesFollow, RE!OneIngestion, RE!DuplicatesCreditOnce,
         RE!At, RE!InLoop, RE!PastInsert, RE!Stored, RE!Tx, RE!Kind, RE!Ingests

LEMMA ReconciliationInv == ServicesSpec => [](service = "reconciliation" => RE!IInv)
<1>1. ServicesInit => (service = "reconciliation" => RE!IInv)
  BY ReconciliationInit DEF ServicesInit, OtherInit
<1>2. (service = "reconciliation" => RE!IInv) /\ [ServicesNext]_ServicesVars => (service = "reconciliation" => RE!IInv)'
  <2> SUFFICES ASSUME service' = "reconciliation", service = "reconciliation" => RE!IInv, [ServicesNext]_ServicesVars
               PROVE  RE!IInv'
    OBVIOUS
  <2>1. service = "reconciliation"
    BY DEF ServicesNext, OtherNext, ServicesVars
  <2>2. RE!Next \/ UNCHANGED <<v3, v4, v5, v7, v8>>
    BY <2>1 DEF ServicesNext, OtherNext, ServicesVars, others
  <2> QED BY <2>1, <2>2, ReconciliationStep, RestartInv, ReconciliationStutters DEF RE!Next
<1> QED BY <1>1, <1>2, PTL DEF ServicesSpec

\* ingestTransaction: for any number of transactions, records, invoices and calls,
\* and every fault and restart, ingestions credit a transaction at most once
\* between them.
THEOREM PaymentsCreditOnce == ServicesSpec => []DuplicatesCreditOnce
<1>1. (service = "reconciliation" => RE!IInv) => DuplicatesCreditOnce
  BY DEF RE!IInv, DuplicatesCreditOnce
<1> QED BY <1>1, ReconciliationInv, PTL

\* pollHorizon: however records of other types, transactions with several payments,
\* failures and restarts are mixed in and polls overlap, what the cursor has passed
\* is stored, is no payment, or shares its transaction with a payment that is stored.
THEOREM CursorsNeverSkip == ServicesSpec => []CursorNeverSkips
<1>1. ASSUME RE!IInv, NEW r \in 1..v4
      PROVE  r \in v8 \/ RE!NoPayment(r) \/ RE!SiblingStored(r)
  <2>1. CASE r \in RE!Paying
    <3>1. RE!Stored(Hash[r]) /\ Hash[r] \in RE!Txs
      BY <1>1, <2>1, PayingFacts DEF RE!IInv, RE!Shape, RE!PagesFollow
    <3>2. PICK q \in v8 : Hash[q] = Hash[r]
      BY <1>1, <3>1 DEF RE!IInv, RE!RowsAreStored
    <3> QED BY <3>2 DEF RE!SiblingStored
  <2>2. CASE r \notin RE!Paying
    BY <1>1, <2>2, PayingFacts DEF RE!Paying, RE!NoPayment, RE!IInv, RE!Shape
  <2> QED BY <2>1, <2>2
<1>2. (service = "reconciliation" => RE!IInv) => CursorNeverSkips
  BY <1>1 DEF CursorNeverSkips, RE!CursorNeverSkips
<1> QED BY <1>2, ReconciliationInv, PTL

-----------------------------------------------------------------------------
(* Payments *)

\* Entities keep their shape when a call fills in what it learnt.
LEMMA RowsAreUpdated ==
  /\ PR!NoRow \in PR!Rows
  /\ \A r \in PR!Rows : r.pay \in 0..MaxPayments /\ r.signed \in 0..MaxPayments
  /\ \A r \in PR!Rows, s \in PR!States : [r EXCEPT !.state = s] \in PR!Rows
  /\ \A r \in PR!Rows, s \in PR!States, p \in 0..MaxPayments :
        [r EXCEPT !.state = s, !.pay = p] \in PR!Rows /\ [r EXCEPT !.state = s, !.signed = p] \in PR!Rows
  /\ \A r \in PR!Rows, s \in PR!States, v \in PR!Verdicts : [r EXCEPT !.state = s, !.answer = v] \in PR!Rows
  /\ {"CREATING", "CREATED", "SIGNED", "SUBMITTING", "SUBMITTED", "RECOVERY_REQUIRED"} \subseteq PR!States
  /\ PR!Answers \subseteq PR!Verdicts /\ {"none", "open", "refused", "accepted"} \subseteq PR!Verdicts
<1>1. \A r \in PR!Rows :
        /\ r = [state |-> r.state, pay |-> r.pay, signed |-> r.signed, answer |-> r.answer]
        /\ r.state \in PR!States /\ r.pay \in 0..MaxPayments /\ r.signed \in 0..MaxPayments /\ r.answer \in PR!Verdicts
  BY DEF PR!Rows
<1>2. PR!NoRow \in PR!Rows
  BY ServicesAssumption DEF PR!Rows, PR!NoRow, PR!States, PR!Verdicts
<1>3. {"CREATING", "CREATED", "SIGNED", "SUBMITTING", "SUBMITTED", "RECOVERY_REQUIRED"} \subseteq PR!States
  BY DEF PR!States
<1>4. PR!Answers \subseteq PR!Verdicts /\ {"none", "open", "refused", "accepted"} \subseteq PR!Verdicts
  BY DEF PR!Answers, PR!Verdicts
<1> QED BY <1>1, <1>2, <1>3, <1>4 DEF PR!Rows

LEMMA GotoKeepsShape ==
  ASSUME PR!TypeOK, NEW c \in Requests, NEW pc \in PR!Pcs, NEW op \in PR!Rows, PR!Goto(c, pc, op)
  PROVE  v7' \in [Requests -> [pc : PR!Pcs, op : PR!Rows]]
  BY DEF PR!Goto, PR!TypeOK

LEMMA ReturnKeepsShape ==
  ASSUME PR!TypeOK, NEW c \in Requests, PR!Return(c)
  PROVE  v7' \in [Requests -> [pc : PR!Pcs, op : PR!Rows]]
<1>1. PR!Idle \in [pc : PR!Pcs, op : PR!Rows]
  BY RowsAreUpdated DEF PR!Idle, PR!Pcs
<1> QED BY <1>1 DEF PR!Return, PR!TypeOK

LEMMA SaveKeepsShape ==
  ASSUME PR!TypeOK, NEW c \in Requests, PR!SaveColumns(c)
  PROVE  v2' \in PR!Rows /\ v3' \in BOOLEAN
  BY DEF PR!TypeOK, PR!SaveColumns

LEMMA PaymentNumbers == \A p \in 0..MaxPayments : p # 0 => p \in PR!PaymentIds
  BY ServicesAssumption DEF PR!PaymentIds

\* The processor decides about a payment, not for the second time unless it is
\* safe to call again: it carries it out if it accepts it, once.
LEMMA DecideFacts ==
  ASSUME PR!IInv, NEW p \in PR!PaymentIds, NEW v \in PR!Answers, PR!Decide(p, v),
         v1.safe \/ v8[p] \in {"none", "open"}
  PROVE  /\ v5' \in [PR!PaymentIds -> Nat] /\ v8' \in [PR!PaymentIds -> PR!Verdicts]
         /\ v8[p] \in {"none", "open", v} /\ v8'[p] = v /\ v \in {"open", "refused", "accepted"}
         /\ \A q \in PR!PaymentIds : q # p => v8'[q] = v8[q] /\ v5'[q] = v5[q]
         /\ \A q \in PR!PaymentIds : v5'[q] <= 1 /\ (v5'[q] > 0 <=> v8'[q] = "accepted")
<1>1. /\ v5 \in [PR!PaymentIds -> Nat] /\ v8 \in [PR!PaymentIds -> PR!Verdicts]
      /\ \A q \in PR!PaymentIds : v5[q] \in Nat /\ v5[q] <= 1 /\ (v5[q] > 0 <=> v8[q] = "accepted")
  BY DEF PR!IInv, PR!TypeOK, PR!SentOnce, PR!AnswersAreTrue
<1>2. /\ v8[p] \in {"none", "open", v} /\ v8' = [v8 EXCEPT ![p] = v] /\ v \in {"open", "refused", "accepted"}
      /\ v8' \in [PR!PaymentIds -> PR!Verdicts]
  BY <1>1 DEF PR!Decide, PR!Answers, PR!Verdicts
<1>3. CASE v = "accepted"
  <2>1. v5' = [v5 EXCEPT ![p] = 1]
    <3>1. CASE v1.safe
      BY <1>3, <3>1 DEF PR!Decide, PR!CarryOut, PR!SafeRetry
    <3>2. CASE ~v1.safe
      <4>1. v5[p] = 0
        BY <1>1, <3>2
      <4>2. v5' = [v5 EXCEPT ![p] = v5[p] + 1]
        BY <1>3, <3>2 DEF PR!Decide, PR!CarryOut, PR!SafeRetry
      <4> QED BY <4>1, <4>2
    <3> QED BY <3>1, <3>2
  <2> QED BY <1>1, <1>2, <1>3, <2>1
<1>4. CASE v # "accepted"
  <2>1. v5' = v5
    BY <1>4 DEF PR!Decide
  <2> QED BY <1>1, <1>2, <1>4, <2>1
<1> QED BY <1>3, <1>4

USE DEF PR!At, PR!Begin, PR!Interrupted, PR!May, PR!SafeRetry, PR!ClientSigns, PR!Disturbed, PR!Truthful,
        PR!Making, PR!FailsToCreate, PR!FailsToSubmit, PR!Submitting, PR!Sent, PR!Idle, PR!NoRow

\* A call ends, perhaps with the row's payment as its answer.
LEMMA ReturnsInv ==
  ASSUME PR!IInv, NEW c \in Requests, PR!Return(c), v6' \subseteq {v2.pay} \ {0}, UNCHANGED <<v1, v2, v3, v4, v5, v8>>
  PROVE  PR!IInv'
<1>0. PR!TypeOK /\ v7[c].op \in PR!Rows /\ v2 \in PR!Rows /\ v1' = v1
  BY DEF PR!IInv, PR!TypeOK, PR!Return
<1>1. PR!TypeOK'
  <2>1. v7' \in [Requests -> [pc : PR!Pcs, op : PR!Rows]]
    BY <1>0, ReturnKeepsShape
  <2>2. v6' \subseteq PR!PaymentIds
    BY <1>0, RowsAreUpdated, PaymentNumbers
  <2> QED BY <1>0, <2>1, <2>2 DEF PR!TypeOK
<1>2. PR!Supported(v1)'
  BY <1>0 DEF PR!IInv, PR!Supported, PR!Setup, PR!OneMaker, PR!OneSigner
<1> USE DEF PR!Return, PR!IInv, PR!TypeOK, PR!Rows, PR!PaymentIds, PR!Goto, PR!Return, PR!Fail, PR!SaveColumns
<1>3. PR!Entities'
  BY DEF PR!Entities, PR!OneMaking, PR!OnePayment
<1>4. PR!OneMaking'
  BY DEF PR!Entities, PR!OneMaking, PR!OnePayment, PR!Supported, PR!OneMaker, PR!OneSigner
<1>5. PR!OnePayment'
  BY DEF PR!Entities, PR!OneMaking, PR!OnePayment
<1>6. PR!SignedOnce'
  BY DEF PR!Entities, PR!OneMaking, PR!OnePayment, PR!SignedOnce, PR!Supported, PR!OneMaker, PR!OneSigner
<1>7. PR!SentOnce'
  BY DEF PR!Entities, PR!OneMaking, PR!OnePayment, PR!SignedOnce, PR!SentOnce
<1>8. PR!AnswersAreTrue'
  BY DEF PR!Entities, PR!OneMaking, PR!OnePayment, PR!AnswersAreTrue
<1> QED BY <1>1, <1>2, <1>3, <1>4, <1>5, <1>6, <1>7, <1>8

\* The catch blocks: the outcome of creating or of submitting is unknown.
LEMMA FailsInv ==
  ASSUME PR!IInv, NEW c \in Requests, PR!Fail(c), PR!Disturbed # {},
         v7[c].pc \in {"creating", "checkpointing", "asking", "confirming", "sending", "recording"},
         UNCHANGED <<v1, v2, v3, v4, v5, v6, v8>>
  PROVE  PR!IInv'
<1>0. PR!TypeOK /\ v7[c].op \in PR!Rows /\ v2 \in PR!Rows /\ v1' = v1
  BY DEF PR!IInv, PR!TypeOK, PR!Fail
<1>1. PR!TypeOK'
  <2>1. v7' \in [Requests -> [pc : PR!Pcs, op : PR!Rows]]
    BY <1>0, RowsAreUpdated, GotoKeepsShape, ReturnKeepsShape DEF PR!Fail, PR!Fail, PR!Pcs, PR!TypeOK
  <2>2. v2' \in PR!Rows /\ v3' \in BOOLEAN
    BY <1>0, RowsAreUpdated, SaveKeepsShape DEF PR!Fail, PR!TypeOK
  <2> QED BY <1>0, <2>1, <2>2 DEF PR!Fail, PR!TypeOK
<1>2. PR!Supported(v1)'
  BY <1>0 DEF PR!IInv, PR!Supported, PR!Setup, PR!OneMaker, PR!OneSigner
<1> USE DEF PR!Fail, PR!IInv, PR!TypeOK, PR!Rows, PR!PaymentIds, PR!Goto, PR!Return, PR!Fail, PR!SaveColumns
<1>3. PR!Entities'
  BY DEF PR!Entities, PR!OneMaking, PR!OnePayment
<1>4. PR!OneMaking'
  BY DEF PR!Entities, PR!OneMaking, PR!OnePayment, PR!Supported, PR!OneMaker, PR!OneSigner
<1>5. PR!OnePayment'
  BY DEF PR!Entities, PR!OneMaking, PR!OnePayment
<1>6. PR!SignedOnce'
  BY DEF PR!Entities, PR!OneMaking, PR!OnePayment, PR!SignedOnce, PR!Supported, PR!OneMaker, PR!OneSigner
<1>7. PR!SentOnce'
  BY DEF PR!Entities, PR!OneMaking, PR!OnePayment, PR!SignedOnce, PR!SentOnce
<1>8. PR!AnswersAreTrue'
  BY DEF PR!Entities, PR!OneMaking, PR!OnePayment, PR!AnswersAreTrue
<1> QED BY <1>1, <1>2, <1>3, <1>4, <1>5, <1>6, <1>7, <1>8

\* An interrupted submission is repeated, for a processor that is safe to call again.
LEMMA RetriesInv ==
  ASSUME PR!IInv, NEW c \in Requests, PR!SafeRetry, v7[c].pc \in {"asking", "confirming"},
         PR!Goto(c, "reclaiming", [v7[c].op EXCEPT !.state = "SUBMITTING"]),
         UNCHANGED <<v1, v2, v3, v4, v5, v6, v8>>
  PROVE  PR!IInv'
<1>0. PR!TypeOK /\ v7[c].op \in PR!Rows /\ v2 \in PR!Rows /\ v1' = v1
  BY DEF PR!IInv, PR!TypeOK, PR!Goto
<1>1. PR!TypeOK'
  <2>1. v7' \in [Requests -> [pc : PR!Pcs, op : PR!Rows]]
    BY <1>0, RowsAreUpdated, GotoKeepsShape, ReturnKeepsShape DEF PR!Goto, PR!Fail, PR!Pcs, PR!TypeOK
  <2>2. v2' \in PR!Rows /\ v3' \in BOOLEAN
    BY <1>0, RowsAreUpdated, SaveKeepsShape DEF PR!Goto, PR!TypeOK
  <2> QED BY <1>0, <2>1, <2>2 DEF PR!Goto, PR!TypeOK
<1>2. PR!Supported(v1)'
  BY <1>0 DEF PR!IInv, PR!Supported, PR!Setup, PR!OneMaker, PR!OneSigner
<1> USE DEF PR!Goto, PR!IInv, PR!TypeOK, PR!Rows, PR!PaymentIds, PR!Goto, PR!Return, PR!Fail, PR!SaveColumns
<1>3. PR!Entities'
  BY DEF PR!Entities, PR!OneMaking, PR!OnePayment
<1>4. PR!OneMaking'
  BY DEF PR!Entities, PR!OneMaking, PR!OnePayment, PR!Supported, PR!OneMaker, PR!OneSigner
<1>5. PR!OnePayment'
  BY DEF PR!Entities, PR!OneMaking, PR!OnePayment
<1>6. PR!SignedOnce'
  BY DEF PR!Entities, PR!OneMaking, PR!OnePayment, PR!SignedOnce, PR!Supported, PR!OneMaker, PR!OneSigner
<1>7. PR!SentOnce'
  BY DEF PR!Entities, PR!OneMaking, PR!OnePayment, PR!SignedOnce, PR!SentOnce
<1>8. PR!AnswersAreTrue'
  BY DEF PR!Entities, PR!OneMaking, PR!OnePayment, PR!AnswersAreTrue
<1> QED BY <1>1, <1>2, <1>3, <1>4, <1>5, <1>6, <1>7, <1>8

\* What a call learnt, or that it does not know, is saved.
LEMMA SavesOutcomeInv ==
  ASSUME PR!IInv, NEW c \in Requests, v7[c].pc \in {"failing", "confirming", "recording"},
         PR!SaveColumns(c), PR!Return(c), UNCHANGED <<v1, v4, v5, v6, v8>>
  PROVE  PR!IInv'
<1>0. PR!TypeOK /\ v7[c].op \in PR!Rows /\ v2 \in PR!Rows /\ v1' = v1
  BY DEF PR!IInv, PR!TypeOK, PR!SaveColumns
<1>1. PR!TypeOK'
  <2>1. v7' \in [Requests -> [pc : PR!Pcs, op : PR!Rows]]
    BY <1>0, RowsAreUpdated, GotoKeepsShape, ReturnKeepsShape DEF PR!SaveColumns, PR!Fail, PR!Pcs, PR!TypeOK
  <2>2. v2' \in PR!Rows /\ v3' \in BOOLEAN
    BY <1>0, RowsAreUpdated, SaveKeepsShape DEF PR!SaveColumns, PR!TypeOK
  <2> QED BY <1>0, <2>1, <2>2 DEF PR!SaveColumns, PR!TypeOK
<1>2. PR!Supported(v1)'
  BY <1>0 DEF PR!IInv, PR!Supported, PR!Setup, PR!OneMaker, PR!OneSigner
<1> USE DEF PR!SaveColumns, PR!IInv, PR!TypeOK, PR!Rows, PR!PaymentIds, PR!Goto, PR!Return, PR!Fail, PR!SaveColumns
<1>3. PR!Entities'
  BY DEF PR!Entities, PR!OneMaking, PR!OnePayment
<1>4. PR!OneMaking'
  BY DEF PR!Entities, PR!OneMaking, PR!OnePayment, PR!Supported, PR!OneMaker, PR!OneSigner
<1>5. PR!OnePayment'
  BY DEF PR!Entities, PR!OneMaking, PR!OnePayment
<1>6. PR!SignedOnce'
  BY DEF PR!Entities, PR!OneMaking, PR!OnePayment, PR!SignedOnce, PR!Supported, PR!OneMaker, PR!OneSigner
<1>7. PR!SentOnce'
  BY DEF PR!Entities, PR!OneMaking, PR!OnePayment, PR!SignedOnce, PR!SentOnce
<1>8. PR!AnswersAreTrue'
  BY DEF PR!Entities, PR!OneMaking, PR!OnePayment, PR!AnswersAreTrue
<1> QED BY <1>1, <1>2, <1>3, <1>4, <1>5, <1>6, <1>7, <1>8

\* createPayment returns the payment the row has.
LEMMA CreateReturnsSavedInv ==
  ASSUME PR!IInv, NEW c \in Requests, PR!CreateReturnsSaved(c)
  PROVE  PR!IInv'
<1>0. PR!TypeOK /\ v7[c].op \in PR!Rows /\ v2 \in PR!Rows /\ v1' = v1
  BY DEF PR!IInv, PR!TypeOK, PR!CreateReturnsSaved
<1>1. PR!TypeOK'
  <2>1. v6' \subseteq PR!PaymentIds
    BY <1>0, RowsAreUpdated, PaymentNumbers DEF PR!CreateReturnsSaved, PR!TypeOK
  <2> QED BY <1>0, <2>1 DEF PR!CreateReturnsSaved, PR!TypeOK
<1>2. PR!Supported(v1)'
  BY <1>0 DEF PR!IInv, PR!Supported, PR!Setup, PR!OneMaker, PR!OneSigner
<1> USE DEF PR!CreateReturnsSaved, PR!IInv, PR!TypeOK, PR!Rows, PR!PaymentIds, PR!Goto, PR!Return, PR!Fail, PR!SaveColumns
<1>3. PR!Entities'
  BY DEF PR!Entities, PR!OneMaking, PR!OnePayment
<1>4. PR!OneMaking'
  BY DEF PR!Entities, PR!OneMaking, PR!OnePayment, PR!Supported, PR!OneMaker, PR!OneSigner
<1>5. PR!OnePayment'
  BY DEF PR!Entities, PR!OneMaking, PR!OnePayment
<1>6. PR!SignedOnce'
  BY DEF PR!Entities, PR!OneMaking, PR!OnePayment, PR!SignedOnce, PR!Supported, PR!OneMaker, PR!OneSigner
<1>7. PR!SentOnce'
  BY DEF PR!Entities, PR!OneMaking, PR!OnePayment, PR!SignedOnce, PR!SentOnce
<1>8. PR!AnswersAreTrue'
  BY DEF PR!Entities, PR!OneMaking, PR!OnePayment, PR!AnswersAreTrue
<1> QED BY <1>1, <1>2, <1>3, <1>4, <1>5, <1>6, <1>7, <1>8

\* createPayment finds no row.
LEMMA CreateFindsNothingInv ==
  ASSUME PR!IInv, NEW c \in Requests, PR!CreateFindsNothing(c)
  PROVE  PR!IInv'
<1>0. PR!TypeOK /\ v7[c].op \in PR!Rows /\ v2 \in PR!Rows /\ v1' = v1
  BY DEF PR!IInv, PR!TypeOK, PR!CreateFindsNothing
<1>1. PR!TypeOK'
  <2>1. v7' \in [Requests -> [pc : PR!Pcs, op : PR!Rows]]
    BY <1>0, RowsAreUpdated, GotoKeepsShape, ReturnKeepsShape DEF PR!CreateFindsNothing, PR!Fail, PR!Pcs, PR!TypeOK
  <2>2. v2' \in PR!Rows /\ v3' \in BOOLEAN
    BY <1>0, RowsAreUpdated, SaveKeepsShape DEF PR!CreateFindsNothing, PR!TypeOK
  <2> QED BY <1>0, <2>1, <2>2 DEF PR!CreateFindsNothing, PR!TypeOK
<1>2. PR!Supported(v1)'
  BY <1>0 DEF PR!IInv, PR!Supported, PR!Setup, PR!OneMaker, PR!OneSigner
<1> USE DEF PR!CreateFindsNothing, PR!IInv, PR!TypeOK, PR!Rows, PR!PaymentIds, PR!Goto, PR!Return, PR!Fail, PR!SaveColumns
<1>3. PR!Entities'
  BY DEF PR!Entities, PR!OneMaking, PR!OnePayment
<1>4. PR!OneMaking'
  BY DEF PR!Entities, PR!OneMaking, PR!OnePayment, PR!Supported, PR!OneMaker, PR!OneSigner
<1>5. PR!OnePayment'
  BY DEF PR!Entities, PR!OneMaking, PR!OnePayment
<1>6. PR!SignedOnce'
  BY DEF PR!Entities, PR!OneMaking, PR!OnePayment, PR!SignedOnce, PR!Supported, PR!OneMaker, PR!OneSigner
<1>7. PR!SentOnce'
  BY DEF PR!Entities, PR!OneMaking, PR!OnePayment, PR!SignedOnce, PR!SentOnce
<1>8. PR!AnswersAreTrue'
  BY DEF PR!Entities, PR!OneMaking, PR!OnePayment, PR!AnswersAreTrue
<1> QED BY <1>1, <1>2, <1>3, <1>4, <1>5, <1>6, <1>7, <1>8

\* createPayment repeats an attempt that failed or is a minute old.
LEMMA CreateTakesOverInv ==
  ASSUME PR!IInv, NEW c \in Requests, PR!CreateTakesOver(c)
  PROVE  PR!IInv'
<1>0. PR!TypeOK /\ v7[c].op \in PR!Rows /\ v2 \in PR!Rows /\ v1' = v1
  BY DEF PR!IInv, PR!TypeOK, PR!CreateTakesOver
<1>1. PR!TypeOK'
  <2>1. v7' \in [Requests -> [pc : PR!Pcs, op : PR!Rows]]
    BY <1>0, RowsAreUpdated, GotoKeepsShape, ReturnKeepsShape DEF PR!CreateTakesOver, PR!Fail, PR!Pcs, PR!TypeOK
  <2>2. v2' \in PR!Rows /\ v3' \in BOOLEAN
    BY <1>0, RowsAreUpdated, SaveKeepsShape DEF PR!CreateTakesOver, PR!TypeOK
  <2> QED BY <1>0, <2>1, <2>2 DEF PR!CreateTakesOver, PR!TypeOK
<1>2. PR!Supported(v1)'
  BY <1>0 DEF PR!IInv, PR!Supported, PR!Setup, PR!OneMaker, PR!OneSigner
<1> USE DEF PR!CreateTakesOver, PR!IInv, PR!TypeOK, PR!Rows, PR!PaymentIds, PR!Goto, PR!Return, PR!Fail, PR!SaveColumns
<1>3. PR!Entities'
  BY DEF PR!Entities, PR!OneMaking, PR!OnePayment
<1>4. PR!OneMaking'
  <2>1. \A d \in Requests : ~PR!Making(d)
    BY DEF PR!OneMaking, PR!Supported, PR!OneMaker
  <2> QED BY <2>1 DEF PR!Entities, PR!OneMaking, PR!OnePayment
<1>5. PR!OnePayment'
  BY DEF PR!Entities, PR!OneMaking, PR!OnePayment
<1>6. PR!SignedOnce'
  BY DEF PR!Entities, PR!OneMaking, PR!OnePayment, PR!SignedOnce, PR!Supported, PR!OneMaker, PR!OneSigner
<1>7. PR!SentOnce'
  BY DEF PR!Entities, PR!OneMaking, PR!OnePayment, PR!SignedOnce, PR!SentOnce
<1>8. PR!AnswersAreTrue'
  BY DEF PR!Entities, PR!OneMaking, PR!OnePayment, PR!AnswersAreTrue
<1> QED BY <1>1, <1>2, <1>3, <1>4, <1>5, <1>6, <1>7, <1>8

\* The unique index admits one creator.
LEMMA InsertOperationInv ==
  ASSUME PR!IInv, NEW c \in Requests, PR!InsertOperation(c)
  PROVE  PR!IInv'
<1>0. PR!TypeOK /\ v7[c].op \in PR!Rows /\ v2 \in PR!Rows /\ v1' = v1
  BY DEF PR!IInv, PR!TypeOK, PR!InsertOperation
<1>1. PR!TypeOK'
  <2>1. v7' \in [Requests -> [pc : PR!Pcs, op : PR!Rows]]
    BY <1>0, RowsAreUpdated, GotoKeepsShape, ReturnKeepsShape DEF PR!InsertOperation, PR!Fail, PR!Pcs, PR!TypeOK
  <2>2. v2' \in PR!Rows /\ v3' \in BOOLEAN
    BY <1>0, RowsAreUpdated, SaveKeepsShape DEF PR!InsertOperation, PR!TypeOK
  <2> QED BY <1>0, <2>1, <2>2 DEF PR!InsertOperation, PR!TypeOK
<1>2. PR!Supported(v1)'
  BY <1>0 DEF PR!IInv, PR!Supported, PR!Setup, PR!OneMaker, PR!OneSigner
<1> USE DEF PR!InsertOperation, PR!IInv, PR!TypeOK, PR!Rows, PR!PaymentIds, PR!Goto, PR!Return, PR!Fail, PR!SaveColumns
<1>3. PR!Entities'
  BY DEF PR!Entities, PR!OneMaking, PR!OnePayment
<1>4. PR!OneMaking'
  BY DEF PR!Entities, PR!OneMaking, PR!OnePayment, PR!Supported, PR!OneMaker, PR!OneSigner
<1>5. PR!OnePayment'
  BY DEF PR!Entities, PR!OneMaking, PR!OnePayment
<1>6. PR!SignedOnce'
  BY DEF PR!Entities, PR!OneMaking, PR!OnePayment, PR!SignedOnce, PR!Supported, PR!OneMaker, PR!OneSigner
<1>7. PR!SentOnce'
  BY DEF PR!Entities, PR!OneMaking, PR!OnePayment, PR!SignedOnce, PR!SentOnce
<1>8. PR!AnswersAreTrue'
  BY DEF PR!Entities, PR!OneMaking, PR!OnePayment, PR!AnswersAreTrue
<1> QED BY <1>1, <1>2, <1>3, <1>4, <1>5, <1>6, <1>7, <1>8

\* The repeated attempt is saved.
LEMMA RetakeOperationInv ==
  ASSUME PR!IInv, NEW c \in Requests, PR!RetakeOperation(c)
  PROVE  PR!IInv'
<1>0. PR!TypeOK /\ v7[c].op \in PR!Rows /\ v2 \in PR!Rows /\ v1' = v1
  BY DEF PR!IInv, PR!TypeOK, PR!RetakeOperation
<1>1. PR!TypeOK'
  <2>1. v7' \in [Requests -> [pc : PR!Pcs, op : PR!Rows]]
    BY <1>0, RowsAreUpdated, GotoKeepsShape, ReturnKeepsShape DEF PR!RetakeOperation, PR!Fail, PR!Pcs, PR!TypeOK
  <2>2. v2' \in PR!Rows /\ v3' \in BOOLEAN
    BY <1>0, RowsAreUpdated, SaveKeepsShape DEF PR!RetakeOperation, PR!TypeOK
  <2> QED BY <1>0, <2>1, <2>2 DEF PR!RetakeOperation, PR!TypeOK
<1>2. PR!Supported(v1)'
  BY <1>0 DEF PR!IInv, PR!Supported, PR!Setup, PR!OneMaker, PR!OneSigner
<1> USE DEF PR!RetakeOperation, PR!IInv, PR!TypeOK, PR!Rows, PR!PaymentIds, PR!Goto, PR!Return, PR!Fail, PR!SaveColumns
<1>3. PR!Entities'
  BY DEF PR!Entities, PR!OneMaking, PR!OnePayment
<1>4. PR!OneMaking'
  BY DEF PR!Entities, PR!OneMaking, PR!OnePayment, PR!Supported, PR!OneMaker, PR!OneSigner
<1>5. PR!OnePayment'
  BY DEF PR!Entities, PR!OneMaking, PR!OnePayment
<1>6. PR!SignedOnce'
  BY DEF PR!Entities, PR!OneMaking, PR!OnePayment, PR!SignedOnce, PR!Supported, PR!OneMaker, PR!OneSigner
<1>7. PR!SentOnce'
  BY DEF PR!Entities, PR!OneMaking, PR!OnePayment, PR!SignedOnce, PR!SentOnce
<1>8. PR!AnswersAreTrue'
  BY DEF PR!Entities, PR!OneMaking, PR!OnePayment, PR!AnswersAreTrue
<1> QED BY <1>1, <1>2, <1>3, <1>4, <1>5, <1>6, <1>7, <1>8

\* The processor answers with a payment.
LEMMA ProcessorCreatesInv ==
  ASSUME PR!IInv, NEW c \in Requests, PR!ProcessorCreates(c)
  PROVE  PR!IInv'
<1>0. PR!TypeOK /\ v7[c].op \in PR!Rows /\ v2 \in PR!Rows /\ v1' = v1
  BY DEF PR!IInv, PR!TypeOK, PR!ProcessorCreates
<1>1. PR!TypeOK'
  <2>1. v7' \in [Requests -> [pc : PR!Pcs, op : PR!Rows]]
    <3>1. v4 + 1 \in 0..MaxPayments
      BY <1>0, ServicesAssumption DEF PR!TypeOK, PR!ProcessorCreates
    <3>2. [v7[c].op EXCEPT !.state = "CREATED", !.pay = v4 + 1] \in PR!Rows
      BY <1>0, <3>1, RowsAreUpdated
    <3> QED BY <1>0, <3>2, GotoKeepsShape DEF PR!ProcessorCreates, PR!Pcs
  <2>2. v2' \in PR!Rows /\ v3' \in BOOLEAN
    BY <1>0, SaveKeepsShape DEF PR!ProcessorCreates, PR!TypeOK
  <2>3. v4' \in 0..MaxPayments
    BY <1>0, ServicesAssumption DEF PR!TypeOK, PR!ProcessorCreates
  <2> QED BY <1>0, <2>1, <2>2, <2>3 DEF PR!ProcessorCreates, PR!TypeOK
<1>2. PR!Supported(v1)'
  BY <1>0 DEF PR!IInv, PR!Supported, PR!Setup, PR!OneMaker, PR!OneSigner
<1> USE DEF PR!ProcessorCreates, PR!IInv, PR!TypeOK, PR!Rows, PR!PaymentIds, PR!Goto, PR!Return, PR!Fail, PR!SaveColumns
<1>3. PR!Entities'
  BY DEF PR!Entities, PR!OneMaking, PR!OnePayment
<1>4. PR!OneMaking'
  BY DEF PR!Entities, PR!OneMaking, PR!OnePayment, PR!Supported, PR!OneMaker, PR!OneSigner
<1>5. PR!OnePayment'
  BY DEF PR!Entities, PR!OneMaking, PR!OnePayment
<1>6. PR!SignedOnce'
  BY DEF PR!Entities, PR!OneMaking, PR!OnePayment, PR!SignedOnce, PR!Supported, PR!OneMaker, PR!OneSigner
<1>7. PR!SentOnce'
  BY DEF PR!Entities, PR!OneMaking, PR!OnePayment, PR!SignedOnce, PR!SentOnce
<1>8. PR!AnswersAreTrue'
  BY DEF PR!Entities, PR!OneMaking, PR!OnePayment, PR!AnswersAreTrue
<1> QED BY <1>1, <1>2, <1>3, <1>4, <1>5, <1>6, <1>7, <1>8

\* The payment is saved and returned.
LEMMA CheckpointCreatedInv ==
  ASSUME PR!IInv, NEW c \in Requests, PR!CheckpointCreated(c)
  PROVE  PR!IInv'
<1>0. PR!TypeOK /\ v7[c].op \in PR!Rows /\ v2 \in PR!Rows /\ v1' = v1
  BY DEF PR!IInv, PR!TypeOK, PR!CheckpointCreated
<1>1. PR!TypeOK'
  <2>1. v7' \in [Requests -> [pc : PR!Pcs, op : PR!Rows]]
    BY <1>0, RowsAreUpdated, GotoKeepsShape, ReturnKeepsShape DEF PR!CheckpointCreated, PR!Fail, PR!Pcs
  <2>2. v2' \in PR!Rows /\ v3' \in BOOLEAN
    BY <1>0, SaveKeepsShape DEF PR!CheckpointCreated, PR!TypeOK
  <2>3. v6' \subseteq PR!PaymentIds
    <3>1. v7[c].op.pay \in PR!PaymentIds
      BY <1>0, RowsAreUpdated, PaymentNumbers DEF PR!IInv, PR!Entities, PR!CheckpointCreated
    <3> QED BY <1>0, <3>1 DEF PR!TypeOK, PR!CheckpointCreated
  <2> QED BY <1>0, <2>1, <2>2, <2>3 DEF PR!CheckpointCreated, PR!TypeOK
<1>2. PR!Supported(v1)'
  BY <1>0 DEF PR!IInv, PR!Supported, PR!Setup, PR!OneMaker, PR!OneSigner
<1> USE DEF PR!CheckpointCreated, PR!IInv, PR!TypeOK, PR!Rows, PR!PaymentIds, PR!Goto, PR!Return, PR!Fail, PR!SaveColumns
<1>3. PR!Entities'
  BY DEF PR!Entities, PR!OneMaking, PR!OnePayment
<1>4. PR!OneMaking'
  BY DEF PR!Entities, PR!OneMaking, PR!OnePayment, PR!Supported, PR!OneMaker, PR!OneSigner
<1>5. PR!OnePayment'
  <2>1. v2.pay = 0 /\ v6 = {} /\ (\A p \in PR!PaymentIds : v8[p] = "none") /\ v7[c].op.signed = 0 /\ v7[c].op.pay # 0
    BY DEF PR!Entities, PR!OneMaking, PR!OnePayment
  <2>2. v2'.pay = v7[c].op.pay /\ v2'.signed = 0 /\ v6' = {v7[c].op.pay} /\ v8' = v8
    BY <2>1
  <2>3. v7'[c].pc = "idle" /\ \A d \in Requests : d # c => v7'[d] = v7[d]
    OBVIOUS
  <2>4. \A d \in Requests : d # c => v7[d].pc \notin PR!Submitting \union {"signing", "adopting", "failing"}
    BY <2>1 DEF PR!OneMaking, PR!OnePayment
  <2> QED BY <2>1, <2>2, <2>3, <2>4 DEF PR!OnePayment
<1>6. PR!SignedOnce'
  BY DEF PR!Entities, PR!OneMaking, PR!OnePayment, PR!SignedOnce, PR!Supported, PR!OneMaker, PR!OneSigner
<1>7. PR!SentOnce'
  BY DEF PR!Entities, PR!OneMaking, PR!OnePayment, PR!SignedOnce, PR!SentOnce
<1>8. PR!AnswersAreTrue'
  BY DEF PR!Entities, PR!OneMaking, PR!OnePayment, PR!AnswersAreTrue
<1> QED BY <1>1, <1>2, <1>3, <1>4, <1>5, <1>6, <1>7, <1>8

\* signTransaction signs what the row says.
LEMMA SignReadInv ==
  ASSUME PR!IInv, NEW c \in Requests, PR!SignRead(c)
  PROVE  PR!IInv'
<1>0. PR!TypeOK /\ v7[c].op \in PR!Rows /\ v2 \in PR!Rows /\ v1' = v1
  BY DEF PR!IInv, PR!TypeOK, PR!SignRead
<1>1. PR!TypeOK'
  <2>1. v7' \in [Requests -> [pc : PR!Pcs, op : PR!Rows]]
    BY <1>0, RowsAreUpdated, GotoKeepsShape, ReturnKeepsShape DEF PR!SignRead, PR!Fail, PR!Pcs, PR!TypeOK
  <2>2. v2' \in PR!Rows /\ v3' \in BOOLEAN
    BY <1>0, RowsAreUpdated, SaveKeepsShape DEF PR!SignRead, PR!TypeOK
  <2> QED BY <1>0, <2>1, <2>2 DEF PR!SignRead, PR!TypeOK
<1>2. PR!Supported(v1)'
  BY <1>0 DEF PR!IInv, PR!Supported, PR!Setup, PR!OneMaker, PR!OneSigner
<1> USE DEF PR!SignRead, PR!IInv, PR!TypeOK, PR!Rows, PR!PaymentIds, PR!Goto, PR!Return, PR!Fail, PR!SaveColumns
<1>3. PR!Entities'
  <2>1. v7'[c].pc = "signing" /\ v7'[c].op.state = "SIGNED" /\ v2.pay # 0
    OBVIOUS
  <2>2. UNCHANGED <<v1, v2, v8>> /\ \A d \in Requests : d # c => v7'[d] = v7[d]
    OBVIOUS
  <2> HIDE DEF PR!SignRead, PR!Goto
  <2> QED BY <2>1, <2>2 DEF PR!Entities
<1>4. PR!OneMaking'
  BY DEF PR!Entities, PR!OneMaking, PR!OnePayment, PR!Supported, PR!OneMaker, PR!OneSigner
<1>5. PR!OnePayment'
  BY DEF PR!Entities, PR!OneMaking, PR!OnePayment
<1>6. PR!SignedOnce'
  BY DEF PR!Entities, PR!OneMaking, PR!OnePayment, PR!SignedOnce, PR!Supported, PR!OneMaker, PR!OneSigner
<1>7. PR!SentOnce'
  BY DEF PR!Entities, PR!OneMaking, PR!OnePayment, PR!SignedOnce, PR!SentOnce
<1>8. PR!AnswersAreTrue'
  BY DEF PR!Entities, PR!OneMaking, PR!OnePayment, PR!AnswersAreTrue
<1> QED BY <1>1, <1>2, <1>3, <1>4, <1>5, <1>6, <1>7, <1>8

\* The signature is saved.
LEMMA SignSaveInv ==
  ASSUME PR!IInv, NEW c \in Requests, PR!SignSave(c)
  PROVE  PR!IInv'
<1>0. PR!TypeOK /\ v7[c].op \in PR!Rows /\ v2 \in PR!Rows /\ v1' = v1
  BY DEF PR!IInv, PR!TypeOK, PR!SignSave
<1>1. PR!TypeOK'
  <2>1. v7' \in [Requests -> [pc : PR!Pcs, op : PR!Rows]]
    BY <1>0, RowsAreUpdated, GotoKeepsShape, ReturnKeepsShape DEF PR!SignSave, PR!Fail, PR!Pcs, PR!TypeOK
  <2>2. v2' \in PR!Rows /\ v3' \in BOOLEAN
    BY <1>0, RowsAreUpdated, SaveKeepsShape DEF PR!SignSave, PR!TypeOK
  <2> QED BY <1>0, <2>1, <2>2 DEF PR!SignSave, PR!TypeOK
<1>2. PR!Supported(v1)'
  BY <1>0 DEF PR!IInv, PR!Supported, PR!Setup, PR!OneMaker, PR!OneSigner
<1> USE DEF PR!SignSave, PR!IInv, PR!TypeOK, PR!Rows, PR!PaymentIds, PR!Goto, PR!Return, PR!Fail, PR!SaveColumns
<1>3. PR!Entities'
  BY DEF PR!Entities, PR!OneMaking, PR!OnePayment
<1>4. PR!OneMaking'
  BY DEF PR!Entities, PR!OneMaking, PR!OnePayment, PR!Supported, PR!OneMaker, PR!OneSigner
<1>5. PR!OnePayment'
  BY DEF PR!Entities, PR!OneMaking, PR!OnePayment
<1>6. PR!SignedOnce'
  <2>1. ~PR!ClientSigns => \A d \in Requests : PR!At(d, "signing") => d = c
    <3>1. ~PR!ClientSigns => \A d \in Requests : PR!At(d, "signing") => "sign" \in v1.may[d]
      BY DEF PR!SignedOnce
    <3>2. PR!OneMaker(v1) \/ PR!OneSigner(v1)
      BY DEF PR!Supported
    <3>3. CASE PR!OneMaker(v1)
      BY <3>1, <3>3 DEF PR!OneMaker
    <3>4. CASE PR!OneSigner(v1)
      BY <3>1, <3>4 DEF PR!OneSigner
    <3> QED BY <3>2, <3>3, <3>4
  <2> QED BY <2>1 DEF PR!Entities, PR!OneMaking, PR!OnePayment, PR!SignedOnce
<1>7. PR!SentOnce'
  BY DEF PR!Entities, PR!OneMaking, PR!OnePayment, PR!SignedOnce, PR!SentOnce
<1>8. PR!AnswersAreTrue'
  BY DEF PR!Entities, PR!OneMaking, PR!OnePayment, PR!AnswersAreTrue
<1> QED BY <1>1, <1>2, <1>3, <1>4, <1>5, <1>6, <1>7, <1>8

\* submitTransaction takes a client's signature.
LEMMA SubmitAdoptsSignatureInv ==
  ASSUME PR!IInv, NEW c \in Requests, PR!SubmitAdoptsSignature(c)
  PROVE  PR!IInv'
<1>0. PR!TypeOK /\ v7[c].op \in PR!Rows /\ v2 \in PR!Rows /\ v1' = v1
  BY DEF PR!IInv, PR!TypeOK, PR!SubmitAdoptsSignature
<1>1. PR!TypeOK'
  <2>1. v7' \in [Requests -> [pc : PR!Pcs, op : PR!Rows]]
    BY <1>0, RowsAreUpdated, GotoKeepsShape, ReturnKeepsShape DEF PR!SubmitAdoptsSignature, PR!Fail, PR!Pcs, PR!TypeOK
  <2>2. v2' \in PR!Rows /\ v3' \in BOOLEAN
    BY <1>0, RowsAreUpdated, SaveKeepsShape DEF PR!SubmitAdoptsSignature, PR!TypeOK
  <2> QED BY <1>0, <2>1, <2>2 DEF PR!SubmitAdoptsSignature, PR!TypeOK
<1>2. PR!Supported(v1)'
  BY <1>0 DEF PR!IInv, PR!Supported, PR!Setup, PR!OneMaker, PR!OneSigner
<1> USE DEF PR!SubmitAdoptsSignature, PR!IInv, PR!TypeOK, PR!Rows, PR!PaymentIds, PR!Goto, PR!Return, PR!Fail, PR!SaveColumns
<1>3. PR!Entities'
  BY DEF PR!Entities, PR!OneMaking, PR!OnePayment
<1>4. PR!OneMaking'
  BY DEF PR!Entities, PR!OneMaking, PR!OnePayment, PR!Supported, PR!OneMaker, PR!OneSigner
<1>5. PR!OnePayment'
  BY DEF PR!Entities, PR!OneMaking, PR!OnePayment
<1>6. PR!SignedOnce'
  BY DEF PR!Entities, PR!OneMaking, PR!OnePayment, PR!SignedOnce, PR!Supported, PR!OneMaker, PR!OneSigner
<1>7. PR!SentOnce'
  BY DEF PR!Entities, PR!OneMaking, PR!OnePayment, PR!SignedOnce, PR!SentOnce
<1>8. PR!AnswersAreTrue'
  BY DEF PR!Entities, PR!OneMaking, PR!OnePayment, PR!AnswersAreTrue
<1> QED BY <1>1, <1>2, <1>3, <1>4, <1>5, <1>6, <1>7, <1>8

\* The client's signature is saved.
LEMMA AdoptSignatureInv ==
  ASSUME PR!IInv, NEW c \in Requests, PR!AdoptSignature(c)
  PROVE  PR!IInv'
<1>0. PR!TypeOK /\ v7[c].op \in PR!Rows /\ v2 \in PR!Rows /\ v1' = v1
  BY DEF PR!IInv, PR!TypeOK, PR!AdoptSignature
<1>1. PR!TypeOK'
  <2>1. v7' \in [Requests -> [pc : PR!Pcs, op : PR!Rows]]
    BY <1>0, RowsAreUpdated, GotoKeepsShape, ReturnKeepsShape DEF PR!AdoptSignature, PR!Fail, PR!Pcs, PR!TypeOK
  <2>2. v2' \in PR!Rows /\ v3' \in BOOLEAN
    BY <1>0, RowsAreUpdated, SaveKeepsShape DEF PR!AdoptSignature, PR!TypeOK
  <2> QED BY <1>0, <2>1, <2>2 DEF PR!AdoptSignature, PR!TypeOK
<1>2. PR!Supported(v1)'
  BY <1>0 DEF PR!IInv, PR!Supported, PR!Setup, PR!OneMaker, PR!OneSigner
<1> USE DEF PR!AdoptSignature, PR!IInv, PR!TypeOK, PR!Rows, PR!PaymentIds, PR!Goto, PR!Return, PR!Fail, PR!SaveColumns
<1>3. PR!Entities'
  BY DEF PR!Entities, PR!OneMaking, PR!OnePayment
<1>4. PR!OneMaking'
  BY DEF PR!Entities, PR!OneMaking, PR!OnePayment, PR!Supported, PR!OneMaker, PR!OneSigner
<1>5. PR!OnePayment'
  BY DEF PR!Entities, PR!OneMaking, PR!OnePayment
<1>6. PR!SignedOnce'
  BY DEF PR!Entities, PR!OneMaking, PR!OnePayment, PR!SignedOnce, PR!Supported, PR!OneMaker, PR!OneSigner
<1>7. PR!SentOnce'
  BY DEF PR!Entities, PR!OneMaking, PR!OnePayment, PR!SignedOnce, PR!SentOnce
<1>8. PR!AnswersAreTrue'
  BY DEF PR!Entities, PR!OneMaking, PR!OnePayment, PR!AnswersAreTrue
<1> QED BY <1>1, <1>2, <1>3, <1>4, <1>5, <1>6, <1>7, <1>8

\* submitTransaction reads the row.
LEMMA SubmitReadInv ==
  ASSUME PR!IInv, NEW c \in Requests, PR!SubmitRead(c)
  PROVE  PR!IInv'
<1>0. PR!TypeOK /\ v7[c].op \in PR!Rows /\ v2 \in PR!Rows /\ v1' = v1
  BY DEF PR!IInv, PR!TypeOK, PR!SubmitRead
<1>1. PR!TypeOK'
  <2>1. v7' \in [Requests -> [pc : PR!Pcs, op : PR!Rows]]
    BY <1>0, RowsAreUpdated, GotoKeepsShape, ReturnKeepsShape DEF PR!SubmitRead, PR!Fail, PR!Pcs, PR!TypeOK
  <2>2. v2' \in PR!Rows /\ v3' \in BOOLEAN
    BY <1>0, RowsAreUpdated, SaveKeepsShape DEF PR!SubmitRead, PR!TypeOK
  <2> QED BY <1>0, <2>1, <2>2 DEF PR!SubmitRead, PR!TypeOK
<1>2. PR!Supported(v1)'
  BY <1>0 DEF PR!IInv, PR!Supported, PR!Setup, PR!OneMaker, PR!OneSigner
<1> USE DEF PR!SubmitRead, PR!IInv, PR!TypeOK, PR!Rows, PR!PaymentIds, PR!Goto, PR!Return, PR!Fail, PR!SaveColumns
<1>3. PR!Entities'
  BY DEF PR!Entities, PR!OneMaking, PR!OnePayment
<1>4. PR!OneMaking'
  BY DEF PR!Entities, PR!OneMaking, PR!OnePayment, PR!Supported, PR!OneMaker, PR!OneSigner
<1>5. PR!OnePayment'
  BY DEF PR!Entities, PR!OneMaking, PR!OnePayment
<1>6. PR!SignedOnce'
  BY DEF PR!Entities, PR!OneMaking, PR!OnePayment, PR!SignedOnce, PR!Supported, PR!OneMaker, PR!OneSigner
<1>7. PR!SentOnce'
  BY DEF PR!Entities, PR!OneMaking, PR!OnePayment, PR!SignedOnce, PR!SentOnce
<1>8. PR!AnswersAreTrue'
  BY DEF PR!Entities, PR!OneMaking, PR!OnePayment, PR!AnswersAreTrue
<1> QED BY <1>1, <1>2, <1>3, <1>4, <1>5, <1>6, <1>7, <1>8

\* The processor answers something other than PENDING.
LEMMA StatusFinalInv ==
  ASSUME PR!IInv, NEW c \in Requests, PR!StatusFinal(c)
  PROVE  PR!IInv'
<1>0. PR!TypeOK /\ v7[c].op \in PR!Rows /\ v2 \in PR!Rows /\ v1' = v1
  BY DEF PR!IInv, PR!TypeOK, PR!StatusFinal
<1>1. PR!TypeOK'
  <2>1. v7' \in [Requests -> [pc : PR!Pcs, op : PR!Rows]]
    <3>1. v7[c].op.pay \in PR!PaymentIds
      <4>1. v7[c].op.pay \in 0..MaxPayments
        BY <1>0, RowsAreUpdated
      <4>2. v7[c].op.pay # 0
        BY DEF PR!IInv, PR!OnePayment, PR!StatusFinal
      <4> QED BY <4>1, <4>2, ServicesAssumption DEF PR!PaymentIds
    <3>2. v8[v7[c].op.pay] \in PR!Verdicts
      BY <1>0, <3>1 DEF PR!TypeOK
    <3> QED BY <1>0, <3>2, RowsAreUpdated, GotoKeepsShape DEF PR!StatusFinal, PR!Pcs
  <2>2. v2' \in PR!Rows /\ v3' \in BOOLEAN
    BY <1>0, RowsAreUpdated, SaveKeepsShape DEF PR!StatusFinal, PR!TypeOK
  <2> QED BY <1>0, <2>1, <2>2 DEF PR!StatusFinal, PR!TypeOK
<1>2. PR!Supported(v1)'
  BY <1>0 DEF PR!IInv, PR!Supported, PR!Setup, PR!OneMaker, PR!OneSigner
<1> USE DEF PR!StatusFinal, PR!IInv, PR!TypeOK, PR!Rows, PR!PaymentIds, PR!Goto, PR!Return, PR!Fail, PR!SaveColumns
<1>3. PR!Entities'
  BY DEF PR!Entities, PR!OneMaking, PR!OnePayment
<1>4. PR!OneMaking'
  BY DEF PR!Entities, PR!OneMaking, PR!OnePayment, PR!Supported, PR!OneMaker, PR!OneSigner
<1>5. PR!OnePayment'
  BY DEF PR!Entities, PR!OneMaking, PR!OnePayment
<1>6. PR!SignedOnce'
  BY DEF PR!Entities, PR!OneMaking, PR!OnePayment, PR!SignedOnce, PR!Supported, PR!OneMaker, PR!OneSigner
<1>7. PR!SentOnce'
  BY DEF PR!Entities, PR!OneMaking, PR!OnePayment, PR!SignedOnce, PR!SentOnce
<1>8. PR!AnswersAreTrue'
  BY DEF PR!Entities, PR!OneMaking, PR!OnePayment, PR!AnswersAreTrue
<1> QED BY <1>1, <1>2, <1>3, <1>4, <1>5, <1>6, <1>7, <1>8

\* The repeated submission is saved.
LEMMA ReclaimInv ==
  ASSUME PR!IInv, NEW c \in Requests, PR!Reclaim(c)
  PROVE  PR!IInv'
<1>0. PR!TypeOK /\ v7[c].op \in PR!Rows /\ v2 \in PR!Rows /\ v1' = v1
  BY DEF PR!IInv, PR!TypeOK, PR!Reclaim
<1>1. PR!TypeOK'
  <2>1. v7' \in [Requests -> [pc : PR!Pcs, op : PR!Rows]]
    BY <1>0, RowsAreUpdated, GotoKeepsShape, ReturnKeepsShape DEF PR!Reclaim, PR!Fail, PR!Pcs, PR!TypeOK
  <2>2. v2' \in PR!Rows /\ v3' \in BOOLEAN
    BY <1>0, RowsAreUpdated, SaveKeepsShape DEF PR!Reclaim, PR!TypeOK
  <2> QED BY <1>0, <2>1, <2>2 DEF PR!Reclaim, PR!TypeOK
<1>2. PR!Supported(v1)'
  BY <1>0 DEF PR!IInv, PR!Supported, PR!Setup, PR!OneMaker, PR!OneSigner
<1> USE DEF PR!Reclaim, PR!IInv, PR!TypeOK, PR!Rows, PR!PaymentIds, PR!Goto, PR!Return, PR!Fail, PR!SaveColumns
<1>3. PR!Entities'
  BY DEF PR!Entities, PR!OneMaking, PR!OnePayment
<1>4. PR!OneMaking'
  BY DEF PR!Entities, PR!OneMaking, PR!OnePayment, PR!Supported, PR!OneMaker, PR!OneSigner
<1>5. PR!OnePayment'
  BY DEF PR!Entities, PR!OneMaking, PR!OnePayment
<1>6. PR!SignedOnce'
  BY DEF PR!Entities, PR!OneMaking, PR!OnePayment, PR!SignedOnce, PR!Supported, PR!OneMaker, PR!OneSigner
<1>7. PR!SentOnce'
  BY DEF PR!Entities, PR!OneMaking, PR!OnePayment, PR!SignedOnce, PR!SentOnce
<1>8. PR!AnswersAreTrue'
  BY DEF PR!Entities, PR!OneMaking, PR!OnePayment, PR!AnswersAreTrue
<1> QED BY <1>1, <1>2, <1>3, <1>4, <1>5, <1>6, <1>7, <1>8

\* The conditional UPDATE admits one submission.
LEMMA ClaimInv ==
  ASSUME PR!IInv, NEW c \in Requests, PR!Claim(c)
  PROVE  PR!IInv'
<1>0. PR!TypeOK /\ v7[c].op \in PR!Rows /\ v2 \in PR!Rows /\ v1' = v1
  BY DEF PR!IInv, PR!TypeOK, PR!Claim
<1>1. PR!TypeOK'
  <2>1. v7' \in [Requests -> [pc : PR!Pcs, op : PR!Rows]]
    BY <1>0, RowsAreUpdated, GotoKeepsShape, ReturnKeepsShape DEF PR!Claim, PR!Fail, PR!Pcs, PR!TypeOK
  <2>2. v2' \in PR!Rows /\ v3' \in BOOLEAN
    BY <1>0, RowsAreUpdated, SaveKeepsShape DEF PR!Claim, PR!TypeOK
  <2> QED BY <1>0, <2>1, <2>2 DEF PR!Claim, PR!TypeOK
<1>2. PR!Supported(v1)'
  BY <1>0 DEF PR!IInv, PR!Supported, PR!Setup, PR!OneMaker, PR!OneSigner
<1> USE DEF PR!Claim, PR!IInv, PR!TypeOK, PR!Rows, PR!PaymentIds, PR!Goto, PR!Return, PR!Fail, PR!SaveColumns
<1>3. PR!Entities'
  BY DEF PR!Entities, PR!OneMaking, PR!OnePayment
<1>4. PR!OneMaking'
  BY DEF PR!Entities, PR!OneMaking, PR!OnePayment, PR!Supported, PR!OneMaker, PR!OneSigner
<1>5. PR!OnePayment'
  BY DEF PR!Entities, PR!OneMaking, PR!OnePayment
<1>6. PR!SignedOnce'
  BY DEF PR!Entities, PR!OneMaking, PR!OnePayment, PR!SignedOnce, PR!Supported, PR!OneMaker, PR!OneSigner
<1>7. PR!SentOnce'
  <2>1. ~PR!SafeRetry => ~PR!ClientSigns
    BY DEF PR!Supported
  <2>2. ~PR!SafeRetry => v8[v2.pay] = "none" /\ \A d \in Requests : ~PR!At(d, "sending")
    BY <2>1 DEF PR!SignedOnce, PR!OnePayment
  <2> QED BY <2>1, <2>2 DEF PR!OnePayment, PR!SentOnce
<1>8. PR!AnswersAreTrue'
  BY DEF PR!Entities, PR!OneMaking, PR!OnePayment, PR!AnswersAreTrue
<1> QED BY <1>1, <1>2, <1>3, <1>4, <1>5, <1>6, <1>7, <1>8

\* The processor answers, whatever it has decided.
LEMMA SendInv ==
  ASSUME PR!IInv, NEW c \in Requests, PR!Send(c)
  PROVE  PR!IInv'
<1> DEFINE p == v2.pay
<1>0. PR!TypeOK /\ v7[c].op \in PR!Rows /\ v2 \in PR!Rows /\ UNCHANGED <<v1, v2, v3, v4, v6>>
  BY DEF PR!IInv, PR!TypeOK, PR!Send
<1>a. v7[c].pc = "sending" /\ p # 0 /\ v7[c].op.pay = p /\ v7[c].op.signed = p /\ p \in PR!PaymentIds
  BY <1>0, RowsAreUpdated, PaymentNumbers DEF PR!Send, PR!IInv, PR!OnePayment
<1> PICK v \in PR!Answers :
      PR!Decide(p, v) /\ PR!Goto(c, "recording", [v7[c].op EXCEPT !.state = "SUBMITTED", !.answer = v])
  BY <1>a DEF PR!Send
<1>b. /\ v5' \in [PR!PaymentIds -> Nat] /\ v8' \in [PR!PaymentIds -> PR!Verdicts]
      /\ v8[p] \in {"none", "open", v} /\ v8'[p] = v /\ v \in {"open", "refused", "accepted"}
      /\ \A q \in PR!PaymentIds : q # p => v8'[q] = v8[q] /\ v5'[q] = v5[q]
      /\ \A q \in PR!PaymentIds : v5'[q] <= 1 /\ (v5'[q] > 0 <=> v8'[q] = "accepted")
  <2>1. v1.safe \/ v8[p] = "none"
    BY <1>a DEF PR!IInv, PR!SentOnce
  <2> QED BY <1>a, <2>1, DecideFacts
<1>1. PR!TypeOK'
  <2>1. v7' \in [Requests -> [pc : PR!Pcs, op : PR!Rows]]
    BY <1>0, RowsAreUpdated, GotoKeepsShape DEF PR!Pcs
  <2> QED BY <1>0, <1>b, <2>1 DEF PR!TypeOK
<1>c. /\ v7'[c].pc = "recording"
      /\ v7'[c].op.pay = p /\ v7'[c].op.signed = p /\ v7'[c].op.state = "SUBMITTED" /\ v7'[c].op.answer = v
      /\ \A d \in Requests : d # c => v7'[d] = v7[d]
  BY <1>0, <1>a DEF PR!Goto, PR!TypeOK, PR!Rows
<1>2. PR!Supported(v1)'
  BY <1>0 DEF PR!IInv, PR!Supported, PR!Setup, PR!OneMaker, PR!OneSigner
<1> USE DEF PR!IInv
<1> HIDE DEF p
<1>3. PR!Entities'
  <2>1. \A d \in Requests : d # c => v7'[d] = v7[d] /\ (PR!Making(d)' <=> PR!Making(d))
    BY <1>0, <1>c
  <2>2. ~PR!Making(c)'
    BY <1>0, <1>a, <1>c DEF p
  <2>3. \A d \in Requests : v7[d].pc \in {"confirming", "recording"} => v7[d].op.pay = p /\ v8'[p] # "none"
    BY <1>b DEF PR!OnePayment, p
  <2>4. \A d \in Requests : d # c =>
          /\ PR!At(d, "inserting")' => "create" \in (v1.may[d])'
          /\ PR!Making(d)' => v7'[d].op.signed = 0
          /\ v7'[d].pc \in {"retaking", "creating"} => v7'[d].op.pay = 0 /\ v7'[d].op.state = "CREATING"
          /\ v7'[d].pc = "checkpointing" => v7'[d].op.pay # 0 /\ v7'[d].op.state = "CREATED"
          /\ v7'[d].pc = "failing" => v7'[d].op.state = "RECOVERY_REQUIRED" /\ PR!Disturbed' # {}
          /\ v7'[d].pc \in {"signing", "adopting"} => v7'[d].op.state = "SIGNED"
          /\ v7'[d].pc \in {"reclaiming", "sending"} => v7'[d].op.state = "SUBMITTING"
          /\ v7'[d].pc \in {"confirming", "recording"} =>
                v7'[d].op.state = "SUBMITTED" /\ v8'[v7'[d].op.pay] # "none" /\ v7'[d].op.answer # "none"
    BY <1>0, <2>1, <2>3 DEF PR!Entities
  <2> QED BY <1>0, <1>b, <1>c, <2>2, <2>4 DEF PR!Entities
<1>4. PR!OneMaking'
  BY <1>0, <1>a, <1>b, <1>c DEF PR!Entities, PR!OneMaking, PR!OnePayment
<1>5. PR!OnePayment'
  <2>1. v2'.pay = p /\ v2.signed = p /\ v2'.signed = p /\ v6' \subseteq {p} \ {0}
    BY <1>0, <1>a DEF PR!OnePayment, p
  <2>2. \A q \in PR!PaymentIds : v8'[q] # "none" => q = p
    BY <1>b DEF PR!OnePayment, p
  <2>3. \A d \in Requests : d # c =>
          (v7[d].pc \in PR!Submitting \union {"signing", "adopting", "failing"} => v7[d].op.pay = p /\ v7[d].op.signed = p)
    BY <1>a DEF PR!OnePayment, p
  <2> QED BY <1>a, <1>c, <2>1, <2>2, <2>3 DEF PR!OnePayment
<1>6. PR!SignedOnce'
  BY <1>0, <1>a, <1>b, <1>c DEF PR!Entities, PR!OneMaking, PR!OnePayment, PR!SignedOnce
<1>7. PR!SentOnce'
  BY <1>0, <1>a, <1>b, <1>c DEF PR!OnePayment, PR!SentOnce
<1>8. PR!AnswersAreTrue'
  <2>1. \A d \in Requests : v7[d].op.pay # 0 => v7[d].op.pay \in PR!PaymentIds
    BY RowsAreUpdated, PaymentNumbers DEF PR!TypeOK
  <2>2. \A r : PR!Truthful(r) /\ (r.pay # 0 => r.pay \in PR!PaymentIds) => PR!Truthful(r)'
    BY <1>b
  <2>3. PR!Truthful(v2)' /\ \A d \in Requests : d # c => PR!Truthful(v7[d].op)'
    BY <1>0, <1>a, <1>c, <2>1, <2>2 DEF PR!AnswersAreTrue, p
  <2>4. PR!Truthful(v7[c].op)'
    BY <1>0, <1>a, <1>b, <1>c, <2>1, <2>2 DEF PR!AnswersAreTrue
  <2> QED BY <1>0, <1>a, <1>b, <2>3, <2>4 DEF PR!AnswersAreTrue, p
<1> QED BY <1>1, <1>2, <1>3, <1>4, <1>5, <1>6, <1>7, <1>8

\* The processor's answer is lost.
LEMMA SendAnswerLostInv ==
  ASSUME PR!IInv, NEW c \in Requests, PR!SendAnswerLost(c)
  PROVE  PR!IInv'
<1> DEFINE p == v2.pay
<1>0. PR!TypeOK /\ v7[c].op \in PR!Rows /\ v2 \in PR!Rows /\ UNCHANGED <<v1, v2, v3, v4, v6>> /\ PR!Disturbed # {}
  BY DEF PR!IInv, PR!TypeOK, PR!SendAnswerLost
<1>a. v7[c].pc = "sending" /\ p # 0 /\ v7[c].op.pay = p /\ v7[c].op.signed = p /\ p \in PR!PaymentIds
  BY <1>0, RowsAreUpdated, PaymentNumbers DEF PR!SendAnswerLost, PR!IInv, PR!OnePayment
<1> PICK v \in PR!Answers : PR!Decide(p, v) /\ PR!Fail(c)
  BY <1>a DEF PR!SendAnswerLost
<1>b. /\ v5' \in [PR!PaymentIds -> Nat] /\ v8' \in [PR!PaymentIds -> PR!Verdicts]
      /\ v8[p] \in {"none", "open", v} /\ v8'[p] = v /\ v \in {"open", "refused", "accepted"}
      /\ \A q \in PR!PaymentIds : q # p => v8'[q] = v8[q] /\ v5'[q] = v5[q]
      /\ \A q \in PR!PaymentIds : v5'[q] <= 1 /\ (v5'[q] > 0 <=> v8'[q] = "accepted")
  <2>1. v1.safe \/ v8[p] = "none"
    BY <1>a DEF PR!IInv, PR!SentOnce
  <2> QED BY <1>a, <2>1, DecideFacts
<1>1. PR!TypeOK'
  <2>1. v7' \in [Requests -> [pc : PR!Pcs, op : PR!Rows]]
    BY <1>0, RowsAreUpdated, GotoKeepsShape DEF PR!Fail, PR!Pcs
  <2> QED BY <1>0, <1>b, <2>1 DEF PR!TypeOK
<1>c. /\ v7'[c].pc = "failing"
      /\ v7'[c].op.pay = p /\ v7'[c].op.signed = p /\ v7'[c].op.state = "RECOVERY_REQUIRED"
      /\ v7'[c].op.answer = v7[c].op.answer
      /\ \A d \in Requests : d # c => v7'[d] = v7[d]
  BY <1>0, <1>a DEF PR!Fail, PR!Goto, PR!TypeOK, PR!Rows
<1>2. PR!Supported(v1)'
  BY <1>0 DEF PR!IInv, PR!Supported, PR!Setup, PR!OneMaker, PR!OneSigner
<1> USE DEF PR!IInv
<1> HIDE DEF p
<1>3. PR!Entities'
  <2>1. \A d \in Requests : d # c => v7'[d] = v7[d] /\ (PR!Making(d)' <=> PR!Making(d))
    BY <1>0, <1>c
  <2>2. ~PR!Making(c)'
    BY <1>0, <1>a, <1>c DEF p
  <2>3. \A d \in Requests : v7[d].pc \in {"confirming", "recording"} => v7[d].op.pay = p /\ v8'[p] # "none"
    BY <1>b DEF PR!OnePayment, p
  <2>4. \A d \in Requests : d # c =>
          /\ PR!At(d, "inserting")' => "create" \in (v1.may[d])'
          /\ PR!Making(d)' => v7'[d].op.signed = 0
          /\ v7'[d].pc \in {"retaking", "creating"} => v7'[d].op.pay = 0 /\ v7'[d].op.state = "CREATING"
          /\ v7'[d].pc = "checkpointing" => v7'[d].op.pay # 0 /\ v7'[d].op.state = "CREATED"
          /\ v7'[d].pc = "failing" => v7'[d].op.state = "RECOVERY_REQUIRED" /\ PR!Disturbed' # {}
          /\ v7'[d].pc \in {"signing", "adopting"} => v7'[d].op.state = "SIGNED"
          /\ v7'[d].pc \in {"reclaiming", "sending"} => v7'[d].op.state = "SUBMITTING"
          /\ v7'[d].pc \in {"confirming", "recording"} =>
                v7'[d].op.state = "SUBMITTED" /\ v8'[v7'[d].op.pay] # "none" /\ v7'[d].op.answer # "none"
    BY <1>0, <2>1, <2>3 DEF PR!Entities
  <2> QED BY <1>0, <1>b, <1>c, <2>2, <2>4 DEF PR!Entities
<1>4. PR!OneMaking'
  BY <1>0, <1>a, <1>b, <1>c DEF PR!Entities, PR!OneMaking, PR!OnePayment
<1>5. PR!OnePayment'
  <2>1. v2'.pay = p /\ v2.signed = p /\ v2'.signed = p /\ v6' \subseteq {p} \ {0}
    BY <1>0, <1>a DEF PR!OnePayment, p
  <2>2. \A q \in PR!PaymentIds : v8'[q] # "none" => q = p
    BY <1>b DEF PR!OnePayment, p
  <2>3. \A d \in Requests : d # c =>
          (v7[d].pc \in PR!Submitting \union {"signing", "adopting", "failing"} => v7[d].op.pay = p /\ v7[d].op.signed = p)
    BY <1>a DEF PR!OnePayment, p
  <2> QED BY <1>a, <1>c, <2>1, <2>2, <2>3 DEF PR!OnePayment
<1>6. PR!SignedOnce'
  BY <1>0, <1>a, <1>b, <1>c DEF PR!Entities, PR!OneMaking, PR!OnePayment, PR!SignedOnce
<1>7. PR!SentOnce'
  BY <1>0, <1>a, <1>b, <1>c DEF PR!OnePayment, PR!SentOnce
<1>8. PR!AnswersAreTrue'
  <2>1. \A d \in Requests : v7[d].op.pay # 0 => v7[d].op.pay \in PR!PaymentIds
    BY RowsAreUpdated, PaymentNumbers DEF PR!TypeOK
  <2>2. \A r : PR!Truthful(r) /\ (r.pay # 0 => r.pay \in PR!PaymentIds) => PR!Truthful(r)'
    BY <1>b
  <2>3. PR!Truthful(v2)' /\ \A d \in Requests : d # c => PR!Truthful(v7[d].op)'
    BY <1>0, <1>a, <1>c, <2>1, <2>2 DEF PR!AnswersAreTrue, p
  <2>4. PR!Truthful(v7[c].op)'
    BY <1>0, <1>a, <1>b, <1>c, <2>1, <2>2 DEF PR!AnswersAreTrue
  <2> QED BY <1>0, <1>a, <1>b, <2>3, <2>4 DEF PR!AnswersAreTrue, p
<1> QED BY <1>1, <1>2, <1>3, <1>4, <1>5, <1>6, <1>7, <1>8

\* The processor decides about a payment that it had left open.
LEMMA DecideOpenInv ==
  ASSUME PR!IInv, NEW p \in PR!PaymentIds, PR!DecideOpen(p)
  PROVE  PR!IInv'
<1>0. PR!TypeOK /\ v2 \in PR!Rows /\ UNCHANGED <<v1, v2, v3, v4, v6, v7>> /\ v8[p] = "open"
  BY DEF PR!IInv, PR!TypeOK, PR!DecideOpen
<1> PICK v \in PR!Answers : PR!Decide(p, v)
  BY DEF PR!DecideOpen, PR!Answers
<1>b. /\ v5' \in [PR!PaymentIds -> Nat] /\ v8' \in [PR!PaymentIds -> PR!Verdicts]
      /\ v8'[p] = v /\ v \in {"open", "refused", "accepted"}
      /\ \A q \in PR!PaymentIds : q # p => v8'[q] = v8[q] /\ v5'[q] = v5[q]
      /\ \A q \in PR!PaymentIds : v5'[q] <= 1 /\ (v5'[q] > 0 <=> v8'[q] = "accepted")
  BY <1>0, DecideFacts
<1>c. p = v2.pay
  BY <1>0 DEF PR!IInv, PR!OnePayment
<1>1. PR!TypeOK'
  BY <1>0, <1>b DEF PR!TypeOK
<1>2. PR!Supported(v1)'
  BY <1>0 DEF PR!IInv, PR!Supported, PR!Setup, PR!OneMaker, PR!OneSigner
<1> USE DEF PR!IInv
<1>3. PR!Entities'
  BY <1>0, <1>b, <1>c DEF PR!Entities, PR!OneMaking, PR!OnePayment
<1>4. PR!OneMaking'
  BY <1>0, <1>b, <1>c DEF PR!Entities, PR!OneMaking, PR!OnePayment
<1>5. PR!OnePayment'
  BY <1>0, <1>b, <1>c DEF PR!Entities, PR!OneMaking, PR!OnePayment
<1>6. PR!SignedOnce'
  BY <1>0, <1>b, <1>c DEF PR!Entities, PR!OneMaking, PR!OnePayment, PR!SignedOnce
<1>7. PR!SentOnce'
  BY <1>0, <1>b, <1>c DEF PR!OnePayment, PR!SentOnce
<1>8. PR!AnswersAreTrue'
  <2>1. \A d \in Requests : v7[d].op.pay # 0 => v7[d].op.pay \in PR!PaymentIds
    BY RowsAreUpdated, PaymentNumbers DEF PR!TypeOK
  <2>2. \A r : PR!Truthful(r) /\ (r.pay # 0 => r.pay \in PR!PaymentIds) => PR!Truthful(r)'
    BY <1>0, <1>b
  <2>3. PR!Truthful(v2)' /\ \A d \in Requests : PR!Truthful(v7[d].op)'
    BY <1>0, <1>c, <2>1, <2>2 DEF PR!AnswersAreTrue
  <2> QED BY <1>0, <1>b, <1>c, <2>3 DEF PR!AnswersAreTrue
<1> QED BY <1>1, <1>2, <1>3, <1>4, <1>5, <1>6, <1>7, <1>8

\* Once a minute has passed an attempt may be repeated: not where nothing fails.
LEMMA MinutePassesInv ==
  ASSUME PR!IInv, PR!MinutePasses
  PROVE  PR!IInv'
<1> USE DEF PR!MinutePasses, PR!IInv
<1>1. PR!TypeOK' /\ PR!Supported(v1)'
  BY DEF PR!TypeOK, PR!Supported, PR!Setup, PR!OneMaker, PR!OneSigner
<1>2. PR!Entities' /\ PR!OneMaking'
  BY DEF PR!Entities, PR!OneMaking
<1>3. PR!OnePayment' /\ PR!SignedOnce' /\ PR!SentOnce' /\ PR!AnswersAreTrue'
  BY DEF PR!OnePayment, PR!SignedOnce, PR!SentOnce, PR!AnswersAreTrue
<1> QED BY <1>1, <1>2, <1>3

LEMMA PaymentsInit == PR!Init => PR!IInv
<1> SUFFICES ASSUME PR!Init PROVE PR!IInv
  OBVIOUS
<1>1. PR!TypeOK
  <2>1. PR!Idle \in [pc : PR!Pcs, op : PR!Rows]
    BY RowsAreUpdated DEF PR!Pcs
  <2> QED BY <2>1, RowsAreUpdated, ServicesAssumption DEF PR!Init, PR!TypeOK
<1>2. PR!Supported(v1)
  BY DeploymentAssumption DEF PR!Init
<1>3. PR!Entities /\ PR!OneMaking
  BY DEF PR!Init, PR!Entities, PR!OneMaking
<1>4. PR!OnePayment /\ PR!SignedOnce /\ PR!SentOnce /\ PR!AnswersAreTrue
  BY DEF PR!Init, PR!OnePayment, PR!SignedOnce, PR!SentOnce, PR!AnswersAreTrue
<1> QED BY <1>1, <1>2, <1>3, <1>4 DEF PR!IInv

LEMMA PaymentsStep ==
  ASSUME PR!IInv, PR!Next
  PROVE  PR!IInv'
<1>1. CASE PR!MinutePasses
  BY <1>1, MinutePassesInv
<1>2. ASSUME NEW c \in Requests, PR!Create(c)
      PROVE  PR!IInv'
  <2>1. CASE PR!InsertLosesRace(c)
    BY <2>1, ReturnsInv DEF PR!InsertLosesRace, PR!IInv, PR!OnePayment
  <2>2. CASE PR!CreateFails(c)
    BY <2>2, FailsInv DEF PR!CreateFails
  <2>3. CASE PR!SaveRecoveryRequired(c)
    BY <2>3, SavesOutcomeInv DEF PR!SaveRecoveryRequired
  <2> QED BY <1>2, <2>1, <2>2, <2>3, CreateReturnsSavedInv, CreateFindsNothingInv, CreateTakesOverInv,
             InsertOperationInv, RetakeOperationInv, ProcessorCreatesInv, CheckpointCreatedInv DEF PR!Create
<1>3. ASSUME NEW c \in Requests, PR!Sign(c)
      PROVE  PR!IInv'
  BY <1>3, SignReadInv, SignSaveInv DEF PR!Sign
<1>4. ASSUME NEW c \in Requests, PR!Submit(c)
      PROVE  PR!IInv'
  <2>1. CASE PR!StatusPending(c)
    <3>1. CASE PR!SafeRetry
      BY <2>1, <3>1, RetriesInv DEF PR!StatusPending
    <3>2. CASE ~PR!SafeRetry
      BY <2>1, <3>2, ReturnsInv DEF PR!StatusPending, PR!IInv, PR!OnePayment
    <3> QED BY <3>1, <3>2
  <2>2. CASE PR!StatusFails(c)
    <3>1. CASE PR!SafeRetry
      BY <2>2, <3>1, RetriesInv DEF PR!StatusFails
    <3>2. CASE ~PR!SafeRetry
      BY <2>2, <3>2, FailsInv DEF PR!StatusFails
    <3> QED BY <3>1, <3>2
  <2>3. CASE PR!ConfirmSubmitted(c) \/ PR!RecordSubmitted(c)
    BY <2>3, SavesOutcomeInv DEF PR!ConfirmSubmitted, PR!RecordSubmitted
  <2>4. CASE PR!ClaimLost(c)
    BY <2>4, ReturnsInv DEF PR!ClaimLost, PR!IInv, PR!OnePayment
  <2>5. CASE PR!SendFails(c)
    BY <2>5, FailsInv DEF PR!SendFails
  <2> QED BY <1>4, <2>1, <2>2, <2>3, <2>4, <2>5, SubmitAdoptsSignatureInv, AdoptSignatureInv, SubmitReadInv,
             StatusFinalInv, ReclaimInv, ClaimInv, SendInv, SendAnswerLostInv DEF PR!Submit
<1>5. ASSUME NEW c \in Requests, PR!SaveFails(c) \/ PR!Crash(c)
      PROVE  PR!IInv'
  BY <1>5, ReturnsInv DEF PR!SaveFails, PR!Crash, PR!IInv, PR!OnePayment
<1> QED BY <1>1, <1>2, <1>3, <1>4, <1>5, DecideOpenInv DEF PR!Next

LEMMA PaymentsStutters ==
  ASSUME PR!IInv, UNCHANGED others
  PROVE  PR!IInv'
<1> USE DEF others, PR!IInv
<1>1. PR!TypeOK' /\ PR!Supported(v1)'
  BY DEF PR!TypeOK, PR!Supported, PR!Setup, PR!OneMaker, PR!OneSigner
<1>2. PR!Entities' /\ PR!OneMaking'
  BY DEF PR!Entities, PR!OneMaking
<1>3. PR!OnePayment' /\ PR!SignedOnce' /\ PR!SentOnce' /\ PR!AnswersAreTrue'
  BY DEF PR!OnePayment, PR!SignedOnce, PR!SentOnce, PR!AnswersAreTrue
<1> QED BY <1>1, <1>2, <1>3

LEMMA PaymentsInv == ServicesSpec => [](service = "payments" => PR!IInv)
<1>1. ServicesInit => (service = "payments" => PR!IInv)
  BY PaymentsInit DEF ServicesInit, OtherInit
<1>2. (service = "payments" => PR!IInv) /\ [ServicesNext]_ServicesVars => (service = "payments" => PR!IInv)'
  <2> SUFFICES ASSUME service' = "payments", service = "payments" => PR!IInv, [ServicesNext]_ServicesVars
               PROVE  PR!IInv'
    OBVIOUS
  <2>1. service = "payments"
    BY DEF ServicesNext, OtherNext, ServicesVars
  <2>2. PR!Next \/ UNCHANGED others
    BY <2>1 DEF ServicesNext, OtherNext, ServicesVars
  <2> QED BY <2>1, <2>2, PaymentsStep, PaymentsStutters
<1> QED BY <1>1, <1>2, PTL DEF ServicesSpec

\* submitTransaction: in every supported deployment, for any number of calls and
\* payments and through every lost answer, failed save, crash and delay, the
\* processor carries out at most one payment, once.
THEOREM OperationsPayOnce == ServicesSpec => []PaidOnce
<1>1. (service = "payments" => PR!IInv) => PaidOnce
  BY DEF PR!IInv, PaidOnce, PR!PaidOnce, PR!OnePayment, PR!SentOnce, PR!TypeOK, PR!AnswersAreTrue
<1> QED BY <1>1, PaymentsInv, PTL

\* signTransaction, submitTransaction: in every supported deployment, and for every
\* answer of the processor, PENDING and FAILED included, SUBMITTED stands beside an
\* answer that is true of the payment, and what was received is not taken for unsent.
THEOREM RowsAreTrue == ServicesSpec => []RowIsTrue
<1>1. (service = "payments" => PR!IInv) => RowIsTrue
  <2> SUFFICES ASSUME PR!IInv PROVE PR!SubmittedIsAnswered /\ PR!ReceivedIsRemembered
    BY DEF RowIsTrue
  <2>1. v2.pay # 0 => v2.pay \in PR!PaymentIds
    BY RowsAreUpdated, PaymentNumbers DEF PR!IInv, PR!TypeOK
  <2>2. v2.pay # 0 => v5[v2.pay] \in Nat /\ (v5[v2.pay] > 0 <=> v8[v2.pay] = "accepted")
    BY <2>1 DEF PR!IInv, PR!TypeOK, PR!AnswersAreTrue
  <2>3. PR!SubmittedIsAnswered
    BY <2>2 DEF PR!IInv, PR!AnswersAreTrue, PR!SubmittedIsAnswered
  <2>4. PR!ReceivedIsRemembered
    BY DEF PR!IInv, PR!ReceivedIsRemembered, PR!OnePayment, PR!SignedOnce
  <2> QED BY <2>3, <2>4
<1> QED BY <1>1, PaymentsInv, PTL

\* createPayment: however many callers race, they receive one payment.
THEOREM CreatorsAgree == ServicesSpec => []OneResponse
<1>1. (service = "payments" => PR!IInv) => OneResponse
  BY DEF PR!IInv, OneResponse, PR!OneResponse, PR!OnePayment
<1> QED BY <1>1, PaymentsInv, PTL

-----------------------------------------------------------------------------
(* Payments implement PaymentOnce *)

\* The outside's view of a step: the row's payment stays, and either it is carried
\* out or nothing is; callers may get to know a payment.
Visible ==
    /\ v2.pay # 0 => v2'.pay = v2.pay
    /\ v6 \subseteq v6'
    /\ \/ v5' = v5
       \/ v2.pay # 0 /\ v2'.pay = v2.pay /\ v6' = v6 /\ PR!CarryOut(v2.pay)

\* A save writes the payment of the entity, which is the row's if that has one.
LEMMA SaveIsVisible ==
  ASSUME PR!IInv, NEW c \in Requests, PR!SaveColumns(c), v5' = v5, v6 \subseteq v6',
         v7[c].pc \in {"retaking", "checkpointing", "failing", "signing", "adopting", "confirming", "reclaiming", "recording"}
  PROVE  Visible
<1>1. v2'.pay = v7[c].op.pay
  BY DEF PR!SaveColumns, PR!IInv, PR!TypeOK, PR!Rows
<1>2. v2.pay # 0 => v7[c].op.pay = v2.pay
  BY DEF PR!IInv, PR!OneMaking, PR!OnePayment, PR!Making, PR!FailsToCreate, PR!FailsToSubmit, PR!Submitting
<1> QED BY <1>1, <1>2 DEF Visible

LEMMA StepIsVisible ==
  ASSUME PR!IInv, PR!Next
  PROVE  Visible
<1>1. CASE PR!MinutePasses
  BY <1>1 DEF PR!MinutePasses, Visible
<1>2. ASSUME NEW c \in Requests, PR!Create(c)
      PROVE  Visible
  <2>1. CASE \/ PR!CreateReturnsSaved(c) \/ PR!CreateFindsNothing(c) \/ PR!CreateTakesOver(c)
             \/ PR!InsertLosesRace(c) \/ PR!ProcessorCreates(c) \/ PR!CreateFails(c)
    BY <2>1 DEF PR!CreateReturnsSaved, PR!CreateFindsNothing, PR!CreateTakesOver, PR!InsertLosesRace,
                PR!ProcessorCreates, PR!CreateFails, Visible
  <2>2. CASE PR!InsertOperation(c)
    BY <2>2 DEF PR!InsertOperation, PR!NoRow, Visible
  <2>3. CASE PR!RetakeOperation(c) \/ PR!CheckpointCreated(c) \/ PR!SaveRecoveryRequired(c)
    BY <2>3, SaveIsVisible DEF PR!RetakeOperation, PR!CheckpointCreated, PR!SaveRecoveryRequired
  <2> QED BY <1>2, <2>1, <2>2, <2>3 DEF PR!Create
<1>3. ASSUME NEW c \in Requests, PR!Sign(c)
      PROVE  Visible
  <2>1. CASE PR!SignRead(c)
    BY <2>1 DEF PR!SignRead, Visible
  <2>2. CASE PR!SignSave(c)
    BY <2>2, SaveIsVisible DEF PR!SignSave
  <2> QED BY <1>3, <2>1, <2>2 DEF PR!Sign
<1>4. ASSUME NEW c \in Requests, PR!Submit(c)
      PROVE  Visible
  <2>1. CASE \/ PR!SubmitAdoptsSignature(c) \/ PR!SubmitRead(c) \/ PR!StatusFinal(c) \/ PR!StatusPending(c)
             \/ PR!StatusFails(c) \/ PR!ClaimLost(c) \/ PR!SendFails(c)
    BY <2>1 DEF PR!SubmitAdoptsSignature, PR!SubmitRead, PR!StatusFinal, PR!StatusPending, PR!StatusFails,
                PR!ClaimLost, PR!SendFails, Visible
  <2>2. CASE PR!AdoptSignature(c) \/ PR!ConfirmSubmitted(c) \/ PR!Reclaim(c) \/ PR!RecordSubmitted(c)
    BY <2>2, SaveIsVisible DEF PR!AdoptSignature, PR!ConfirmSubmitted, PR!Reclaim, PR!RecordSubmitted
  <2>3. CASE PR!Claim(c)
    BY <2>3 DEF PR!Claim, PR!IInv, PR!TypeOK, PR!Rows, Visible
  <2>4. CASE PR!Send(c) \/ PR!SendAnswerLost(c)
    <3>1. v2.pay # 0 /\ v7[c].op.pay = v2.pay
      BY <2>4 DEF PR!Send, PR!SendAnswerLost, PR!IInv, PR!OnePayment, PR!Submitting
    <3>2. PICK v : PR!Decide(v2.pay, v) /\ v2' = v2 /\ v6' = v6
      BY <2>4, <3>1 DEF PR!Send, PR!SendAnswerLost
    <3> QED BY <3>1, <3>2 DEF PR!Decide, Visible
  <2> QED BY <1>4, <2>1, <2>2, <2>3, <2>4 DEF PR!Submit
<1>5. ASSUME NEW c \in Requests, PR!SaveFails(c) \/ PR!Crash(c)
      PROVE  Visible
  BY <1>5 DEF PR!SaveFails, PR!Crash, Visible
<1>6. ASSUME NEW p \in PR!PaymentIds, PR!DecideOpen(p)
      PROVE  Visible
  <2>1. PICK v : PR!Decide(p, v) /\ v2' = v2 /\ v6' = v6 /\ v8[p] = "open"
    BY <1>6 DEF PR!DecideOpen
  <2>2. v2.pay = p /\ p # 0
    BY <2>1 DEF PR!IInv, PR!OnePayment, PR!PaymentIds
  <2> QED BY <2>1, <2>2 DEF PR!Decide, Visible
<1> QED BY <1>1, <1>2, <1>3, <1>4, <1>5, <1>6 DEF PR!Next

\* A safe processor that carried the payment out before does nothing.
LEMMA CarriesOutOnce ==
  ASSUME PR!IInv, PR!IInv', UNCHANGED v1, v2.pay # 0, PR!CarryOut(v2.pay), v5' # v5
  PROVE  v2.pay \in 1..MaxPayments /\ v5[v2.pay] = 0 /\ v5' = [v5 EXCEPT ![v2.pay] = 1]
<1>1. v2.pay \in 1..MaxPayments /\ v5 \in [1..MaxPayments -> Nat] /\ v5[v2.pay] <= 1 /\ v5'[v2.pay] <= 1
  <2>1. v2.pay \in PR!PaymentIds
    BY RowsAreUpdated, PaymentNumbers DEF PR!IInv, PR!TypeOK
  <2> QED BY <2>1 DEF PR!IInv, PR!TypeOK, PR!SentOnce, PR!PaymentIds
<1>2. CASE v1.safe
  <2>1. v5' = [v5 EXCEPT ![v2.pay] = 1]
    BY <1>2 DEF PR!CarryOut
  <2>2. v5[v2.pay] # 1
    BY <1>1, <2>1
  <2>3. v5[v2.pay] = 0
    <3>1. v5[v2.pay] \in Nat
      BY <1>1
    <3> QED BY <1>1, <2>2, <3>1
  <2> QED BY <1>1, <2>1, <2>3
<1>3. CASE ~v1.safe
  <2>1. v5' = [v5 EXCEPT ![v2.pay] = v5[v2.pay] + 1]
    BY <1>3 DEF PR!CarryOut
  <2>2. v5[v2.pay] = 0
    BY <1>1, <2>1
  <2> QED BY <1>1, <2>1, <2>2
<1> QED BY <1>2, <1>3

LEMMA PaymentsRefineStep ==
  ASSUME PR!IInv, PR!Next
  PROVE  PO!Next \/ UNCHANGED PO!vars
<1> DEFINE p == v2.pay
           q == v2'.pay
<1>1. PR!IInv' /\ Visible /\ v1' = v1
  BY PaymentsStep, StepIsVisible DEF PR!Next, PR!MinutePasses, PR!Create, PR!Sign, PR!Submit, PR!SaveFails, PR!Crash,
     PR!CreateReturnsSaved, PR!CreateFindsNothing, PR!CreateTakesOver, PR!InsertOperation, PR!InsertLosesRace,
     PR!RetakeOperation, PR!ProcessorCreates, PR!CheckpointCreated, PR!CreateFails, PR!SaveRecoveryRequired,
     PR!SignRead, PR!SignSave, PR!SubmitAdoptsSignature, PR!AdoptSignature, PR!SubmitRead, PR!StatusFinal,
     PR!StatusPending, PR!StatusFails, PR!ConfirmSubmitted, PR!Reclaim, PR!Claim, PR!ClaimLost, PR!Send,
     PR!SendAnswerLost, PR!SendFails, PR!RecordSubmitted, PR!DecideOpen
<1>2. v6 \subseteq {p} \ {0} /\ v6' \subseteq {q} \ {0} /\ v6 \subseteq v6' /\ (p # 0 => q = p)
  BY <1>1 DEF PR!IInv, PR!OnePayment, Visible
<1>3. CASE v5' # v5
  <2>1. p # 0 /\ q = p /\ v6' = v6 /\ PR!CarryOut(p)
    BY <1>1, <1>3 DEF Visible
  <2>2. p \in 1..MaxPayments /\ v5[p] = 0 /\ v5' = [v5 EXCEPT ![p] = 1]
    BY <1>1, <1>3, <2>1, CarriesOutOnce
  <2>3. PO!Pay(p)
    BY <2>1, <2>2 DEF PO!Pay
  <2> QED BY <2>2, <2>3 DEF PO!Next
<1>4. CASE v5' = v5 /\ q = p
  <2>1. v6' = v6 \/ v6' = {p} \ {0}
    BY <1>2, <1>4
  <2> QED BY <1>4, <2>1 DEF PO!Next, PO!Tell, PO!vars
<1>5. CASE v5' = v5 /\ q # p
  <2>1. p = 0 /\ q # 0
    BY <1>2, <1>5
  <2>2. q \in 1..MaxPayments
    <3>1. v2' \in PR!Rows
      BY <1>1 DEF PR!IInv, PR!TypeOK
    <3>2. q \in 0..MaxPayments /\ MaxPayments \in Nat
      BY <3>1, RowsAreUpdated, ServicesAssumption
    <3> QED BY <2>1, <3>2
  <2>3. {p} \ {0} = {} /\ {q} \ {0} = {q} /\ (v6' = v6 \/ v6' = {q})
    BY <1>2, <2>1
  <2>4. PO!Choose(q)
    BY <1>5, <2>3 DEF PO!Choose
  <2> QED BY <2>2, <2>4 DEF PO!Next
<1> QED BY <1>3, <1>4, <1>5

\* createPayment, signTransaction, submitTransaction: in every supported deployment,
\* for any number of calls and payments and through every fault, a step that can be
\* seen from outside chooses the payment, makes it known or carries it out, once.
THEOREM PaymentsRefine == ServicesSpec => ImplementsPaymentOnce
<1>1. ServicesInit => (service = "payments" => PO!Init)
  BY DEF ServicesInit, OtherInit, PR!Init, PR!NoRow, PR!PaymentIds, PO!Init
<1>2. (service = "payments" => PR!IInv) /\ [ServicesNext]_ServicesVars
        => [service = "payments" => PO!Next \/ UNCHANGED PO!vars]_ServicesVars
  <2> SUFFICES ASSUME service = "payments", PR!IInv, ServicesNext
               PROVE  PO!Next \/ UNCHANGED PO!vars
    OBVIOUS
  <2>1. PR!Next
    BY DEF ServicesNext, OtherNext
  <2> QED BY <2>1, PaymentsRefineStep
<1> QED BY <1>1, <1>2, PaymentsInv, PTL DEF ServicesSpec, ImplementsPaymentOnce
===============================================================================
