---------------------------- MODULE Reconciliation ----------------------------
(***************************************************************************)
(* reconciliation/reconciliation.service.ts: payments to one destination   *)
(* account in one asset, credited to invoices by concurrent calls of       *)
(* ingestTransaction (webhooks, queues), pollHorizon, createInvoice and    *)
(* manualReconcile.                                                        *)
(*                                                                         *)
(* Every save writes what the call read before.  An invoice's status is a  *)
(* function of paidAmount and expectedAmount, saved together with it, and  *)
(* is left out.                                                            *)
(***************************************************************************)
EXTENDS Integers, Sequences, FiniteSets

CONSTANTS
    Transactions,  \* the number of transactions, in the ledger's order
    Memo,          \* per transaction: its memo
    Listed,        \* the number of records in Horizon's list, in its order
    Hash,          \* per record: its transaction; 0 unless it is a payment with a transaction_hash
    Reference,     \* per invoice: its paymentReference, or None
    None,
    Expected,      \* expectedAmount of every invoice; every payment's amount is 1
    Calls,         \* calls in progress at once
    MaxManuals,    \* bound: calls of manualReconcile
    Enabled        \* the disturbances that may happen, of Disturbances

Disturbances == {"dbFault", "crash"}

VARIABLES
    created,  \* the invoices' ids, oldest first
    paid,     \* per invoice: paidAmount
    tx,       \* per transaction: the status of its row
    cursor,   \* horizonCursor of the polling instance
    call,     \* per call: where it is suspended and what it has read
    manuals,  \* calls of manualReconcile so far
    credits,  \* history, per transaction: invoice saves by an ingestion and by a retry that counted it
    stored    \* history: the records whose amount a row was inserted with

vars == <<created, paid, tx, cursor, call, manuals, credits, stored>>

Txs == 1..Transactions
Paying == {r \in 1..Listed : Hash[r] # 0}
Invoices == DOMAIN Reference
Registered == {created[k] : k \in 1..Len(created)}
Statuses == {"absent", "unmatched", "partial", "matched", "failed"}

Idle == [pc |-> "idle"]
At(c, pc) == call[c].pc = pc
Return(c) == call' = [call EXCEPT ![c] = Idle]

\* A job is a record to ingest, by itself or within a page, or transactions to retry.
Kind(c) == call[c].job.kind
Ingests(c) == Kind(c) \in {"ingest", "poll"}
Tx(c) == IF Ingests(c) THEN Hash[call[c].job.at] ELSE call[c].job.of

Init ==
    /\ created = <<>> /\ paid = [i \in Invoices |-> 0]
    /\ tx = [t \in Txs |-> "absent"]
    /\ cursor = 0 /\ manuals = 0
    /\ call = [c \in Calls |-> Idle]
    /\ credits = [t \in Txs |-> [ingest |-> 0, retry |-> 0]]
    /\ stored = {}

\* The retries of the transactions in todo, one after the other by observedAt: a
\* time that callers of ingestTransaction may give, so in any order.
Retry(c, todo) ==
    \/ todo = {} /\ Return(c)
    \/ \E t \in todo :
          call' = [call EXCEPT ![c] =
                      [pc |-> "matching", job |-> [kind |-> "retry", of |-> t, todo |-> todo \ {t}]]]

\* ingestTransaction of a record, by itself (upTo = r) or within a page.
Lookup(c, kind, r, upTo) ==
    call' = [call EXCEPT ![c] = [pc |-> "finding", job |-> [kind |-> kind, at |-> r, upTo |-> upTo]]]

\* pollHorizon's loop goes on with the record from.  The cursor follows the records
\* that are no payments, up to the first payment or the end of the page.
ReadOn(c, from, upTo) ==
    LET payments == {r \in Paying : r \in from..upTo}
    IN  \/ payments = {} /\ Return(c) /\ cursor' = upTo
        \/ \E r \in payments :
              (\A q \in payments : r <= q) /\ Lookup(c, "poll", r, upTo) /\ cursor' = r - 1

\* A payment is done with; in a page the cursor follows.
NextPayment(c) ==
    \/ Kind(c) = "ingest" /\ Return(c) /\ UNCHANGED cursor
    \/ Kind(c) = "poll" /\ ReadOn(c, call[c].job.at + 1, call[c].job.upTo)
    \/ Kind(c) = "retry" /\ Retry(c, call[c].job.todo) /\ UNCHANGED cursor

\* An error leaves the loop; pollHorizon catches it, with the cursor where it was.
ThrowPastPayment(c) ==  \* mutant: the failed payment is passed over
    Return(c) /\ IF call[c].pc \in {"finding", "inserting"} /\ Kind(c) = "poll"
                 THEN cursor' = call[c].job.at ELSE UNCHANGED cursor

Throw(c) == Return(c) /\ UNCHANGED cursor

-----------------------------------------------------------------------------
\* ingestTransaction called with a payment; pollHorizon for the records after the
\* cursor, the list's up to the time of the answer.
Ingest(c, r) ==
    /\ At(c, "idle")
    /\ Lookup(c, "ingest", r, r)
    /\ UNCHANGED <<created, paid, tx, cursor, manuals, credits, stored>>

PollHorizon(c) ==
    /\ At(c, "idle") /\ cursor < Listed
    /\ call' = [call EXCEPT ![c] = [pc |-> "fetching", from |-> cursor + 1]]
    /\ UNCHANGED <<created, paid, tx, cursor, manuals, credits, stored>>

\* The cursor is not touched before the first record is done with.
PageArrives(c, upTo) ==
    /\ At(c, "fetching") /\ call[c].from <= upTo
    /\ \/ call[c].from \in Paying /\ Lookup(c, "poll", call[c].from, upTo) /\ UNCHANGED cursor
       \/ call[c].from \notin Paying /\ ReadOn(c, call[c].from, upTo)
    /\ UNCHANGED <<created, paid, tx, manuals, credits, stored>>

FindNew(c) ==
    /\ At(c, "finding") /\ tx[Tx(c)] = "absent"
    /\ call' = [call EXCEPT ![c].pc = "inserting"]
    /\ UNCHANGED <<created, paid, tx, cursor, manuals, credits, stored>>

FindDuplicate(c) ==
    /\ At(c, "finding") /\ tx[Tx(c)] # "absent"
    /\ NextPayment(c)
    /\ UNCHANGED <<created, paid, tx, manuals, credits, stored>>

InsertUpsert(c) ==  \* mutant: no unique index on transactionId
    /\ At(c, "inserting")
    /\ tx' = [tx EXCEPT ![Tx(c)] = "unmatched"]
    /\ stored' = stored \union {call[c].job.at}
    /\ call' = [call EXCEPT ![c].pc = "matching"]
    /\ UNCHANGED <<created, paid, cursor, manuals, credits>>

Insert(c) ==
    /\ At(c, "inserting") /\ tx[Tx(c)] = "absent"
    /\ tx' = [tx EXCEPT ![Tx(c)] = "unmatched"]
    /\ stored' = stored \union {call[c].job.at}
    /\ call' = [call EXCEPT ![c].pc = "matching"]
    /\ UNCHANGED <<created, paid, cursor, manuals, credits>>

InsertRefused(c) ==
    /\ At(c, "inserting") /\ tx[Tx(c)] # "absent"
    /\ Throw(c)
    /\ UNCHANGED <<created, paid, tx, manuals, credits, stored>>

-----------------------------------------------------------------------------
\* createInvoice, then the unmatched payments that match it; manualReconcile
\* takes the partial ones once more.
Matches(t, i) == Reference[i] \in {None, Memo[t]}

Candidates(i, statuses) == {t \in Txs : tx[t] \in statuses /\ Matches(t, i)}

CreateInvoice(c, i) ==
    /\ At(c, "idle") /\ i \notin Registered
    /\ call' = [call EXCEPT ![c] = [pc |-> "registering", invoice |-> i]]
    /\ UNCHANGED <<created, paid, tx, cursor, manuals, credits, stored>>

Register(c) ==
    /\ At(c, "registering")
    /\ IF call[c].invoice \in Registered
       THEN Return(c) /\ UNCHANGED created
       ELSE /\ created' = Append(created, call[c].invoice)
            /\ call' = [call EXCEPT ![c].pc = "listing"]
    /\ UNCHANGED <<paid, tx, cursor, manuals, credits, stored>>

List(c) ==
    /\ At(c, "listing")
    /\ Retry(c, Candidates(call[c].invoice, {"unmatched"}))
    /\ UNCHANGED <<created, paid, tx, cursor, manuals, credits, stored>>

ManualReconcile(c, i) ==
    /\ At(c, "idle") /\ i \in Registered /\ manuals < MaxManuals
    /\ Retry(c, Candidates(i, {"unmatched", "partial"}))
    /\ manuals' = manuals + 1
    /\ UNCHANGED <<created, paid, tx, cursor, credits, stored>>

-----------------------------------------------------------------------------
\* reconcileTransaction looks at the oldest invoice of the destination only.
Match(c) ==
    /\ At(c, "matching")
    /\ LET i == created[1]
           sum == paid[i] + 1
       IN  call' = [call EXCEPT ![c] =
               IF created = <<>> \/ ~Matches(Tx(c), i)
               THEN [pc |-> "closing", job |-> call[c].job, status |-> "unmatched"]
               ELSE [pc |-> "crediting", job |-> call[c].job, invoice |-> i, sum |-> sum,
                     status |-> IF sum >= Expected THEN "matched" ELSE "partial"]]
    /\ UNCHANGED <<created, paid, tx, cursor, manuals, credits, stored>>

Credit(c) ==
    /\ At(c, "crediting")
    /\ paid' = [paid EXCEPT ![call[c].invoice] = call[c].sum]
    /\ credits' = IF Ingests(c) THEN [credits EXCEPT ![Tx(c)].ingest = @ + 1]
                                ELSE [credits EXCEPT ![Tx(c)].retry = @ + 1]
    /\ call' = [call EXCEPT ![c] = [pc |-> "auditing", job |-> @.job, status |-> @.status]]
    /\ UNCHANGED <<created, tx, cursor, manuals, stored>>

Audit(c) ==
    /\ At(c, "auditing")
    /\ call' = [call EXCEPT ![c].pc = "closing"]
    /\ UNCHANGED <<created, paid, tx, cursor, manuals, credits, stored>>

\* The closing save of the transaction.
Close(c) ==
    /\ At(c, "closing")
    /\ tx' = [tx EXCEPT ![Tx(c)] = call[c].status]
    /\ NextPayment(c)
    /\ UNCHANGED <<created, paid, manuals, credits, stored>>

-----------------------------------------------------------------------------
\* A database call throws.  An ingestion whose matching, crediting or auditing
\* fails goes on to save FAILED, unless the audit of the failure throws as well.
ReconcileFails(c) ==
    /\ "dbFault" \in Enabled /\ call[c].pc \in {"matching", "crediting", "auditing"} /\ Ingests(c)
    /\ call' = [call EXCEPT ![c] = [pc |-> "closing", job |-> @.job, status |-> "failed"]]
    /\ UNCHANGED <<created, paid, tx, cursor, manuals, credits, stored>>

CallFails(c) ==
    /\ "dbFault" \in Enabled /\ ~At(c, "idle")
    /\ Throw(c)
    /\ UNCHANGED <<created, paid, tx, manuals, credits, stored>>

\* The instance restarts: its calls are gone and polling starts anew.
Restart ==
    /\ "crash" \in Enabled /\ (cursor # 0 \/ \E c \in Calls : ~At(c, "idle"))
    /\ call' = [c \in Calls |-> Idle] /\ cursor' = 0
    /\ UNCHANGED <<created, paid, tx, manuals, credits, stored>>

Step(c) ==
    \/ \E r \in Paying : Ingest(c, r)
    \/ PollHorizon(c) \/ \E r \in 1..Listed : PageArrives(c, r)
    \/ FindNew(c) \/ FindDuplicate(c) \/ Insert(c) \/ InsertRefused(c)
    \/ \E i \in Invoices : CreateInvoice(c, i) \/ ManualReconcile(c, i)
    \/ Register(c) \/ List(c)
    \/ Match(c) \/ Credit(c) \/ Audit(c) \/ Close(c)
    \/ ReconcileFails(c) \/ CallFails(c)

Next == Restart \/ \E c \in Calls : Step(c)

Spec == Init /\ [][Next]_vars

-----------------------------------------------------------------------------
\* The shape of every variable.
TypeOK ==
    /\ Registered \subseteq Invoices /\ Len(created) = Cardinality(Registered)
    /\ paid \in [Invoices -> Nat]
    /\ tx \in [Txs -> Statuses] /\ cursor \in 0..Listed /\ manuals \in 0..MaxManuals
    /\ \A c \in Calls : call[c].pc \in {"idle", "fetching", "registering", "listing"} \/ Tx(c) \in Txs
    /\ credits \in [Txs -> [ingest : Nat, retry : Nat]]
    /\ stored \subseteq Paying

\* "Duplicate transaction hashes are ignored" (ingestTransaction): however often
\* webhooks, overlapping polls and polls after a restart deliver a transaction,
\* and whatever fails, ingestions credit it at most once between them.
DuplicatesCreditOnce == \A t \in Txs : credits[t].ingest <= 1

\* What pollHorizon may leave behind: records that are not of type "payment"; and,
\* since rows are looked up by transaction_hash, all payments of a transaction but
\* the one its row was inserted for: they are taken for duplicates of that one.
NoPayment(r) == Hash[r] = 0
SiblingStored(r) == \E q \in stored \ {r} : Hash[q] = Hash[r]

\* pollHorizon: with overlapping polls that fail half-way and move the shared
\* cursor back and forth, the cursor never passes a record that is not stored,
\* unless it is no payment or another payment of its transaction is stored.
CursorNeverSkips == \A r \in 1..cursor : r \in stored \/ NoPayment(r) \/ SiblingStored(r)

\* No retry "pays an invoice twice" (reconciliation.faults.spec.ts): a transaction
\* is credited at most once by ingestions and retries together.
CreditedOnce == \A t \in Txs : credits[t].ingest + credits[t].retry <= 1
-----------------------------------------------------------------------------
\* The inductive invariant behind DuplicatesCreditOnce and CursorNeverSkips.
Stored(t) == tx[t] # "absent"
InLoop(c) == call[c].pc \in {"finding", "inserting", "matching", "crediting", "auditing", "closing"}
PastInsert(c) == call[c].pc \in {"matching", "crediting", "auditing", "closing"}

\* What the loops keep: a record to work on and, at the end, a status to save.
Shape ==
    /\ tx \in [Txs -> Statuses] /\ cursor \in 0..Listed
    /\ credits \in [Txs -> [ingest : Nat, retry : Nat]]
    /\ call = [c \in Calls |-> call[c]]
    /\ \A c \in Calls : "pc" \in DOMAIN call[c] /\ (InLoop(c) => "job" \in DOMAIN call[c])
    /\ \A c \in Calls : InLoop(c) /\ Ingests(c) =>
          call[c].job.at \in Paying /\ call[c].job.upTo \in 1..Listed /\ call[c].job.at <= call[c].job.upTo
    /\ \A c \in Calls : InLoop(c) /\ ~Ingests(c) =>
          PastInsert(c) /\ call[c].job.todo \subseteq Txs /\ \A t \in call[c].job.todo : Stored(t)
    /\ \A c \in Calls : call[c].pc \in {"crediting", "auditing", "closing"} =>
          "status" \in DOMAIN call[c] /\ call[c].status \in Statuses \ {"absent"}

\* Rows are those of the records that were stored.
RowsAreStored ==
    /\ stored \subseteq Paying
    /\ \A r \in stored : Stored(Hash[r])
    /\ \A t \in Txs : Stored(t) => \E r \in stored : Hash[r] = t

\* Before the record that a poll is at, or will fetch, nothing was left behind.
PagesFollow ==
    /\ \A c \in Calls : InLoop(c) /\ Kind(c) = "poll" =>
          \A r \in Paying : r < call[c].job.at => Stored(Hash[r])
    /\ \A c \in Calls : At(c, "fetching") =>
          call[c].from \in 1..Listed /\ \A r \in Paying : r < call[c].from => Stored(Hash[r])
    /\ \A r \in Paying : r <= cursor => Stored(Hash[r])

\* Past its insert, or in a retry, a call has a stored transaction; until the
\* ingestion has credited it, none has, and no other one is going to.
OneIngestion ==
    /\ \A t \in Txs : ~Stored(t) => credits[t].ingest = 0
    /\ \A c \in Calls : PastInsert(c) => Tx(c) \in Txs /\ Stored(Tx(c))
    /\ \A c \in Calls : call[c].pc \in {"matching", "crediting"} /\ Ingests(c) => credits[Tx(c)].ingest = 0
    /\ \A c, d \in Calls :
          /\ call[c].pc \in {"matching", "crediting"} /\ Ingests(c)
          /\ call[d].pc \in {"matching", "crediting"} /\ Ingests(d)
          /\ Tx(c) = Tx(d)
          => c = d

IInv == Shape /\ RowsAreStored /\ PagesFollow /\ OneIngestion /\ DuplicatesCreditOnce
=============================================================================
