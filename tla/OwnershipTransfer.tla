-------------------------- MODULE OwnershipTransfer --------------------------
(***************************************************************************)
(* core/ownership/ownership-transfer.service.ts: the transfers of one      *)
(* resource, initiated and decided by concurrent calls of its owner and of *)
(* the proposed owner. Every decision is a read and a save of the row.     *)
(***************************************************************************)
EXTENDS Integers

CONSTANTS
    MaxTransfers,  \* bound on the transfers of the resource
    Calls          \* calls in progress at once

Ids == 1 .. MaxTransfers

VARIABLES
    status,  \* per transfer: "absent", "pending", or how it was decided
    due,     \* transfers whose expiresAt has passed
    call,    \* per call: where it is suspended, its transfers, the status it is to save
    settled  \* history, per transfer: a decision that was reported while no other call was at work on it

vars == <<status, due, call, settled>>

Decisions == {"accepted", "cancelled", "rejected"}
Idle == [pc |-> "idle", ids |-> {}]

Init ==
    /\ status = [i \in Ids |-> "absent"]
    /\ due = {}
    /\ call = [c \in Calls |-> Idle]
    /\ settled = [i \in Ids |-> "none"]

At(c, pc) == call[c].pc = pc
Goto(c, pc, ids, s) == call' = [call EXCEPT ![c] = [pc |-> pc, ids |-> ids, as |-> s]]
Return(c) == call' = [call EXCEPT ![c] = Idle]
Pending == {i \in Ids : status[i] = "pending"}

-----------------------------------------------------------------------------
\* initiateTransfer: one pending transfer is looked up, whichever the database
\* returns first; it stands in the way unless it has expired.
Initiate(c) ==
    /\ At(c, "idle")
    /\ Pending = {} \/ \E found \in Pending : found \in due
    /\ Goto(c, "creating", {}, "pending")
    /\ UNCHANGED <<status, due, settled>>

Create(c, i) ==
    /\ At(c, "creating") /\ {j \in Ids : status[j] # "absent"} = 1 .. i - 1
    /\ status' = [status EXCEPT ![i] = "pending"]
    /\ Return(c)
    /\ UNCHANGED <<due, settled>>

-----------------------------------------------------------------------------
\* acceptTransfer tests the expiry before the status.
Accept(c, i) ==
    /\ At(c, "idle") /\ i \notin due /\ status[i] = "pending"
    /\ Goto(c, "deciding", {i}, "accepted")
    /\ UNCHANGED <<status, due, settled>>

AcceptExpired(c, i) ==
    /\ At(c, "idle") /\ i \in due
    /\ Goto(c, "expiring", {i}, "expired")
    /\ UNCHANGED <<status, due, settled>>

\* cancelTransfer and rejectTransfer do not look at the expiry.
DeclineAnything(c, i, d) ==  \* mutant: no check that the transfer is PENDING
    /\ At(c, "idle") /\ status[i] # "absent"
    /\ Goto(c, "deciding", {i}, d)
    /\ UNCHANGED <<status, due, settled>>

Decline(c, i, d) ==
    /\ At(c, "idle") /\ status[i] = "pending"
    /\ Goto(c, "deciding", {i}, d)
    /\ UNCHANGED <<status, due, settled>>

\* The save, and the decision is reported.
Decide(c) ==
    /\ At(c, "deciding")
    /\ status' = [i \in Ids |-> IF i \in call[c].ids THEN call[c].as ELSE status[i]]
    /\ settled' = [i \in Ids |-> IF i \in call[c].ids /\ \A d \in Calls \ {c} : i \notin call[d].ids
                                 THEN call[c].as ELSE settled[i]]
    /\ Return(c)
    /\ UNCHANGED due

\* getTransfer (one) and listTransfers (all) expire what is pending and due.
Refresh(c) ==
    \E ids \in {{i} : i \in Pending \intersect due} \union ({Pending \intersect due} \ {{}}) :
        /\ At(c, "idle")
        /\ Goto(c, "expiring", ids, "expired")
        /\ UNCHANGED <<status, due, settled>>

SaveExpired(c, i) ==
    /\ At(c, "expiring") /\ i \in call[c].ids
    /\ status' = [status EXCEPT ![i] = "expired"]
    /\ IF call[c].ids = {i} THEN Return(c) ELSE call' = [call EXCEPT ![c].ids = @ \ {i}]
    /\ UNCHANGED <<due, settled>>

\* External: time; a database call that throws, or a crash.
ExpiryPasses(i) ==
    /\ status[i] # "absent" /\ i \notin due
    /\ due' = due \union {i}
    /\ UNCHANGED <<status, call, settled>>

Fault(c) ==
    /\ ~At(c, "idle")
    /\ Return(c)
    /\ UNCHANGED <<status, due, settled>>

Next ==
    \/ \E i \in Ids : ExpiryPasses(i)
    \/ \E c \in Calls :
          \/ Initiate(c) \/ Decide(c) \/ Refresh(c) \/ Fault(c)
          \/ \E i \in Ids :
                \/ Create(c, i) \/ Accept(c, i) \/ AcceptExpired(c, i) \/ SaveExpired(c, i)
                \/ \E d \in {"cancelled", "rejected"} : Decline(c, i, d)

Spec == Init /\ [][Next]_vars

-----------------------------------------------------------------------------
\* A decision that was reported while no other call was at work on the transfer
\* stands: no later call turns it into another one (acceptTransfer,
\* cancelTransfer, rejectTransfer, getTransfer). The one thing that still
\* rewrites it is an acceptance tried after the expiry, to EXPIRED.
QuietDecisionStands ==
    \A i \in Ids : settled[i] # "none" => status[i] = settled[i] \/ (status[i] = "expired" /\ i \in due)

-----------------------------------------------------------------------------
\* The inductive invariant.
Shape ==
    /\ status = [i \in Ids |-> status[i]]
    /\ settled = [i \in Ids |-> settled[i]]
    /\ call = [c \in Calls |-> call[c]]
    /\ \A c \in Calls : {"pc", "ids"} \subseteq DOMAIN call[c]

\* What a suspended call is about to save.
Decides ==
    \A c \in Calls :
        /\ call[c].pc \in {"idle", "creating"} => call[c].ids = {}
        /\ At(c, "deciding") => call[c].as \in Decisions
        /\ At(c, "expiring") => call[c].ids \subseteq due

\* A settled transfer is not pending any more, and no call is going to decide it.
SettledIsClosed ==
    \A i \in Ids : settled[i] # "none" =>
        /\ settled[i] \in Decisions
        /\ status[i] = settled[i] \/ (status[i] = "expired" /\ i \in due)
        /\ \A c \in Calls : i \in call[c].ids => At(c, "expiring")

IInv == Shape /\ Decides /\ SettledIsClosed
=============================================================================
