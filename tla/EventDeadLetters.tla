--------------------------- MODULE EventDeadLetters ---------------------------
(***************************************************************************)
(* common/events/dead-letter/event-dead-letter.service.ts: one handler,    *)
(* the events dispatched to it, and the bounded in-memory store of those   *)
(* it failed on. A call is suspended only while the handler runs (all the  *)
(* attempts of runWithRetry); what it then does to the store is one turn.  *)
(***************************************************************************)
EXTENDS Integers, SequencesExt, FiniteSetsExt

CONSTANTS
    Events,      \* events dispatched, any number of times each
    Calls,       \* dispatches and replays in progress at once
    MaxEntries,  \* EVENT_DEAD_LETTER_MAX_ENTRIES
    MaxIds       \* bound on the entries ever created

VARIABLES
    entries,     \* the store in insertion order, which is the order of firstFailedAt
    registered,  \* the handler is registered
    call,        \* per call: what it delivers; a replay also holds its entry's id
    nextId,      \* ids given out
    failing,     \* history: events whose dispatch ended in a failure
    handled,     \* history: events that the handler has accepted
    excused      \* history: events whose last pending entry an operator discarded, or a store full of pending ones evicted

vars == <<entries, registered, call, nextId, failing, handled, excused>>

Idle == [pc |-> "idle"]

Init ==
    /\ entries = <<>>
    /\ registered = TRUE
    /\ call = [c \in Calls |-> Idle]
    /\ nextId = 1
    /\ failing = {} /\ handled = {} /\ excused = {}

Return(c) == call' = [call EXCEPT ![c] = Idle]
Store == ToSet(entries)
IsPending(e) == e.status = "pending"
SetStatus(id, s) == [n \in DOMAIN entries |-> IF entries[n].id = id THEN [entries[n] EXCEPT !.status = s]
                                              ELSE entries[n]]

\* findByEventAndHandler: the first entry of the event that is not discarded.
Matching(ev) == {n \in DOMAIN entries : entries[n].event = ev /\ entries[n].status # "discarded"}
Found(ev) == entries[Min(Matching(ev))]
AlreadyPending(ev) == Matching(ev) # {} /\ IsPending(Found(ev))

TrimOldest(es) == Tail(es)  \* mutant: trim evicts the oldest entry, pending or not

\* trim, of a store one over its limit: the oldest settled entry, or the oldest.
Trim(es) ==
    IF \E n \in DOMAIN es : ~IsPending(es[n])
    THEN RemoveAt(es, Min({n \in DOMAIN es : ~IsPending(es[n])}))
    ELSE Tail(es)

-----------------------------------------------------------------------------
\* dispatch: nothing happens without a registered handler.
Dispatch(c, ev) ==
    /\ call[c] = Idle /\ registered
    /\ call' = [call EXCEPT ![c] = [pc |-> "dispatching", event |-> ev]]
    /\ UNCHANGED <<entries, registered, nextId, failing, handled, excused>>

\* resolvePendingAfterSuccess.
Delivered(c) ==
    LET ev == call[c].event
    IN  /\ call[c].pc = "dispatching"
        /\ entries' = IF AlreadyPending(ev)
                      THEN SetStatus(Found(ev).id, "replayed") ELSE entries
        /\ handled' = handled \union {ev}
        /\ Return(c)
        /\ UNCHANGED <<registered, nextId, failing, excused>>

\* recordDeadLetter, for a failure already recorded and still pending ...
FailedAgain(c) ==
    LET ev == call[c].event
    IN  /\ call[c].pc = "dispatching"
        /\ AlreadyPending(ev)
        /\ failing' = failing \union {ev}
        /\ Return(c)
        /\ UNCHANGED <<entries, registered, nextId, handled, excused>>

\* ... and for a new one.
RecordDeadLetter(c) ==
    LET ev    == call[c].event
        added == Append(entries, [id |-> nextId, event |-> ev, status |-> "pending"])
        kept  == IF Len(added) > MaxEntries THEN Trim(added) ELSE added
        full  == \A n \in DOMAIN added : IsPending(added[n])
    IN  /\ call[c].pc = "dispatching" /\ nextId <= MaxIds
        /\ ~AlreadyPending(ev)
        /\ entries' = kept
        /\ nextId' = nextId + 1
        /\ failing' = failing \union {ev}
        /\ excused' = (excused \ {ev}) \union (IF full THEN {e.event : e \in ToSet(added) \ ToSet(kept)} ELSE {})
        /\ Return(c)
        /\ UNCHANGED <<registered, handled>>

-----------------------------------------------------------------------------
\* replay: of any entry that is not discarded, a replayed one included; the
\* call keeps the entry while the handler runs, also if it is evicted or
\* discarded meanwhile. replayAll replays the pending ones in turn.
Replay(c) ==
    \E e \in Store :
        /\ call[c] = Idle /\ registered /\ e.status # "discarded"
        /\ call' = [call EXCEPT ![c] = [pc |-> "replaying", event |-> e.event, id |-> e.id]]
        /\ UNCHANGED <<entries, registered, nextId, failing, handled, excused>>

Replayed(c) ==
    /\ call[c].pc = "replaying"
    /\ entries' = SetStatus(call[c].id, "replayed")
    /\ handled' = handled \union {call[c].event}
    /\ Return(c)
    /\ UNCHANGED <<registered, nextId, failing, excused>>

ReplayFailed(c) ==
    /\ call[c].pc = "replaying"
    /\ Return(c)
    /\ UNCHANGED <<entries, registered, nextId, failing, handled, excused>>

Discard ==
    \E e \in Store :
        /\ e.status # "discarded"
        /\ entries' = SetStatus(e.id, "discarded")
        /\ excused' = excused \union {e.event}
        /\ UNCHANGED <<registered, call, nextId, failing, handled>>

\* register and unregister.
ToggleHandler ==
    /\ registered' = ~registered
    /\ UNCHANGED <<entries, call, nextId, failing, handled, excused>>

Next ==
    \/ Discard \/ ToggleHandler
    \/ \E c \in Calls :
          \/ \E ev \in Events : Dispatch(c, ev)
          \/ Delivered(c) \/ FailedAgain(c) \/ RecordDeadLetter(c)
          \/ Replay(c) \/ Replayed(c) \/ ReplayFailed(c)

Spec == Init /\ [][Next]_vars

-----------------------------------------------------------------------------
\* "Never throws for handler failures - those become dead letters" (dispatch):
\* an event that failed and that the handler has never accepted is pending in
\* the store, within its limit, unless an operator discarded it or it was the
\* oldest when the store was full of pending entries. Replays that end after a
\* discard, an eviction or another replay of their entry lose nothing else.
FailureIsKept ==
    /\ Len(entries) <= MaxEntries
    /\ \A ev \in failing \ (handled \union excused) : \E e \in Store : e.event = ev /\ IsPending(e)

-----------------------------------------------------------------------------
\* The inductive invariant: besides the property, an entry's id is its own, and a
\* replay that still finds its entry finds the event it delivers.
Entry == [id : Nat, event : Events, status : {"pending", "replayed", "discarded"}]

Shape ==
    /\ entries \in Seq(Entry)
    /\ nextId \in Nat
    /\ call = [c \in Calls |-> call[c]]
    /\ \A c \in Calls : call[c].pc # "idle" => call[c].event \in Events

IdsAreUnique ==
    /\ \A m, n \in 1..Len(entries) : entries[m].id = entries[n].id => m = n
    /\ \A n \in 1..Len(entries) : entries[n].id < nextId

ReplaysAgree ==
    \A c \in Calls : call[c].pc = "replaying" =>
        /\ call[c].id \in Nat /\ call[c].id < nextId
        /\ \A n \in 1..Len(entries) : entries[n].id = call[c].id => entries[n].event = call[c].event

PendingIn(ev, es) == \E n \in 1..Len(es) : es[n].event = ev /\ IsPending(es[n])
Kept == \A ev \in failing \ (handled \union excused) : PendingIn(ev, entries)

IInv == Shape /\ IdsAreUnique /\ ReplaysAgree /\ Kept /\ Len(entries) <= MaxEntries
=============================================================================
