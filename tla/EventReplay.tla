----------------------------- MODULE EventReplay -----------------------------
(***************************************************************************)
(* common/events/replay/event-replay.ts: rebuilds of one projection from a *)
(* growing event log.  A process runs one rebuild of it at a time; the     *)
(* checkpoint and projection stores may be durable and are then shared by  *)
(* the API's replicas.                                                     *)
(*                                                                         *)
(* A projection's state is abstracted to the events that were applied, in  *)
(* order.  The source delivers at least once: the next event, or an        *)
(* earlier one again.                                                      *)
(***************************************************************************)
EXTENDS Integers, Sequences

CONSTANTS
    Length,           \* bound: events of the log
    Handled,          \* the sequences of events the projection handles
    CheckpointEvery,  \* events from one checkpoint to the next
    Replicas          \* processes

VARIABLES
    log,         \* the number of events in the log
    checkpoint,  \* the stored checkpoint of this projection version
    active,      \* the published projection
    previous,    \* the one it replaced, kept for a rollback
    rebuild,     \* per replica: the rebuild in progress
    skipped      \* history: events that a rebuild with onPoisonEvent "skip" left out

vars == <<log, checkpoint, active, previous, rebuild, skipped>>

Nothing == [sequence |-> 0, state |-> <<>>]
Unpublished == [sequence |-> -1, state |-> <<>>]
Idle == [pc |-> "idle"]
\* A dry run never resumes and leaves nothing behind, whatever its policy.
Options == [resume : BOOLEAN, skip : BOOLEAN, dry : {FALSE}]
           \union {[resume |-> FALSE, skip |-> FALSE, dry |-> TRUE]}

Init ==
    /\ log = 0
    /\ checkpoint = Nothing /\ active = Unpublished /\ previous = Unpublished
    /\ rebuild = [p \in Replicas |-> Idle]
    /\ skipped = {}

At(p, pc) == rebuild[p].pc = pc
Goto(p, pc) == rebuild' = [rebuild EXCEPT ![p].pc = pc]
Stop(p) == rebuild' = [rebuild EXCEPT ![p] = Idle]

-----------------------------------------------------------------------------
\* run: from the checkpoint, unless told otherwise or for a dry run.
Begin(p, options) ==
    /\ At(p, "idle")
    /\ LET from == IF options.resume THEN checkpoint ELSE Nothing
       IN  rebuild' = [rebuild EXCEPT ![p] =
               [pc |-> "reading", skip |-> options.skip, dry |-> options.dry, progressed |-> FALSE,
                sequence |-> from.sequence, state |-> from.state, since |-> 0]]
    /\ UNCHANGED <<log, checkpoint, active, previous, skipped>>

\* The events the source may deliver next.
Delivered(p) == 1..(IF rebuild[p].sequence < log THEN rebuild[p].sequence + 1 ELSE log)

\* An earlier event is a duplicate, and passed over, while nothing new has been
\* read; afterwards only the last one is, any other shows a mis-ordered source.
Regression(p, e) ==
    /\ At(p, "reading") /\ e \in Delivered(p)
    /\ e < rebuild[p].sequence /\ rebuild[p].progressed
    /\ Stop(p)
    /\ UNCHANGED <<log, checkpoint, active, previous, skipped>>

IsNew(p, e) == At(p, "reading") /\ e \in Delivered(p) /\ e > rebuild[p].sequence

Ignore(p, e) ==
    /\ IsNew(p, e) /\ e \notin Handled
    /\ rebuild' = [rebuild EXCEPT ![p].progressed = TRUE, ![p].sequence = e]
    /\ UNCHANGED <<log, checkpoint, active, previous, skipped>>

\* After an event was applied or skipped: on to the next, by way of a checkpoint
\* when one is due.
Advance(p, e, state) ==
    LET due == ~rebuild[p].dry /\ rebuild[p].since + 1 >= CheckpointEvery
    IN  rebuild' = [rebuild EXCEPT ![p].progressed = TRUE, ![p].sequence = e, ![p].state = state,
                                   ![p].since = IF due THEN 0 ELSE @ + 1,
                                   ![p].pc = IF due THEN "saving" ELSE "reading"]

Apply(p, e) ==
    /\ IsNew(p, e) /\ e \in Handled
    /\ Advance(p, e, Append(rebuild[p].state, e))
    /\ UNCHANGED <<log, checkpoint, active, previous, skipped>>

\* No schema, no upcast path, or apply failed at every attempt.
PoisonSkipped(p, e) ==
    /\ IsNew(p, e) /\ e \in Handled /\ rebuild[p].skip
    /\ Advance(p, e, rebuild[p].state)
    /\ skipped' = skipped \union {e}
    /\ UNCHANGED <<log, checkpoint, active, previous>>

PoisonHalts(p, e) ==
    /\ IsNew(p, e) /\ e \in Handled /\ ~rebuild[p].skip
    /\ Stop(p)
    /\ UNCHANGED <<log, checkpoint, active, previous, skipped>>

SaveCheckpointBehind(p) ==  \* mutant: the sequence of the event before the one applied
    /\ At(p, "saving")
    /\ checkpoint' = [sequence |-> rebuild[p].sequence - 1, state |-> rebuild[p].state]
    /\ Goto(p, "reading")
    /\ UNCHANGED <<log, active, previous, skipped>>

SaveCheckpoint(p) ==
    /\ At(p, "saving")
    /\ checkpoint' = [sequence |-> rebuild[p].sequence, state |-> rebuild[p].state]
    /\ Goto(p, "reading")
    /\ UNCHANGED <<log, active, previous, skipped>>

\* The source ends, perhaps behind the log, or options.limit events were read.
EndDryRun(p) ==
    /\ At(p, "reading") /\ rebuild[p].dry
    /\ Stop(p)
    /\ UNCHANGED <<log, checkpoint, active, previous, skipped>>

Swap(p) ==
    /\ At(p, "reading") /\ ~rebuild[p].dry
    /\ active' = [sequence |-> rebuild[p].sequence, state |-> rebuild[p].state]
    /\ previous' = IF active = Unpublished THEN previous ELSE active
    /\ Goto(p, "clearing")
    /\ UNCHANGED <<log, checkpoint, skipped>>

ClearCheckpoint(p) ==
    /\ At(p, "clearing")
    /\ checkpoint' = Nothing
    /\ Stop(p)
    /\ UNCHANGED <<log, active, previous, skipped>>

Rollback ==
    /\ previous # Unpublished
    /\ active' = previous /\ previous' = Unpublished
    /\ UNCHANGED <<log, checkpoint, rebuild, skipped>>

-----------------------------------------------------------------------------
\* External: an event is stored; the source, a store or the process fails.
Store ==
    /\ log < Length
    /\ log' = log + 1
    /\ UNCHANGED <<checkpoint, active, previous, rebuild, skipped>>

Fail(p) ==
    /\ ~At(p, "idle")
    /\ Stop(p)
    /\ UNCHANGED <<log, checkpoint, active, previous, skipped>>

Next ==
    \/ Rollback \/ Store
    \/ \E p \in Replicas :
        \/ \E options \in Options : Begin(p, options)
        \/ \E e \in 1..log : Regression(p, e) \/ Ignore(p, e) \/ Apply(p, e) \/ PoisonSkipped(p, e) \/ PoisonHalts(p, e)
        \/ SaveCheckpoint(p) \/ EndDryRun(p) \/ Swap(p) \/ ClearCheckpoint(p) \/ Fail(p)

Spec == Init /\ [][Next]_vars

-----------------------------------------------------------------------------
\* The shape of every variable.
TypeOK ==
    /\ log \in 0..Length
    /\ \A x \in {checkpoint, active, previous} : x.sequence \in -1..log /\ Len(x.state) <= Length
    /\ \A p \in Replicas : At(p, "idle") \/ rebuild[p].sequence \in 0..log
    /\ skipped \subseteq Handled

\* x has every handled event up to its sequence exactly once and in order, but
\* for some of those left out.
ExactBut(x, left) ==
    LET applied == {x.state[k] : k \in 1..Len(x.state)}
    IN  /\ applied \subseteq Handled \intersect 1..x.sequence
        /\ (Handled \intersect 1..x.sequence) \ left \subseteq applied
        /\ \A k, l \in 1..Len(x.state) : k < l => x.state[k] < x.state[l]

\* What is left out are events that some rebuild was told to skip.
Exact(x) == ExactBut(x, skipped)

\* "resumes from the last checkpoint" and "at-least-once sources" (rebuild): however
\* rebuilds crash, resume, overlap on several replicas and are rolled back, and
\* whatever is delivered again, no event is missing from what is published, or
\* counted in it twice.
PublishedIsExact == Exact(checkpoint) /\ Exact(active) /\ Exact(previous)

-----------------------------------------------------------------------------
\* The inductive invariant: what a rebuild has in memory is as exact as what is stored.
IsState(x) == x.sequence \in Int /\ x.state \in Seq(Int)

Shape ==
    /\ log \in Nat
    /\ IsState(checkpoint) /\ IsState(active) /\ IsState(previous)
    /\ rebuild = [p \in Replicas |-> rebuild[p]]
    /\ \A p \in Replicas : At(p, "idle") \/
          /\ {"pc", "progressed", "sequence", "state", "since"} \subseteq DOMAIN rebuild[p]
          /\ IsState(rebuild[p])

RebuildIsExact == \A p \in Replicas : At(p, "idle") \/ Exact(rebuild[p])

IInv == Shape /\ RebuildIsExact /\ PublishedIsExact
=============================================================================
