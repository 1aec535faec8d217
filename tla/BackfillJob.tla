----------------------------- MODULE BackfillJob -----------------------------
(***************************************************************************)
(* common/backfill/backfill-job.ts with its checkpoint file and its first  *)
(* job, notifications/backfill/notification-channels.backfill.ts: one job  *)
(* id that an operator runs, resumes, rolls back and restarts from one     *)
(* worker at a time, while the API goes on writing the same records.       *)
(*                                                                         *)
(* Reads and saves of the file are atomic (write to a temporary file, then *)
(* rename).  Counters and diffs, which only the report shows, are left out *)
(* but for applied, which --restart looks at.                              *)
(***************************************************************************)
EXTENDS Integers, SequencesExt

CONSTANTS
    Size,        \* records 1..Size, scanned in the order of their ids
    Batch,       \* batchSize
    MaxRetries,  \* maxApplyRetries
    Enabled      \* the disturbances that may happen, of Disturbances

Disturbances == {"scanFault", "storeFault", "applyFault", "crash"}

VARIABLES
    row,     \* per record: what its channels column holds
    file,    \* the stored checkpoint
    worker,  \* the invocation in progress
    mine,    \* history: records that hold what the job wrote and nobody has written since
    lost     \* history: records written by an apply that was then reported as failed

vars == <<row, file, worker, mine, lost>>

Records == 1..Size
\* "bare" has no channels and no primaryChannel to derive them from: plan throws.
Values == {"null", "bare", "derived", "other"}
NoFile == [status |-> "none"]
Checkpoints == [status : {"running", "completed", "failed", "rolled_back"}, dry : BOOLEAN,
                cursor : {0} \union Records, journal : UNION {[1..n -> Records] : n \in 0..Size}, applied : BOOLEAN]
Fresh(dry) == [status |-> "running", dry |-> dry, cursor |-> 0, journal |-> <<>>, applied |-> FALSE]

Idle == [pc |-> "idle"]
At(pc) == worker.pc = pc
Goto(pc) == worker' = [worker EXCEPT !.pc = pc]
Stop == worker' = Idle

Init ==
    /\ row \in [Records -> {"null", "bare", "other"}]
    /\ file = NoFile /\ worker = Idle
    /\ mine = {} /\ lost = {}

-----------------------------------------------------------------------------
\* run: refuse what was rolled back or started in the other mode, start or resume.
Start(dry) ==
    /\ At("idle")
    /\ file = NoFile \/ (file.status \in {"running", "failed"} /\ file.dry = dry)
    /\ LET mem == IF file = NoFile THEN Fresh(dry) ELSE [file EXCEPT !.status = "running"]
       IN  worker' = [pc |-> "scan", mem |-> mem, committed |-> mem, page |-> <<>>, left |-> 0, next |-> 0]
    /\ UNCHANGED <<row, file, mine, lost>>

\* A short page is the last one; the values are those of this moment.
Scan ==
    /\ At("scan")
    /\ LET first == worker.mem.cursor + 1
           size == IF Batch < Size - first + 1 THEN Batch ELSE Size - first + 1
       IN  worker' = [worker EXCEPT !.pc = "record",
                                    !.page = [k \in 1..size |-> [id |-> first + k - 1, channels |-> row[first + k - 1]]],
                                    !.next = IF size < Batch THEN 0 ELSE first + size - 1]
    /\ UNCHANGED <<row, file, mine, lost>>

Record == worker.page[1]
Journaled(c, r) == r \in Range(c.journal)

\* Nothing to do, plan throws, or a preview that only notes the difference.
Pass ==
    /\ At("record") /\ worker.page # <<>>
    /\ Record.channels # "null" \/ worker.mem.dry
    /\ worker' = [worker EXCEPT !.page = Tail(@)]
    /\ UNCHANGED <<row, file, mine, lost>>

\* The undo is written ahead: persist with the cursor at the start of the batch.
JournalInMemory ==  \* mutant: the journal is persisted with the batch only
    /\ At("record") /\ worker.page # <<>> /\ Record.channels = "null" /\ ~worker.mem.dry
    /\ worker' = [worker EXCEPT !.pc = "apply", !.left = MaxRetries,
                                !.mem.journal = IF Journaled(worker.mem, Record.id) THEN @ ELSE Append(@, Record.id)]
    /\ UNCHANGED <<row, file, mine, lost>>

Journal ==
    /\ At("record") /\ worker.page # <<>> /\ Record.channels = "null" /\ ~worker.mem.dry
    /\ LET mem == [worker.mem EXCEPT !.journal = IF Journaled(worker.mem, Record.id) THEN @
                                                 ELSE Append(@, Record.id)]
       IN  /\ file' = mem
           /\ worker' = [worker EXCEPT !.pc = "apply", !.left = MaxRetries, !.mem = mem, !.committed = mem]
    /\ UNCHANGED <<row, mine, lost>>

\* applyOne: UPDATE ... WHERE channels IS NULL, repeated when it throws.
Apply ==
    /\ At("apply") /\ row[Record.id] = "null"
    /\ row' = [row EXCEPT ![Record.id] = "derived"]
    /\ mine' = mine \union {Record.id}
    /\ lost' = lost \ {Record.id}
    /\ worker' = [worker EXCEPT !.pc = "record", !.page = Tail(@), !.mem.applied = TRUE]
    /\ UNCHANGED file

\* Somebody else wrote it: its undo, of which there is only one, goes.
ApplyConflict ==
    /\ At("apply") /\ row[Record.id] # "null"
    /\ worker' = [worker EXCEPT !.pc = "record", !.page = Tail(@),
                                !.mem.journal = RemoveFirst(@, Record.id)]
    /\ UNCHANGED <<row, file, mine, lost>>

\* The UPDATE throws, and may have been carried out all the same.
ApplyFails(done) ==
    /\ "applyFault" \in Enabled /\ At("apply")
    /\ done => row[Record.id] = "null"
    /\ row' = IF done THEN [row EXCEPT ![Record.id] = "derived"] ELSE row
    /\ mine' = IF done THEN mine \union {Record.id} ELSE mine
    /\ lost' = IF done THEN lost \union {Record.id} ELSE lost
    /\ worker' = IF worker.left = 0 THEN [worker EXCEPT !.pc = "record", !.page = Tail(@)]
                                    ELSE [worker EXCEPT !.left = @ - 1]
    /\ UNCHANGED file

\* The batch is done: move the cursor, or complete, and persist.
EndBatch ==
    /\ At("record") /\ worker.page = <<>>
    /\ LET mem == [worker.mem EXCEPT !.cursor = worker.next,
                                     !.status = IF worker.next = 0 THEN "completed" ELSE @]
       IN  /\ file' = mem
           /\ worker' = IF worker.next = 0 THEN Idle
                        ELSE [worker EXCEPT !.pc = "scan", !.mem = mem, !.committed = mem]
    /\ UNCHANGED <<row, mine, lost>>

\* The scan or a persist throws: save what was last persisted as failed, if possible.
RunThrows ==
    /\ \/ "scanFault" \in Enabled /\ At("scan")
       \/ /\ "storeFault" \in Enabled /\ At("record")
          /\ worker.page # <<>> => Record.channels = "null" /\ ~worker.mem.dry
    /\ Goto("failing")
    /\ UNCHANGED <<row, file, mine, lost>>

SaveFailed ==
    /\ At("failing")
    /\ \/ file' = [worker.committed EXCEPT !.status = "failed"]
       \/ "storeFault" \in Enabled /\ UNCHANGED file
    /\ Stop
    /\ UNCHANGED <<row, mine, lost>>

-----------------------------------------------------------------------------
\* rollback: restore the newest journaled record, shorten the journal, save; repeat.
Rollback ==
    /\ At("idle") /\ file # NoFile
    /\ worker' = [pc |-> "restore", mem |-> file]
    /\ UNCHANGED <<row, file, mine, lost>>

\* UPDATE ... SET channels = NULL WHERE channels holds what the job wrote.
Undo(r) ==
    /\ row' = IF row[r] = "derived" THEN [row EXCEPT ![r] = "null"] ELSE row
    /\ mine' = IF row[r] = "derived" THEN mine \ {r} ELSE mine

Restore ==
    /\ At("restore") /\ worker.mem.journal # <<>>
    /\ Undo(Last(worker.mem.journal))
    /\ worker' = [worker EXCEPT !.pc = "shorten", !.mem.journal = Front(@)]
    /\ UNCHANGED <<file, lost>>

SaveShortened ==
    /\ At("shorten")
    /\ file' = worker.mem
    /\ Goto("restore")
    /\ UNCHANGED <<row, mine, lost>>

SaveRolledBack ==
    /\ At("restore") /\ worker.mem.journal = <<>>
    /\ file' = [worker.mem EXCEPT !.status = "rolled_back", !.applied = FALSE]
    /\ Stop
    /\ UNCHANGED <<row, mine, lost>>

\* A restore, carried out or not, or a save of the rollback throws; nothing catches it.
RestoreThrows(done) ==
    /\ "applyFault" \in Enabled /\ At("restore") /\ worker.mem.journal # <<>>
    /\ IF done THEN Undo(Last(worker.mem.journal)) ELSE UNCHANGED <<row, mine>>
    /\ Stop
    /\ UNCHANGED <<file, lost>>

RollbackThrows ==
    /\ "storeFault" \in Enabled
    /\ At("shorten") \/ (At("restore") /\ worker.mem.journal = <<>>)
    /\ Stop
    /\ UNCHANGED <<row, file, mine, lost>>

\* --restart drops the checkpoint; with rollback data in it only with --force,
\* by which the operator gives up the undo of what was written so far.
Restart(force) ==
    /\ At("idle") /\ file # NoFile
    /\ force \/ (file.journal = <<>> /\ ~file.applied)
    /\ file' = NoFile
    /\ mine' = IF force THEN {} ELSE mine
    /\ UNCHANGED <<row, worker, lost>>

-----------------------------------------------------------------------------
\* External: the API writes a record's channels; the worker's process dies.
Edit(r, v) ==
    /\ row[r] # v
    /\ row' = [row EXCEPT ![r] = v]
    /\ mine' = mine \ {r}
    /\ UNCHANGED <<file, worker, lost>>

Crash ==
    /\ "crash" \in Enabled /\ ~At("idle")
    /\ Stop
    /\ UNCHANGED <<row, file, mine, lost>>

Next ==
    \/ \E b \in BOOLEAN : Start(b) \/ ApplyFails(b) \/ RestoreThrows(b) \/ Restart(b)
    \/ Scan \/ Pass \/ Journal \/ Apply \/ ApplyConflict \/ EndBatch \/ RunThrows \/ SaveFailed
    \/ Rollback \/ Restore \/ SaveShortened \/ SaveRolledBack \/ RollbackThrows
    \/ \E r \in Records, v \in {"derived", "other"} : Edit(r, v)
    \/ Crash

Spec == Init /\ [][Next]_vars

-----------------------------------------------------------------------------
\* The shape of every variable.
TypeOK ==
    /\ row \in [Records -> Values]
    /\ file \in {NoFile} \union Checkpoints
    /\ worker.pc \in {"idle", "scan", "record", "apply", "failing", "restore", "shorten"}
    /\ ~At("idle") => worker.mem \in Checkpoints
    /\ mine \subseteq Records /\ lost \subseteq Records

\* "a crash can never leave an applied record without rollback data" (run): at
\* every moment, through crashes, failing saves, resumed runs and interrupted
\* rollbacks, a record that holds what the job wrote is in the journal of the
\* stored checkpoint, so a preview has written nothing and a rolled-back job has
\* left nothing behind.  Excepted are records whose apply was carried out but
\* reported as failed: the retry then takes them for a conflict.
AppliedIsUndoable ==
    \A r \in mine \ lost : file # NoFile /\ Journaled(file, r)

-----------------------------------------------------------------------------
\* The inductive invariant.
Running == worker.pc \in {"scan", "record", "apply", "failing"}
RollingBack == worker.pc \in {"restore", "shorten"}

IsCheckpoint(c) ==
    /\ {"status", "dry", "cursor", "journal", "applied"} \subseteq DOMAIN c
    /\ c.status \in {"running", "completed", "failed", "rolled_back"}
    /\ c.cursor \in 0..Size /\ c.journal \in Seq(Records)

Shape ==
    /\ row \in [Records -> Values]
    /\ file = NoFile \/ IsCheckpoint(file)
    /\ At("idle") \/ Running \/ RollingBack
    /\ Running => /\ {"pc", "mem", "committed", "page", "left", "next"} \subseteq DOMAIN worker
                  /\ IsCheckpoint(worker.mem) /\ IsCheckpoint(worker.committed)
                  /\ worker.next \in 0..Size
    /\ RollingBack => {"pc", "mem"} \subseteq DOMAIN worker /\ IsCheckpoint(worker.mem)

\* A page names no record twice, and none as unwritten that the job has written.
FreshPage(page, written) ==
    /\ page \in Seq([id : Records, channels : Values])
    /\ \A k, l \in 1..Len(page) : page[k].id = page[l].id => k = l
    /\ \A k \in 1..Len(page) : page[k].channels = "null" => page[k].id \notin written

PageIsFresh == Running => FreshPage(worker.page, mine \ lost)

\* Every copy of the journal, stored or in memory, has what the job wrote; the one to
\* be written next is in all of them before it is.
Holds(r) ==
    /\ file # NoFile /\ Journaled(file, r)
    /\ Running => Journaled(worker.mem, r) /\ Journaled(worker.committed, r)
    /\ RollingBack => Journaled(worker.mem, r)

AllHold ==
    /\ \A r \in mine : r \in Records /\ row[r] = "derived"
    /\ \A r \in mine \ lost : Holds(r)
    /\ At("apply") => worker.page # <<>> /\ Record.channels = "null" /\ Holds(Record.id)

IInv == Shape /\ PageIsFresh /\ AllHold
=============================================================================
