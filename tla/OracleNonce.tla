----------------------------- MODULE OracleNonce -----------------------------
(***************************************************************************)
(* NonceManagementService of blockchain/oracle: one submission_nonces row, *)
(* shared by several API instances, each with an in-memory nonce cache.    *)
(*                                                                         *)
(* The model follows one signer address: rows and cache entries of         *)
(* different addresses never touch each other.  Every await of the service *)
(* is a step boundary.  PostgreSQL is external: SELECT ... FOR UPDATE locks *)
(* an existing row until commit, a missing row takes no lock, the unique   *)
(* index on address makes the second INSERT fail, and an UPDATE or DELETE  *)
(* of a locked row waits for the lock.  repository.save of a loaded entity *)
(* writes the whole snapshot back and inserts it if the row is gone.       *)
(***************************************************************************)
EXTENDS Integers, Sequences

CONSTANTS
    Instances,    \* API processes
    Calls,        \* calls in progress
    InstanceOf,   \* the instance that serves each call
    AdminNonces,  \* the values setNonce / resetNonce may be called with
    MaxNonce,     \* bound on the row's nonce
    MaxIssued,    \* bound on the increments begun
    None          \* no call holds the row lock

ASSUME NonceAssumption ==
    /\ InstanceOf \in [Calls -> Instances]
    /\ MaxNonce \in Nat
    /\ MaxIssued \in Nat
    /\ AdminNonces \subseteq 0..MaxNonce
    /\ None \notin Calls

VARIABLES
    rowState,   \* the row: absent, or lastUsedAt null / recent / 90 days ago
    rowNonce,   \* the row's nonce column
    lock,       \* the call whose transaction holds the row lock
    cacheState, \* per instance: no entry, younger or older than CACHE_TTL
    cacheNonce, \* per instance: the cached nonce
    pc,         \* where each call is suspended
    local,      \* the nonce each call carries across its await
    localUsed,  \* the lastUsedAt of setNonce's snapshot
    issued,     \* history: nonces handed out by getAndIncrementNonce
    overwritten \* history: an administrator has set the nonce

row == <<rowState, rowNonce, lock>>
cache == <<cacheState, cacheNonce>>
call == <<pc, local, localUsed>>
history == <<issued, overwritten>>
vars == <<row, cache, call, history>>

Init ==
    /\ rowState = "absent" /\ rowNonce = 0 /\ lock = None
    /\ cacheState = [i \in Instances |-> "none"]
    /\ cacheNonce = [i \in Instances |-> 0]
    /\ pc = [c \in Calls |-> "idle"]
    /\ local = [c \in Calls |-> 0]
    /\ localUsed = [c \in Calls |-> "unused"]
    /\ issued = <<>> /\ overwritten = FALSE

\* Call c goes on from here to next, where it carries the nonce v (0: nothing).
Move(c, here, next, v) ==
    /\ pc[c] = here
    /\ pc' = [pc EXCEPT ![c] = next]
    /\ local' = [local EXCEPT ![c] = v]

-----------------------------------------------------------------------------
\* getAndIncrementNonce: the locking read of the transaction.
IncReadUnlocked(c) ==  \* mutant: findOne without the pessimistic_write lock
    /\ rowState # "absent" /\ rowNonce < MaxNonce /\ Len(issued) < MaxIssued
    /\ Move(c, "idle", "holding", rowNonce)
    /\ UNCHANGED <<row, cache, localUsed, history>>

IncRead(c) ==
    /\ rowState # "absent" /\ rowNonce < MaxNonce /\ Len(issued) < MaxIssued
    /\ lock = None
    /\ Move(c, "idle", "holding", rowNonce)
    /\ lock' = c
    /\ UNCHANGED <<rowState, rowNonce, cache, localUsed, history>>

\* No row to lock: the entity is created in memory with nonce 0.
IncReadMissing(c) ==
    /\ rowState = "absent" /\ 0 < MaxNonce /\ Len(issued) < MaxIssued
    /\ Move(c, "idle", "inserting", 0)
    /\ UNCHANGED <<row, cache, localUsed, history>>

\* The transaction saves nonce + 1 with lastUsedAt = now and commits.
IncCommit(c) ==
    /\ Move(c, "holding", "committed", 0)
    /\ rowState' = "used" /\ rowNonce' = local[c] + 1
    /\ lock' = None
    /\ issued' = Append(issued, local[c])
    /\ UNCHANGED <<cache, localUsed, overwritten>>

IncInsert(c) ==
    /\ rowState = "absent"
    /\ Move(c, "inserting", "committed", 0)
    /\ rowState' = "used" /\ rowNonce' = local[c] + 1
    /\ issued' = Append(issued, local[c])
    /\ UNCHANGED <<lock, cache, localUsed, overwritten>>

\* The transaction fails: the other INSERT won the unique index, or the
\* database rolled it back.  The caller gets the error, no nonce is handed out.
IncFails(c) ==
    /\ \/ rowState # "absent" /\ Move(c, "inserting", "idle", 0)
       \/ Move(c, "holding", "idle", 0)
    /\ lock' = IF lock = c THEN None ELSE lock
    /\ UNCHANGED <<rowState, rowNonce, cache, localUsed, history>>

\* After the commit of getAndIncrementNonce or the save of setNonce: the cache
\* entry of this instance is deleted and the call returns.
InvalidateAndReturn(c) ==
    /\ Move(c, "committed", "idle", 0)
    /\ cacheState' = [cacheState EXCEPT ![InstanceOf[c]] = "none"]
    /\ cacheNonce' = [cacheNonce EXCEPT ![InstanceOf[c]] = 0]
    /\ UNCHANGED <<row, localUsed, history>>

-----------------------------------------------------------------------------
\* getCurrentNonce (also called by validateNonce).  A fresh cache entry is
\* returned without a step of its own; otherwise the row is read.
GetFetch(c) ==
    /\ cacheState[InstanceOf[c]] # "fresh"
    /\ rowState # "absent"
    /\ Move(c, "idle", "fetched", rowNonce)
    /\ UNCHANGED <<row, cache, localUsed, history>>

GetFetchMissing(c) ==
    /\ cacheState[InstanceOf[c]] # "fresh"
    /\ rowState = "absent"
    /\ Move(c, "idle", "creating", 0)
    /\ UNCHANGED <<row, cache, localUsed, history>>

\* The missing row is inserted with nonce 0 and lastUsedAt null.
GetCreate(c) ==
    /\ rowState = "absent"
    /\ Move(c, "creating", "fetched", 0)
    /\ rowState' = "unused" /\ rowNonce' = 0
    /\ UNCHANGED <<lock, cache, localUsed, history>>

GetCreateFails(c) ==
    /\ rowState # "absent"
    /\ Move(c, "creating", "idle", 0)
    /\ UNCHANGED <<row, cache, localUsed, history>>

\* The value read is cached and returned.
GetFillLooksAhead(c) ==  \* mutant: the next nonce is cached
    /\ Move(c, "fetched", "idle", 0)
    /\ cacheState' = [cacheState EXCEPT ![InstanceOf[c]] = "fresh"]
    /\ cacheNonce' = [cacheNonce EXCEPT ![InstanceOf[c]] = local[c] + 1]
    /\ UNCHANGED <<row, localUsed, history>>

GetFill(c) ==
    /\ Move(c, "fetched", "idle", 0)
    /\ cacheState' = [cacheState EXCEPT ![InstanceOf[c]] = "fresh"]
    /\ cacheNonce' = [cacheNonce EXCEPT ![InstanceOf[c]] = local[c]]
    /\ UNCHANGED <<row, localUsed, history>>

\* CACHE_TTL passes, and clearStaleCache drops what it finds expired.
CacheExpires(i) ==
    /\ cacheState[i] = "fresh"
    /\ cacheState' = [cacheState EXCEPT ![i] = "expired"]
    /\ UNCHANGED <<row, cacheNonce, call, history>>

ClearStaleCache(i) ==
    /\ cacheState[i] = "expired"
    /\ cacheState' = [cacheState EXCEPT ![i] = "none"]
    /\ cacheNonce' = [cacheNonce EXCEPT ![i] = 0]
    /\ UNCHANGED <<row, call, history>>

-----------------------------------------------------------------------------
\* setNonce / resetNonce: an unlocked read, then a save of the snapshot.
SetFetch(c, v) ==
    /\ IF rowState = "absent" THEN Move(c, "idle", "setInserting", v)
                              ELSE Move(c, "idle", "setting", v)
    /\ localUsed' = [localUsed EXCEPT ![c] = IF rowState = "absent" THEN "unused" ELSE rowState]
    /\ UNCHANGED <<row, cache, history>>

SetSave(c) ==
    /\ lock = None
    /\ \/ Move(c, "setting", "committed", 0)
       \/ rowState = "absent" /\ Move(c, "setInserting", "committed", 0)
    /\ rowState' = localUsed[c] /\ rowNonce' = local[c]
    /\ overwritten' = TRUE
    /\ localUsed' = [localUsed EXCEPT ![c] = "unused"]
    /\ UNCHANGED <<lock, cache, issued>>

SetSaveFails(c) ==
    /\ rowState # "absent"
    /\ Move(c, "setInserting", "idle", 0)
    /\ localUsed' = [localUsed EXCEPT ![c] = "unused"]
    /\ UNCHANGED <<row, cache, history>>

\* Ninety days without a use, then cleanupOldNonces: only rows whose nonce is
\* 0 go, and LessThan never matches a null lastUsedAt.
RowAges ==
    /\ rowState = "used"
    /\ rowState' = "stale"
    /\ UNCHANGED <<rowNonce, lock, cache, call, history>>

CleanupAnyNonce ==  \* mutant: the nonce = "0" condition is missing
    /\ rowState = "stale" /\ lock = None
    /\ rowState' = "absent"
    /\ UNCHANGED <<rowNonce, lock, cache, call, history>>

CleanupOldNonces ==
    /\ rowState = "stale" /\ rowNonce = 0
    /\ lock = None
    /\ rowState' = "absent"
    /\ UNCHANGED <<rowNonce, lock, cache, call, history>>

\* An instance dies: its calls vanish, its transactions roll back and its
\* cache is gone.
Restart(i) ==
    /\ pc' = [c \in Calls |-> IF InstanceOf[c] = i THEN "idle" ELSE pc[c]]
    /\ local' = [c \in Calls |-> IF InstanceOf[c] = i THEN 0 ELSE local[c]]
    /\ localUsed' = [c \in Calls |-> IF InstanceOf[c] = i THEN "unused" ELSE localUsed[c]]
    /\ lock' = IF lock \in Calls /\ InstanceOf[lock] = i THEN None ELSE lock
    /\ cacheState' = [cacheState EXCEPT ![i] = "none"]
    /\ cacheNonce' = [cacheNonce EXCEPT ![i] = 0]
    /\ UNCHANGED <<rowState, rowNonce, history>>

-----------------------------------------------------------------------------
Next ==
    \/ \E c \in Calls :
          \/ IncRead(c) \/ IncReadMissing(c) \/ IncCommit(c) \/ IncInsert(c) \/ IncFails(c)
          \/ InvalidateAndReturn(c)
          \/ GetFetch(c) \/ GetFetchMissing(c) \/ GetCreate(c) \/ GetCreateFails(c) \/ GetFill(c)
          \/ \E v \in AdminNonces : SetFetch(c, v)
          \/ SetSave(c) \/ SetSaveFails(c)
    \/ \E i \in Instances : CacheExpires(i) \/ ClearStaleCache(i) \/ Restart(i)
    \/ RowAges \/ CleanupOldNonces

Spec == Init /\ [][Next]_vars

-----------------------------------------------------------------------------
RowStates == {"absent", "unused", "used", "stale"}
Places == {"idle", "holding", "inserting", "committed", "fetched", "creating", "setting", "setInserting"}

\* The shape of every variable; the row lock belongs to the call whose
\* transaction is open.
TypeOK ==
    /\ rowState \in RowStates
    /\ rowNonce \in 0..MaxNonce
    /\ lock \in Calls \union {None}
    /\ cacheState \in [Instances -> {"none", "fresh", "expired"}]
    /\ cacheNonce \in [Instances -> 0..MaxNonce]
    /\ pc \in [Calls -> Places]
    /\ local \in [Calls -> 0..MaxNonce]
    /\ localUsed \in [Calls -> RowStates \ {"absent"}]
    /\ issued \in Seq(0..MaxNonce)
    /\ overwritten \in BOOLEAN

\* getAndIncrementNonce "ensures no two submissions get the same nonce": until
\* an administrator overwrites the row, the nonces handed out, across all
\* instances, first-use races, failed inserts, crashes and cleanups, are
\* exactly 0, 1, 2, ... in commit order.
IssuedInSequence == ~overwritten => \A k \in 1..Len(issued) : issued[k] = k - 1

\* A transaction that holds the row still sees the row it read, also when
\* administrators set the nonce and cleanup deletes rows: no lost update.
LockedReadIsCurrent ==
    \A c \in Calls : pc[c] = "holding" => rowState # "absent" /\ rowNonce = local[c]

\* getCurrentNonce may lag behind but, administrators apart, never promises a
\* nonce the row has not reached, whatever instance and cache answered.
CacheNeverAhead ==
    ~overwritten => \A i \in Instances :
        cacheState[i] # "none" => rowState # "absent" /\ cacheNonce[i] <= rowNonce

\* "Each address has a monotonically increasing nonce": until an administrator
\* overwrites it, no step lowers the row's nonce or loses the row.
NonceNeverRegresses ==
    [][~overwritten' /\ rowState # "absent" => rowState' # "absent" /\ rowNonce' >= rowNonce]_vars
=============================================================================
