------------------------- MODULE OracleNonce_proofs -------------------------
(***************************************************************************)
(* For any number of instances and concurrent calls: an open transaction   *)
(* is never overtaken, administrators included, and until an administrator *)
(* overwrites the row, getAndIncrementNonce hands out 0, 1, 2, ... and the *)
(* row never goes backwards.                                               *)
(*                                                                         *)
(* The inductive invariant has two parts.  Locked always holds: it ties    *)
(* the lock to the open transaction and the transaction to the row.        *)
(* Counted holds until the first overwrite: it ties the row to the history *)
(* and every value carried across an await or kept in a cache to the row.  *)
(***************************************************************************)
EXTENDS OracleNonce, SequenceTheorems, TLAPS

LockMatchesTransaction == \A c \in Calls : lock = c <=> pc[c] = "holding"

OpenTransactions ==
    \A c \in Calls :
        /\ pc[c] = "inserting" => local[c] = 0 /\ 0 < MaxNonce
        /\ pc[c] = "holding" => rowState # "absent" /\ local[c] = rowNonce /\ rowNonce < MaxNonce

Locked == TypeOK /\ LockMatchesTransaction /\ OpenTransactions

\* The row counts the nonces handed out, and a row that was never incremented
\* has a null lastUsedAt, which is what protects it from cleanupOldNonces.
RowCountsIssues ==
    /\ rowState = "absent" => rowNonce = 0 /\ issued = <<>>
    /\ rowNonce = Len(issued)
    /\ rowState \in {"used", "stale"} => rowNonce > 0

FetchedNonces ==
    \A c \in Calls : pc[c] = "fetched" => rowState # "absent" /\ local[c] <= rowNonce

IssuedSoFar == \A k \in 1..Len(issued) : issued[k] = k - 1

CachedNonces ==
    \A i \in Instances : cacheState[i] # "none" => rowState # "absent" /\ cacheNonce[i] <= rowNonce

Counted == RowCountsIssues /\ FetchedNonces /\ IssuedSoFar /\ CachedNonces

IInv == Locked /\ (overwritten \/ Counted)

LEMMA InitIInv == Init => IInv
  <1> SUFFICES ASSUME Init PROVE IInv
    OBVIOUS
  <1> USE NonceAssumption DEF Init
  <1>1. TypeOK
    <2>1. 0 \in 0..MaxNonce
      OBVIOUS
    <2>2. /\ rowState \in RowStates /\ rowNonce \in 0..MaxNonce /\ lock \in Calls \union {None}
          /\ overwritten \in BOOLEAN
      BY <2>1 DEF RowStates
    <2>3. /\ cacheState \in [Instances -> {"none", "fresh", "expired"}]
          /\ cacheNonce \in [Instances -> 0..MaxNonce]
      BY <2>1
    <2>4. /\ pc \in [Calls -> Places] /\ local \in [Calls -> 0..MaxNonce]
          /\ localUsed \in [Calls -> RowStates \ {"absent"}]
      BY <2>1 DEF Places, RowStates
    <2>5. issued \in Seq(0..MaxNonce)
      BY EmptySeq
    <2> QED BY <2>2, <2>3, <2>4, <2>5 DEF TypeOK
  <1>2. LockMatchesTransaction /\ OpenTransactions
    BY DEF LockMatchesTransaction, OpenTransactions
  <1>3. Counted
    BY DEF Counted, RowCountsIssues, FetchedNonces, IssuedSoFar, CachedNonces
  <1> QED BY <1>1, <1>2, <1>3 DEF IInv, Locked

-----------------------------------------------------------------------------
\* A commit writes the successor of the nonce it locked, or of 0.
LEMMA IssueLocked ==
  ASSUME Locked, NEW c \in Calls, IncCommit(c) \/ IncInsert(c)
  PROVE  /\ Locked'
         /\ local[c] < MaxNonce
         /\ \A d \in Calls : d # c => pc[d] # "holding"
  <1> USE NonceAssumption DEF Locked, Move
  <1>1. /\ pc[c] \in {"holding", "inserting"} /\ pc' = [pc EXCEPT ![c] = "committed"]
        /\ local' = [local EXCEPT ![c] = 0]
        /\ UNCHANGED <<cacheState, cacheNonce, localUsed, overwritten>>
        /\ issued' = Append(issued, local[c])
        /\ rowState' = "used" /\ rowNonce' = local[c] + 1
    BY DEF IncCommit, IncInsert, cache
  <1>2. local[c] \in 0..MaxNonce /\ local[c] < MaxNonce
    BY <1>1 DEF TypeOK, OpenTransactions
  <1>3. \A d \in Calls : d # c => pc[d] # "holding"
    BY DEF IncCommit, IncInsert, LockMatchesTransaction, OpenTransactions
  <1>4. lock' = None
    BY DEF IncCommit, IncInsert, LockMatchesTransaction, OpenTransactions, TypeOK
  <1>5. issued' \in Seq(0..MaxNonce)
    <2>1. issued \in Seq(0..MaxNonce)
      BY DEF TypeOK
    <2> QED BY <2>1, <1>1, <1>2, AppendProperties
  <1>6. TypeOK'
    BY <1>1, <1>2, <1>4, <1>5 DEF TypeOK, RowStates, Places
  <1>7. LockMatchesTransaction' /\ OpenTransactions'
    BY <1>1, <1>3, <1>4 DEF TypeOK, LockMatchesTransaction, OpenTransactions
  <1> QED BY <1>2, <1>3, <1>6, <1>7

\* ... which appends the row's nonce to the history.
LEMMA IssueCounted ==
  ASSUME Locked, Counted, NEW c \in Calls, IncCommit(c) \/ IncInsert(c)
  PROVE  Counted' /\ rowState' # "absent" /\ rowNonce' >= rowNonce
  <1> USE NonceAssumption DEF Move
  <1>1. /\ rowNonce \in 0..MaxNonce /\ issued \in Seq(0..MaxNonce) /\ Len(issued) \in Nat
        /\ local \in [Calls -> 0..MaxNonce] /\ pc \in [Calls -> Places]
        /\ cacheNonce \in [Instances -> 0..MaxNonce]
    BY DEF Locked, TypeOK
  <1>2. /\ pc' = [pc EXCEPT ![c] = "committed"] /\ local' = [local EXCEPT ![c] = 0]
        /\ UNCHANGED <<cacheState, cacheNonce>>
        /\ issued' = Append(issued, local[c])
        /\ rowState' = "used" /\ rowNonce' = local[c] + 1
    BY DEF IncCommit, IncInsert, cache
  <1>3. local[c] = rowNonce
    BY <1>1 DEF IncCommit, IncInsert, Locked, OpenTransactions, Counted, RowCountsIssues
  <1>4. /\ Len(issued') = Len(issued) + 1
        /\ \A k \in 1..Len(issued) : issued'[k] = issued[k]
        /\ issued'[Len(issued) + 1] = local[c]
    BY <1>1, <1>2, AppendProperties
  <1>5. RowCountsIssues'
    BY <1>1, <1>2, <1>3, <1>4 DEF Counted, RowCountsIssues
  <1>6. FetchedNonces'
    BY <1>1, <1>2, <1>3 DEF Counted, FetchedNonces
  <1>7. IssuedSoFar'
    <2> SUFFICES ASSUME NEW k \in 1..Len(issued') PROVE issued'[k] = k - 1
      BY DEF IssuedSoFar
    <2>1. CASE k \in 1..Len(issued)
      BY <2>1, <1>4 DEF Counted, IssuedSoFar
    <2>2. CASE k = Len(issued) + 1
      BY <2>2, <1>1, <1>3, <1>4 DEF Counted, RowCountsIssues
    <2> QED BY <2>1, <2>2, <1>1, <1>4
  <1>8. CachedNonces'
    BY <1>1, <1>2, <1>3 DEF Counted, CachedNonces
  <1> QED BY <1>1, <1>2, <1>3, <1>5, <1>6, <1>7, <1>8 DEF Counted

-----------------------------------------------------------------------------
\* The other steps of getAndIncrementNonce leave the row's nonce alone.
LEMMA IncrementStep ==
  ASSUME Locked, NEW c \in Calls,
         IncRead(c) \/ IncReadMissing(c) \/ IncFails(c) \/ InvalidateAndReturn(c)
  PROVE  Locked' /\ (Counted => Counted') /\ UNCHANGED <<rowState, rowNonce, overwritten>>
  <1> USE NonceAssumption DEF Locked, Move
  <1>1. UNCHANGED <<rowState, rowNonce, issued, overwritten, localUsed>>
    BY DEF IncRead, IncReadMissing, IncFails, InvalidateAndReturn, row, history
  <1>2. TypeOK'
    <2>1. lock' \in Calls \union {None} /\ local' \in [Calls -> 0..MaxNonce]
      <3>1. /\ lock \in Calls \union {None} /\ local \in [Calls -> 0..MaxNonce]
            /\ rowNonce \in 0..MaxNonce /\ 0 \in 0..MaxNonce
        BY DEF TypeOK
      <3>2. lock' \in Calls \union {None}
        BY <3>1 DEF IncRead, IncReadMissing, IncFails, InvalidateAndReturn, row
      <3>3. local' \in [Calls -> 0..MaxNonce]
        BY <3>1 DEF IncRead, IncReadMissing, IncFails, InvalidateAndReturn
      <3> QED BY <3>2, <3>3
    <2>2. pc' \in [Calls -> Places]
      <3>1. pc \in [Calls -> Places] /\ {"holding", "inserting", "idle"} \subseteq Places
        BY DEF TypeOK, Places
      <3> QED BY <3>1 DEF IncRead, IncReadMissing, IncFails, InvalidateAndReturn
    <2>3. /\ cacheState' \in [Instances -> {"none", "fresh", "expired"}]
          /\ cacheNonce' \in [Instances -> 0..MaxNonce]
      <3>1. /\ cacheState \in [Instances -> {"none", "fresh", "expired"}]
            /\ cacheNonce \in [Instances -> 0..MaxNonce] /\ 0 \in 0..MaxNonce
        BY DEF TypeOK
      <3> QED BY <3>1 DEF IncRead, IncReadMissing, IncFails, InvalidateAndReturn, cache
    <2> QED BY <1>1, <2>1, <2>2, <2>3 DEF TypeOK
  <1>3. LockMatchesTransaction'
    BY DEF TypeOK, LockMatchesTransaction, IncRead, IncReadMissing, IncFails, InvalidateAndReturn, row
  <1>4. OpenTransactions'
    BY DEF TypeOK, OpenTransactions, LockMatchesTransaction, IncRead, IncReadMissing, IncFails,
           InvalidateAndReturn, row
  <1>5. ASSUME Counted PROVE Counted'
    <2>1. RowCountsIssues' /\ IssuedSoFar'
      BY <1>1, <1>5 DEF Counted, RowCountsIssues, IssuedSoFar
    <2>2. FetchedNonces'
      BY <1>1, <1>5 DEF Counted, FetchedNonces, TypeOK, IncRead, IncReadMissing, IncFails, InvalidateAndReturn
    <2>3. CachedNonces'
      BY <1>1, <1>5 DEF Counted, CachedNonces, TypeOK, IncRead, IncReadMissing, IncFails,
                        InvalidateAndReturn, cache
    <2> QED BY <2>1, <2>2, <2>3 DEF Counted
  <1> QED BY <1>1, <1>2, <1>3, <1>4, <1>5

\* getCurrentNonce reads, creates the row with nonce 0, and fills the cache.
LEMMA CurrentStep ==
  ASSUME Locked, NEW c \in Calls,
         GetFetch(c) \/ GetFetchMissing(c) \/ GetCreate(c) \/ GetCreateFails(c) \/ GetFill(c)
  PROVE  /\ Locked' /\ (Counted => Counted')
         /\ (rowState # "absent" => UNCHANGED <<rowState, rowNonce>>) /\ UNCHANGED overwritten
  <1> USE NonceAssumption DEF Locked, Move
  <1>1. /\ UNCHANGED <<lock, issued, overwritten, localUsed>>
        /\ rowState # "absent" => UNCHANGED <<rowState, rowNonce>>
        /\ rowState' \in {rowState, "unused"} /\ rowNonce' \in {rowNonce, 0}
    BY DEF GetFetch, GetFetchMissing, GetCreate, GetCreateFails, GetFill, row, history
  <1>2. TypeOK'
    <2>1. local' \in [Calls -> 0..MaxNonce]
      <3>1. rowNonce \in 0..MaxNonce /\ 0 \in 0..MaxNonce /\ local \in [Calls -> 0..MaxNonce]
        BY DEF TypeOK
      <3> QED BY <3>1 DEF GetFetch, GetFetchMissing, GetCreate, GetCreateFails, GetFill
    <2>2. pc' \in [Calls -> Places]
      <3>1. pc \in [Calls -> Places] /\ {"idle", "fetched", "creating"} \subseteq Places
        BY DEF TypeOK, Places
      <3> QED BY <3>1 DEF GetFetch, GetFetchMissing, GetCreate, GetCreateFails, GetFill
    <2>3. cacheState' \in [Instances -> {"none", "fresh", "expired"}] /\ cacheNonce' \in [Instances -> 0..MaxNonce]
      BY DEF TypeOK, GetFetch, GetFetchMissing, GetCreate, GetCreateFails, GetFill, cache
    <2> QED BY <1>1, <2>1, <2>2, <2>3 DEF TypeOK, RowStates
  <1>3. LockMatchesTransaction'
    BY <1>1 DEF TypeOK, LockMatchesTransaction, GetFetch, GetFetchMissing, GetCreate, GetCreateFails, GetFill
  <1>4. OpenTransactions'
    BY <1>1 DEF TypeOK, OpenTransactions, GetFetch, GetFetchMissing, GetCreate, GetCreateFails, GetFill
  <1>5. ASSUME Counted PROVE Counted'
    <2>1. RowCountsIssues' /\ IssuedSoFar'
      BY <1>1, <1>5 DEF Counted, RowCountsIssues, IssuedSoFar
    <2>2. rowNonce' = rowNonce /\ rowNonce \in Nat
      BY <1>1, <1>5 DEF Counted, RowCountsIssues, TypeOK
    <2>3. FetchedNonces'
      <3>1. pc \in [Calls -> Places] /\ local \in [Calls -> 0..MaxNonce]
        BY DEF TypeOK
      <3>2. FetchedNonces
        BY <1>5 DEF Counted
      <3>3. CASE GetFetch(c)
        BY <3>1, <3>2, <3>3, <1>1, <2>2 DEF FetchedNonces, GetFetch
      <3>4. CASE GetCreate(c)
        BY <3>1, <3>2, <3>4, <1>1, <2>2 DEF FetchedNonces, GetCreate
      <3>5. CASE GetFetchMissing(c) \/ GetCreateFails(c) \/ GetFill(c)
        BY <3>1, <3>2, <3>5, <1>1, <2>2 DEF FetchedNonces, GetFetchMissing, GetCreateFails, GetFill, row
      <3> QED BY <3>3, <3>4, <3>5
    <2>4. CachedNonces'
      <3>1. CASE GetFill(c)
        BY <3>1, <1>1, <1>5, <2>2 DEF TypeOK, Counted, CachedNonces, FetchedNonces, GetFill, row
      <3>2. CASE ~GetFill(c)
        BY <3>2, <1>1, <1>5, <2>2 DEF TypeOK, Counted, CachedNonces, GetFetch, GetFetchMissing, GetCreate,
                                 GetCreateFails, cache
      <3> QED BY <3>1, <3>2
    <2> QED BY <2>1, <2>3, <2>4 DEF Counted
  <1> QED BY <1>1, <1>2, <1>3, <1>4, <1>5

\* An administrator's write waits for the lock, and ends the counting.
LEMMA AdminStep ==
  ASSUME Locked, NEW c \in Calls,
         SetSave(c) \/ SetSaveFails(c) \/ \E v \in AdminNonces : SetFetch(c, v)
  PROVE  Locked' /\ (overwritten' \/ ((Counted => Counted') /\ UNCHANGED <<rowState, rowNonce, overwritten>>))
  <1> USE NonceAssumption DEF Locked, Move
  <1>1. CASE SetSave(c)
    <2>1. overwritten' = TRUE
      BY <1>1 DEF SetSave
    <2>2. /\ UNCHANGED <<lock, cacheState, cacheNonce, issued>> /\ lock = None
          /\ pc' = [pc EXCEPT ![c] = "committed"] /\ local' = [local EXCEPT ![c] = 0]
          /\ localUsed' = [localUsed EXCEPT ![c] = "unused"]
          /\ rowState' = localUsed[c] /\ rowNonce' = local[c]
      BY <1>1 DEF SetSave, cache
    <2>3. TypeOK'
      BY <2>1, <2>2 DEF TypeOK, RowStates, Places
    <2>4. LockMatchesTransaction' /\ OpenTransactions'
      BY <2>2 DEF TypeOK, LockMatchesTransaction, OpenTransactions
    <2> QED BY <2>1, <2>3, <2>4
  <1>2. CASE SetSaveFails(c) \/ \E v \in AdminNonces : SetFetch(c, v)
    <2>1. UNCHANGED <<rowState, rowNonce, lock, cacheState, cacheNonce, issued, overwritten>>
      BY <1>2 DEF SetSaveFails, SetFetch, row, cache, history
    <2>2. PICK p \in {"idle", "setting", "setInserting"}, v \in 0..MaxNonce, u \in RowStates \ {"absent"} :
            /\ pc' = [pc EXCEPT ![c] = p]
            /\ local' = [local EXCEPT ![c] = v]
            /\ localUsed' = [localUsed EXCEPT ![c] = u]
            /\ pc[c] \in {"idle", "setInserting"}
      <3>1. CASE SetSaveFails(c)
        <4>1. "unused" \in RowStates \ {"absent"} /\ 0 \in 0..MaxNonce
          BY DEF RowStates
        <4> QED BY <4>1, <3>1 DEF SetSaveFails
      <3>2. ASSUME NEW v \in AdminNonces, SetFetch(c, v)
            PROVE  \E p \in {"idle", "setting", "setInserting"}, u \in RowStates \ {"absent"} :
                     /\ pc' = [pc EXCEPT ![c] = p]
                     /\ local' = [local EXCEPT ![c] = v]
                     /\ localUsed' = [localUsed EXCEPT ![c] = u]
                     /\ pc[c] \in {"idle", "setInserting"}
        <4>1. /\ "unused" \in RowStates \ {"absent"}
              /\ rowState # "absent" => rowState \in RowStates \ {"absent"}
          BY DEF TypeOK, RowStates
        <4>2. CASE rowState = "absent"
          BY <3>2, <4>1, <4>2 DEF SetFetch
        <4>3. CASE rowState # "absent"
          BY <3>2, <4>1, <4>3 DEF SetFetch
        <4> QED BY <4>2, <4>3
      <3>3. AdminNonces \subseteq 0..MaxNonce
        OBVIOUS
      <3> QED BY <1>2, <3>1, <3>2, <3>3
    <2>3. TypeOK'
      BY <2>1, <2>2 DEF TypeOK, Places
    <2>4. LockMatchesTransaction' /\ OpenTransactions'
      BY <2>1, <2>2 DEF TypeOK, LockMatchesTransaction, OpenTransactions
    <2>5. ASSUME Counted PROVE Counted'
      BY <2>1, <2>2, <2>5 DEF TypeOK, Counted, RowCountsIssues, FetchedNonces, IssuedSoFar, CachedNonces
    <2> QED BY <2>1, <2>3, <2>4, <2>5
  <1> QED BY <1>1, <1>2

\* Time, cleanup and restarts.  While the row counts, cleanupOldNonces finds
\* nothing: a row it may delete has been used, so its nonce is not 0.
LEMMA EnvironmentStep ==
  ASSUME Locked,
         \/ \E i \in Instances : CacheExpires(i) \/ ClearStaleCache(i) \/ Restart(i)
         \/ RowAges \/ CleanupOldNonces
  PROVE  /\ Locked' /\ UNCHANGED <<rowNonce, overwritten>>
         /\ Counted => Counted' /\ (rowState # "absent" => rowState' # "absent")
  <1> USE NonceAssumption DEF Locked
  <1>1. CASE RowAges
    <2>1. UNCHANGED <<rowNonce, lock, cacheState, cacheNonce, pc, local, localUsed, issued, overwritten>>
          /\ rowState = "used" /\ rowState' = "stale"
      BY <1>1 DEF RowAges, cache, call, history
    <2> QED BY <2>1 DEF TypeOK, RowStates, LockMatchesTransaction, OpenTransactions, Counted,
                        RowCountsIssues, FetchedNonces, IssuedSoFar, CachedNonces
  <1>2. CASE CleanupOldNonces
    <2>1. UNCHANGED <<rowNonce, lock, cacheState, cacheNonce, pc, local, localUsed, issued, overwritten>>
          /\ rowState = "stale" /\ rowNonce = 0 /\ lock = None /\ rowState' = "absent"
      BY <1>2 DEF CleanupOldNonces, cache, call, history
    <2>2. ~Counted
      BY <2>1 DEF Counted, RowCountsIssues
    <2>3. TypeOK' /\ LockMatchesTransaction'
      BY <2>1 DEF TypeOK, RowStates, LockMatchesTransaction
    <2>4. OpenTransactions'
      BY <2>1 DEF OpenTransactions, LockMatchesTransaction
    <2> QED BY <2>1, <2>2, <2>3, <2>4
  <1>3. ASSUME NEW i \in Instances, CacheExpires(i) \/ ClearStaleCache(i)
        PROVE  Locked' /\ (Counted => Counted') /\ UNCHANGED <<rowState, rowNonce, overwritten>>
    <2>1. UNCHANGED <<rowState, rowNonce, lock, pc, local, localUsed, issued, overwritten>>
      BY <1>3 DEF CacheExpires, ClearStaleCache, row, call, history
    <2>2. TypeOK'
      <3>1. /\ cacheState' \in [Instances -> {"none", "fresh", "expired"}]
            /\ cacheNonce' \in [Instances -> 0..MaxNonce]
        <4>1. /\ cacheState \in [Instances -> {"none", "fresh", "expired"}]
              /\ cacheNonce \in [Instances -> 0..MaxNonce] /\ 0 \in 0..MaxNonce
          BY DEF TypeOK
        <4> QED BY <4>1, <1>3 DEF CacheExpires, ClearStaleCache
      <3> QED BY <2>1, <3>1 DEF TypeOK
    <2>3. CachedNonces => CachedNonces'
      BY <1>3, <2>1 DEF TypeOK, CachedNonces, CacheExpires, ClearStaleCache
    <2> QED BY <2>1, <2>2, <2>3 DEF Counted, RowCountsIssues, FetchedNonces, IssuedSoFar,
                              LockMatchesTransaction, OpenTransactions
  <1>4. ASSUME NEW i \in Instances, Restart(i)
        PROVE  Locked' /\ (Counted => Counted') /\ UNCHANGED <<rowState, rowNonce, overwritten>>
    <2>1. UNCHANGED <<rowState, rowNonce, issued, overwritten>>
      BY <1>4 DEF Restart, history
    <2>2. TypeOK' /\ (CachedNonces => CachedNonces')
      BY <1>4, <2>1 DEF TypeOK, CachedNonces, Restart, RowStates, Places
    <2>3. LockMatchesTransaction' /\ OpenTransactions' /\ (FetchedNonces => FetchedNonces')
      BY <1>4, <2>1 DEF TypeOK, LockMatchesTransaction, OpenTransactions, FetchedNonces, Restart
    <2> QED BY <2>1, <2>2, <2>3 DEF Counted, RowCountsIssues, IssuedSoFar
  <1> QED BY <1>1, <1>2, <1>3, <1>4 DEF RowAges

-----------------------------------------------------------------------------
\* Every step keeps the invariant and, until an overwrite, the row's progress.
LEMMA NextIInv ==
  ASSUME IInv, [Next]_vars
  PROVE  /\ IInv'
         /\ ~overwritten' /\ rowState # "absent" => rowState' # "absent" /\ rowNonce' >= rowNonce
  <1> USE DEF IInv
  <1>1. rowNonce \in Nat /\ rowNonce >= rowNonce
    BY NonceAssumption DEF Locked, TypeOK
  <1>2. CASE UNCHANGED vars
    <2>1. UNCHANGED <<rowState, rowNonce, lock, cacheState, cacheNonce, pc, local, localUsed, issued, overwritten>>
      BY <1>2 DEF vars, row, cache, call, history
    <2> QED BY <1>1, <2>1 DEF Locked, TypeOK, LockMatchesTransaction, OpenTransactions,
                Counted, RowCountsIssues, FetchedNonces, IssuedSoFar, CachedNonces
  <1>3. ASSUME NEW c \in Calls, IncCommit(c) \/ IncInsert(c)
        PROVE  IInv' /\ (~overwritten' => rowState' # "absent" /\ rowNonce' >= rowNonce)
    <2>1. overwritten' = overwritten
      BY <1>3 DEF IncCommit, IncInsert
    <2> QED BY <1>3, <2>1, IssueLocked, IssueCounted
  <1> QED BY <1>1, <1>2, <1>3, IncrementStep, CurrentStep, AdminStep, EnvironmentStep DEF Next

LEMMA Invariance == Spec => []IInv
  <1>1. IInv /\ [Next]_vars => IInv'
    BY NextIInv
  <1> QED BY <1>1, InitIInv, PTL DEF Spec

\* Type correctness of the service's state, administrators included.
THEOREM TypeCorrect == Spec => []TypeOK
  <1>1. IInv => TypeOK
    BY DEF IInv, Locked
  <1> QED BY <1>1, Invariance, PTL

\* No nonce is ever handed out twice or skipped, for any number of instances,
\* calls and crashes, until an administrator interferes (getAndIncrementNonce).
THEOREM NoncesAreUnique == Spec => []IssuedInSequence
  <1>1. IInv => IssuedInSequence
    BY DEF IInv, Counted, IssuedSoFar, IssuedInSequence
  <1> QED BY <1>1, Invariance, PTL

\* No cache of any instance is ahead of the row (getCurrentNonce).
THEOREM CachesLagBehind == Spec => []CacheNeverAhead
  <1>1. IInv => CacheNeverAhead
    BY DEF IInv, Counted, CachedNonces, CacheNeverAhead
  <1> QED BY <1>1, Invariance, PTL

\* A transaction that locked the row is never overtaken by another writer,
\* administrators and cleanup included (getAndIncrementNonce, setNonce).
THEOREM LockedReadsAreCurrent == Spec => []LockedReadIsCurrent
  <1>1. IInv => LockedReadIsCurrent
    BY DEF IInv, Locked, OpenTransactions, LockedReadIsCurrent
  <1> QED BY <1>1, Invariance, PTL

\* The row's nonce is monotonic and the row is never lost (cleanupOldNonces).
THEOREM RowIsMonotonic == Spec => NonceNeverRegresses
  <1>1. IInv /\ [Next]_vars =>
          [~overwritten' /\ rowState # "absent" => rowState' # "absent" /\ rowNonce' >= rowNonce]_vars
    BY NextIInv
  <1> QED BY <1>1, Invariance, PTL DEF Spec, NonceNeverRegresses
=============================================================================
