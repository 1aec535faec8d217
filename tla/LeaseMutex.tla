----------------------------- MODULE LeaseMutex -----------------------------
(***************************************************************************)
(* What infrastructure/distributed-lock promises to its callers: at any    *)
(* time at most one of them owns the lock, and it changes hands only       *)
(* through a moment without an owner.  How ownership ends (release, expiry *)
(* or a dead process) is left open.                                        *)
(***************************************************************************)
CONSTANTS
    Callers,  \* invocations that want the lock
    None      \* nobody

VARIABLE owner

Init == owner = None

Acquire(p) == owner = None /\ owner' = p

Lose(p) == owner = p /\ owner' = None

Next == \E p \in Callers : Acquire(p) \/ Lose(p)

Spec == Init /\ [][Next]_owner
=============================================================================
