---------------------------- MODULE MCIdempotency ----------------------------
(***************************************************************************)
(* Requests with one key, for two payloads.  The rigid variable mode       *)
(* chooses an instance: three requests while the database fails and        *)
(* instances crash, or four while nothing does.                            *)
(***************************************************************************)
EXTENDS Idempotency, TLC

CONSTANTS r1, r2, r3, other

VARIABLE mode

MCVars == <<mode, vars>>
Hashes == [r \in {r1, r2, r3, other} |-> IF r = other THEN "B" ELSE "A"]
Symmetry == Permutations({r1, r2})

Quiet == INSTANCE Idempotency WITH Requests <- {r1, r2, r3, other}, Enabled <- {}

MCInit ==
    \/ mode = "faulty" /\ Init
    \/ mode = "quiet" /\ Quiet!Init

MCNext ==
    /\ UNCHANGED mode
    /\ \/ mode = "faulty" /\ Next
       \/ mode = "quiet" /\ Quiet!Next

MCSpec == MCInit /\ [][MCNext]_MCVars
=============================================================================
