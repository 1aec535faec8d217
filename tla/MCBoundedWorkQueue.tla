-------------------------- MODULE MCBoundedWorkQueue --------------------------
(* Five tasks of two permitted actors and one of a refused actor, two slots. *)
EXTENDS BoundedWorkQueue

MCActorOf ==
    [t \in Tasks |-> IF t <= 3 THEN "alice" ELSE IF t <= 5 THEN "bob" ELSE "carol"]
=============================================================================
