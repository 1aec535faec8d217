------------------------------ MODULE MCRedlock ------------------------------
(* Three nodes and two callers; callers and nodes are interchangeable. *)
EXTENDS Redlock, TLC

Symmetry == Permutations(Callers) \union Permutations(Nodes)
=============================================================================
