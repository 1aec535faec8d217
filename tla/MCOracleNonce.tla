---------------------------- MODULE MCOracleNonce ----------------------------
(* Three calls over two instances; one instance serves two of them. *)
EXTENDS OracleNonce, TLC

CONSTANTS c1, c2, c3

MCInstanceOf == [c \in Calls |-> IF c = c3 THEN "api2" ELSE "api1"]
Symmetry == Permutations({c1, c2})
=============================================================================
