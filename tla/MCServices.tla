------------------------------ MODULE MCServices ------------------------------
(***************************************************************************)
(* Small instances of the services; the numbers are in MCServices.cfg.     *)
(***************************************************************************)
EXTENDS Services, TLC

CONSTANTS p0, p1, p2  \* calls, requests or workers

\* Deployments of the payment service: p0 does everything and the others submit,
\* to a processor that must not be called twice or, with clients' signatures, to
\* one that is safe to retry; or everybody creates and nothing goes wrong.
Deployment(ops, isSafe, enabled) ==
    [may |-> [c \in Requests |-> IF c = p0 THEN {"create", "sign", "submit"} ELSE ops],
     safe |-> isSafe, clientSigns |-> isSafe, enabled |-> enabled]
Deployments ==
    {Deployment({"submit"}, isSafe, {"processorFault", "dbFault", "crash", "delay"}) : isSafe \in BOOLEAN}
    \union {Deployment({"create", "submit"}, FALSE, {})}

\* An invoice, a transaction meant for it and another one.  Horizon lists two
\* payments of the first one, with a record of another type between them.
Hashes == <<1, 0, 1, 2>>
Memos == [t \in 1..2 |-> IF t = 1 THEN "order1" ELSE "order2"]
References == [i \in {"inv1"} |-> "order1"]

\* The clock of one API instance is a second ahead.
Clocks == [i \in Instances |-> IF i = "api1" THEN 0 ELSE 1]

\* p0 plays a part of its own in the instances that have it.
Symmetry == Permutations(Calls)
=============================================================================
