--------------------------- MODULE MCReconciliation ---------------------------
(* One payment of half the amount of one invoice, one call after another. *)
EXTENDS Reconciliation

MCHash == <<1>>
MCMemo == [t \in 1..1 |-> "order1"]
MCReference == [i \in {"inv1"} |-> "order1"]
=============================================================================
