---------------------------- MODULE PaymentOnce ----------------------------
(***************************************************************************)
(* What payments/payments.service.ts promises for one idempotency key: one *)
(* of the payments that a processor may create is chosen for good; nothing *)
(* else is ever given to a caller or carried out, and it only once.  When, *)
(* by which of several calls, and after how many failures is left open.    *)
(***************************************************************************)
CONSTANT Candidates  \* the payments that the processor may create

VARIABLES
    chosen,      \* the payment of the operation: none or one
    carriedOut,  \* per payment: how often the processor carried it out
    told         \* payments given to callers

vars == <<chosen, carriedOut, told>>

Init ==
    /\ chosen = {}
    /\ carriedOut = [p \in Candidates |-> 0]
    /\ told = {}

\* The caller for whom it was created may get to know at once.
Choose(p) ==
    /\ chosen = {} /\ chosen' = {p}
    /\ told' \in {told, {p}}
    /\ UNCHANGED carriedOut

Tell ==
    /\ told' = chosen
    /\ UNCHANGED <<chosen, carriedOut>>

Pay(p) ==
    /\ p \in chosen /\ carriedOut[p] = 0
    /\ carriedOut' = [carriedOut EXCEPT ![p] = 1]
    /\ UNCHANGED <<chosen, told>>

Next == Tell \/ \E p \in Candidates : Choose(p) \/ Pay(p)

Spec == Init /\ [][Next]_vars
=============================================================================
