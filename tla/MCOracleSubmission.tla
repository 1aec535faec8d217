------------------------- MODULE MCOracleSubmission -------------------------
(***************************************************************************)
(* Three small instances of OracleSubmission, chosen by the rigid variable *)
(* mode: concurrent calls and monitors with every disturbance, without and *)
(* with a retry in submitPayload's loop, and one caller at a time with     *)
(* none and with monitors that are resumed.                                *)
(***************************************************************************)
EXTENDS OracleSubmission

CONSTANTS w1, m1

VARIABLE mode

Loop == INSTANCE OracleSubmission WITH Monitors <- {m1}, MaxRetries <- 1
Sequential == INSTANCE OracleSubmission WITH Workers <- {w1}, MaxRetries <- 2, Enabled <- {}

MCVars == <<mode, vars>>

MCInit ==
    \/ mode = "concurrent" /\ Init
    \/ mode = "loop" /\ Loop!Init
    \/ mode = "sequential" /\ Sequential!Init

MCNext ==
    /\ UNCHANGED mode
    /\ \/ mode = "concurrent" /\ Next
       \/ mode = "loop" /\ Loop!Next
       \/ mode = "sequential" /\ Sequential!Next

\* The fairness of LiveSpec, for the sequential instance.
Sequentially(A) == mode = "sequential" /\ A /\ Sequential!StaysCalm /\ UNCHANGED mode

MCSpec ==
    /\ MCInit
    /\ [][MCNext]_MCVars
    /\ \A t \in Tx : WF_MCVars(Sequentially(Sequential!Mine(t)))
    /\ \A m \in Monitors : WF_MCVars(Sequentially(Sequential!MonitorStep(m)))

-----------------------------------------------------------------------------
\* While no two calls overlap and nothing fails, every SUBMITTED payload
\* reaches a verdict (monitorTransaction).
SequentialResolves ==
    mode = "sequential" /\ row.status = "SUBMITTED" ~> row.status # "SUBMITTED"
=============================================================================
