SPECIFICATION Spec
CONSTANTS
    Workers = {w1, w2}
    Monitors = {m1, m2}
    MaxRetries = 1
    MaxTx = 2
    Enabled = {}
INVARIANTS
    BroadcastOnce
CHECK_DEADLOCK FALSE
