SPECIFICATION MCSpec
CONSTANTS
    w1 = w1
    m1 = m1
    Workers = {w1, w2}
    Monitors = {m1, m2}
    MaxRetries = 0
    MaxTx = 2
    Enabled = {"retry", "lostResponse", "dbFault", "providerFault", "crash"}
INVARIANTS
    ConfirmedMeansMined
    SubmittedIsTraceable
    CalmBroadcastsOnce
PROPERTIES
    CalmIsFinal
    SequentialResolves
CHECK_DEADLOCK FALSE
