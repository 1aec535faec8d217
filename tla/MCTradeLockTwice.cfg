SPECIFICATION Spec
CONSTANTS
    Requests = {r1, r2, r3}
    Keys = {k1, k2}
    MaxTrades = 4
    MaxExpiries = 1
    NoRequest = NoRequest
INVARIANT
    KeyTradesOnce
CHECK_DEADLOCK FALSE
