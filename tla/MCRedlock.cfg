SPECIFICATION Spec
CONSTANTS
    Callers = {c1, c2}
    Nodes = {n1, n2, n3}
    TTL = 3
    Drift = 1
    MaxTime = 4
    MaxSent = 3
    None = None
SYMMETRY Symmetry
INVARIANTS
    AtMostOneValid
    ValidLockHasQuorum
PROPERTY
    ImplementsMutex
CHECK_DEADLOCK FALSE
