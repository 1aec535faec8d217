SPECIFICATION MCSpec
CONSTANTS
    r1 = r1
    r2 = r2
    r3 = r3
    other = other
    None = None
    Requests = {r1, r2, other}
    HashOf <- Hashes
    Enabled = {"dbFault", "crash"}
SYMMETRY Symmetry
CHECK_DEADLOCK FALSE
INVARIANTS
    ClaimIsExclusive
    ReplayIsGenuine
    EffectOnceWhileAnswered
    ClaimHasOwner
PROPERTY
    CompletedIsKept
