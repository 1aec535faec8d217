SPECIFICATION Spec
CONSTANTS
    Instances = {"api1", "api2"}
    c1 = c1
    c2 = c2
    c3 = c3
    Calls = {c1, c2, c3}
    InstanceOf <- MCInstanceOf
    AdminNonces = {0, 2}
    MaxNonce = 2
    MaxIssued = 2
    None = None
SYMMETRY Symmetry
INVARIANTS
    LockedReadIsCurrent
    IssuedInSequence
    CacheNeverAhead
PROPERTIES
    NonceNeverRegresses
