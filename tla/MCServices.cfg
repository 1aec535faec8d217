SPECIFICATION ServicesSpec
CONSTANTS
    p0 = p0
    p1 = p1
    p2 = p2
    Calls = {p1, p2}
    Requests = {p0, p1, p2}
    Enabled = {"evidenceFault", "dbFault", "crash", "fault", "stall", "scanFault", "storeFault", "applyFault",
               "outage", "restart", "reset"}
    Intents = {1, 2}
    MaxPayments = 2
    Setups <- Deployments
    MaxTokens = 3
    MaxAttempts = 2
    MaxDeaths = 3
    MaxRows = 2
    MaxTransfers = 2
    Keys = {"k1", "k2"}
    MaxTrades = 4
    MaxExpiries = 1
    NoRequest = "none"
    Events = {"e1", "e2"}
    MaxEntries = 2
    MaxIds = 4
    Subscribers = 2
    MaxDeliveries = 3
    Size = 3
    Batch = 2
    MaxRetries = 1
    Transactions = 2
    Listed = 4
    Hash <- Hashes
    Memo <- Memos
    Reference <- References
    None = "none"
    Expected = 2
    MaxManuals = 1
    Length = 3
    Handled = {1, 3}
    CheckpointEvery = 1
    Instances = {"api1", "api2"}
    Ahead <- Clocks
    Slowest = 0
    Fastest = 1
    Limit = 2
    Window = 2
    Burst = 2
    CheckEvery = 2
    MaxTime = 2
    MaxAdmitted = 4
SYMMETRY Symmetry
INVARIANTS
    IntentRunsOnce
    WithdrawnNeverRuns
    TwinsAreConcurrent
    RowIsTrue
    OneResponse
    SurvivorsWereUnseen
    RequeueIsEarned
    AcknowledgedPauseHolds
    QuietDecisionStands
    ExclusiveUnlessCrowded
    FailureIsKept
    CountsAreExact
    EachStoreHolds
    AppliedIsUndoable
    DuplicatesCreditOnce
    CursorNeverSkips
    PublishedIsExact
PROPERTIES
    ImplementsPaymentOnce
CHECK_DEADLOCK FALSE
