SPECIFICATION LiveSpec
CONSTANTS
    Subscribers = 1
    MaxDeliveries = 2
    MaxAttempts = 3
    Workers = {p1}
    Enabled = {}
PROPERTY
    FailedIsRetried
CHECK_DEADLOCK FALSE
