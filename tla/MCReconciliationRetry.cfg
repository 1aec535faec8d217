SPECIFICATION Spec
CONSTANTS
    Transactions = 1
    Listed = 1
    Hash <- MCHash
    Memo <- MCMemo
    Reference <- MCReference
    None = None
    Expected = 2
    Calls = {"c1"}
    MaxManuals = 1
    Enabled = {}
INVARIANT CreditedOnce
CHECK_DEADLOCK FALSE
