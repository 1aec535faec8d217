SPECIFICATION Spec
CONSTANTS
    c1 = c1
    Calls = {c1, c2}
    Setups <- SignAndSubmit
    MaxPayments = 2
INVARIANT
    PaidOnce
