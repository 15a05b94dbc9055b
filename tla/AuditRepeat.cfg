SPECIFICATION Spec
CONSTANTS
    NoSwap = none
    Swaps = {s1}
    Deposits = {d1}
    Admins = {a1}
    Entered = {"liquidity"}
    HasTable = FALSE
    Faults = FALSE
    ActionLimit = 1
    MaxSends = 2
    MaxAside = 1
INVARIANTS
    HandledOnce
