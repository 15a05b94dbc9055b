SPECIFICATION Spec
SYMMETRY Symmetry
CONSTANTS
    NoSwap = none
    Swaps = {s1}
    Deposits = {d1, d2}
    Admins = {a1, a2}
    Entered = {"liquidity", "settled"}
    HasTable = TRUE
    Faults = TRUE
    ActionLimit = 1
    MaxSends = 3
    MaxAside = 1
INVARIANTS
    TypeOK
    RecordedWasPaid
    WithdrawalIsRecorded
    PaidOncePerRequest
    OnlyRecordsClear
