SPECIFICATION Spec
CONSTANTS
    None = None
    c1 = c1
    s1 = s1
    foreign = foreign
    Settler = settler
    Cleaner = cleaner
    Callers = {c1}
    Id = s1
    MaxSends = 2
    MaxBusy = 2
    Others = {foreign}
    Required = {1}
    Amounts <- OneAmount
    AdminTargets <- SomeTargets
    ByAdmin <- SomeTargets
INVARIANTS
    TypeOK
    NoUnbackedPayout
    CompletedMeansPaid
    PaidAgainByOverlap
PROPERTIES
    OverriddenByOverlap
    ImplementsEngine
