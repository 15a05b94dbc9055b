SPECIFICATION Spec
SYMMETRY Symmetry
CONSTANTS
    None = none
    Runners = {c, o1, o2}
    Containers = {c}
    Steps = 3
    Alters = {2, 3}
    KeyCount = 2
    Values = {default, other}
    Default = default
INVARIANTS
    TypeOK
    RecordFollowsSchema
    UpIsReady
PROPERTIES
    SettingsAreKept
