SPECIFICATION Spec
CONSTANTS
    None = none
    Runners = {c}
    Containers = {c}
    Steps = 3
    Alters = {2, 3}
    KeyCount = 1
    Values = {default}
    Default = default
PROPERTIES
    AloneNeverFails
