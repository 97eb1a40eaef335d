\* Every test in every configuration.
SPECIFICATION Spec
CONSTANTS
    Builds <- AllBuilds
    CFrame = 4096
    Calls = 3
INVARIANTS
    TrapTypeOK
    OnlyRebootsFault
PROPERTIES
    TrapTransparent
    PartsEnd
