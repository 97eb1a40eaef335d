\* Two files, a fault anywhere, runs repeated for ever; what was left in the tty
\* is kept or dropped.
SPECIFICATION FairSpec
CONSTANTS
    Programs <- TwoFiles
    Limit = 12
    OwnText = 8
    MaxLeft = 16
    Garbled = {5}
    MaxFaults = 1
    MaxGarbled = 1
INVARIANTS
    BootTypeOK
    RunsWhatWasSent
    SuccessMeansLoaded
    SuccessMeansAccepted
PROPERTIES
    EverySessionEnds
    PiLeavesTransfer
    FreshDelivers
