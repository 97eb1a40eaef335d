\* Environments of a disciplined client: ids, registers and the TLB.
CONSTANTS
    DOMAIN_UB = 4
    ASID_UB = 4
    MAX_ENV = 2
    p1 = p1
    VPages <- OnePage
    Clients <- BothClients
    MaxLive = 2
    MaxPid = 4
SPECIFICATION Spec
INVARIANTS IdsPartitioned NeverPanics CurrentIsLoaded NoLiveForeignFrame
CHECK_DEADLOCK FALSE
