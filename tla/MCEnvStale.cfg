\* The TLB is never emptied: a new environment meets entries of a freed one.
CONSTANTS
    DOMAIN_UB = 4
    ASID_UB = 4
    MAX_ENV = 2
    p1 = p1
    VPages <- OnePage
    Clients <- CarefulOnly
    MaxLive = 2
    MaxPid = 3
SPECIFICATION Spec
INVARIANT NoForeignFrame
CHECK_DEADLOCK FALSE
