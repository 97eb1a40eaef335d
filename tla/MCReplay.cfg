\* Programs that check, ignore or give up, on sessions of every shape.
SPECIFICATION FairSpec
CONSTANTS
    Symbol <- Symbols
    Program <- EndsLikeEOT
    Traces <- Sessions
    Children = {"checks", "ignores", "aborts", "quits"}
    Resets = {TRUE, FALSE}
    N = 2
CHECK_DEADLOCK FALSE
INVARIANTS
    ReplayTypeOK
    FaithfulPasses
    SuccessMeansSameWrites
    CoversEveryRead
    DoneOnlyOnExitString
PROPERTIES
    ToleranceCaught
    EveryReplayEnds
