SPECIFICATION Spec
CONSTANTS
    N = 2
    c1 = c1
    c2 = c2
    Clients = {c1, c2}
    Kinds = {"image", "text"}
    Permits = 1
    Formats = 2
    Settings <- TwoSettings
    Ops = {"write", "rm", "mv", "reindex"}
    MaxCalls = 3
    MaxFaults = 1
SYMMETRY Symmetry
CHECK_DEADLOCK FALSE
INVARIANTS
    IndexedIsFresh
    NoGhostChunks
    OneFormat
    SlotsConserved
    PendingHasOwner
    NoCrashLoop
