SPECIFICATION Spec
CHECK_DEADLOCK FALSE
CONSTANTS
    Mounts = {sm, rm}
    Remote = {rm}
    f = f
    g = g
    d = d
    e = e
    Paths = {f}
    Dirs = {d}
    Parent <- Single
    Data = {x, y}
    Empty = Empty
    None = None
    Callbacks = {"open", "release", "unlink"}
    MaxCalls = 4
    Faults = {"disconnect", "crash", "rejection"}
    MaxFaults = 1
    Seeded = {f}
SYMMETRY SwapData
INVARIANTS
    CloseReplacesWhatItRead
    AppliedOnce
    SavedIsStored
