SPECIFICATION Spec
CHECK_DEADLOCK FALSE
CONSTANTS
    Mounts = {sm, rm}
    Remote = {rm}
    f = f
    g = g
    d = d
    e = e
    Paths = {f, g}
    Dirs = {d, e}
    Parent <- OneEach
    Data = {x}
    Empty = Empty
    None = None
    Callbacks = {"readdir", "unlink", "rename"}
    MaxCalls = 3
    Faults = {"disconnect", "torn frame", "long answer", "bad answer", "late answer", "rejection"}
    MaxFaults = 1
    Seeded = {f}
INVARIANT OwnChangesListed
PROPERTY ReturnsUnlessTorn
