SPECIFICATION Spec
CHECK_DEADLOCK FALSE
CONSTANTS
    Mounts = {sm, rm}
    Remote = {rm}
    f = f
    g = g
    d = d
    e = e
    Paths = {f}
    Dirs = {d}
    Parent <- Single
    Data = {x, y}
    Empty = Empty
    None = None
    Callbacks = {"open", "release", "readdir"}
    MaxCalls = 1
    Faults = {"crash", "torn frame"}
    MaxFaults = 1
    Seeded = {f}
PROPERTY MountOutlivesRestart
