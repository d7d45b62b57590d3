SPECIFICATION Spec
CONSTANTS
    d1 = d1
    d2 = d2
    k1 = k1
    k2 = k2
    k3 = k3
    Drives = {d1, d2}
    Keys = {k1, k2, k3}
    DriveOf <- ThreeKeys
    Readers = {r1, r2}
    TTL = 1
    MaxEntries = 2
    MaxWrites = 2
    MaxFails = 1
    None = None
SYMMETRY Symmetry
INVARIANTS
    CacheFresh
    WaitersSeeCommitted
    SingleFlight
    CacheBounded
