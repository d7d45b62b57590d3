SPECIFICATION Spec
CONSTANTS
    f = f
    a = a
    A = A
    Emails = {f, a, A}
    Lower <- CaseVariants
    Founder = f
    Drives = {d1, d2}
    Default = d1
    Invites = {i1, i2}
    Keys = {k1}
    Requests = {r1}
    InputRoles = {"viewer", "admin"}
    MaxCalls = 5
    None = None
SYMMETRY Symmetry
CHECK_DEADLOCK FALSE
INVARIANTS
    DriveKeepsAdmin
    OutsidersMadeTheDrive
PROPERTIES
    GrantLossRevokesKeys
    ImplementsMembership
