SPECIFICATION Spec
CONSTANTS
    Hooks = {h1}
    Events = {e1}
    Wants <- AllPairs
    Admins = {a1}
    Schedule <- OneRetry
    LeaseTime = 1
    ServerRetry = 1
    AutoDisable = 2
    Retention = 1
    Batch = 1
    MaxHooks = 1
    MaxFaults = 1
    MaxOps = 1
INVARIANT CutAttemptsCount
