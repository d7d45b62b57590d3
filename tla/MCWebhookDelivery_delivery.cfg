SPECIFICATION FairSpec
CONSTANTS
    Hooks = {h1}
    Events = {e1, e2}
    Wants <- AllPairs
    Admins = {a1}
    Schedule <- OneRetry
    LeaseTime = 1
    ServerRetry = 1
    AutoDisable = 2
    Retention = 1
    Batch = 2
    MaxHooks = 1
    MaxFaults = 2
    MaxOps = 2
INVARIANTS
    OnlyEnabledOwed
    AttemptsAccounted
PROPERTIES
    OwedUntilSettled
    AutoDisableJustified
    SettledStaysSettled
    EverySendSettles
