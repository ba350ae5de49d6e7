SPECIFICATION Spec
CHECK_DEADLOCK FALSE
CONSTANTS
    Exchange <- OnlyCow
    Position <- OnlyCowListed
    Remote <- OnlyCow
    Subs = 2
    Flags <- OnlyLive
    MinPositive = TRUE
    Scenarios <- NoFaults
    MaxCycles = 1
    MaxCrashes = 0
    MaxPlans = 0
INVARIANT
    EverythingPersisted
