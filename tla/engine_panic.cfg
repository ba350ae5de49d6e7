SPECIFICATION Spec
CHECK_DEADLOCK FALSE
CONSTANTS
    Exchange <- OnlyCow
    Position <- OnlyCowListed
    Remote <- OnlyCow
    Subs = 1
    Flags <- OnlyDry
    MinPositive = TRUE
    Scenarios <- OnlyEmpty
    MaxCycles = 1
    MaxCrashes = 0
    MaxPlans = 0
INVARIANT
    PriceHasFallback
