SPECIFICATION Spec
CHECK_DEADLOCK FALSE
CONSTANTS
    Exchange <- CowAndMock
    Position <- CowAndMockListed
    Remote <- OnlyCow
    Subs = 1
    Flags <- AllWays
    MinPositive = TRUE
    Scenarios <- AllScenarios
    MaxCycles = 2
    MaxCrashes = 1
    MaxPlans = 1
INVARIANTS
    TypeOK
    RowsAreLinked
    FillRowsAreTrue
    HeldIsRecorded
PROPERTIES
    StopsWhenInterrupted
    OnlyProviderBlocks
    ImplementsLedger
