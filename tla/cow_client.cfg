SPECIFICATION Spec
CHECK_DEADLOCK FALSE
CONSTANTS
    Order <- TwoOrders
    Budget <- Budgets
    Unit = 5
    Validity = 1
    Time <- Moments
INVARIANTS
    TypeOK
    FilledFitsBudget
    PollMissesNothing
    FillsAddUp
PROPERTIES
    ReportsAreFinal
    CancelIsHeeded
