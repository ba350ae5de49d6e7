SPECIFICATION Spec
CHECK_DEADLOCK FALSE
CONSTANTS
    Close <- Prices
    Volume <- NoneOrSome
    Ln <- LnOfPrice
    Window = 6
INVARIANT
    TypeOK
    TrendIsHeeded
    WinnerHasBacking
    ConfidenceIsLead
    UnitOfVolumeIsFree
