SPECIFICATION Spec
CHECK_DEADLOCK FALSE
CONSTANTS
    File <- OnlyDefault
    Ohlc <- MCOhlc
    Chart <- MCChart
    Quote <- MCQuote
    NoQuote = NoQuote
    Depth <- MCDepth
    Vol <- MCVol
    Days = 2
    CyclesPerDay = 2
INVARIANT
    AnnualBudgetHolds
