SPECIFICATION Spec
CHECK_DEADLOCK FALSE
CONSTANTS
    File <- MCFile
    Ohlc <- MCOhlc
    Chart <- MCChart
    Quote <- MCQuote
    NoQuote = NoQuote
    Depth <- MCDepth
    Vol <- MCVol
    Days = 2
    CyclesPerDay = 1
INVARIANT
    TypeOK
    VolumesAreNearest
    NeverAboveTheWindow
    AccumulationBuysMore
    VolatileIsPatient
