SPECIFICATION Spec
CHECK_DEADLOCK FALSE
CONSTANTS
    Exchange <- MCExchange
    Batch <- MCBatch
    Overrides <- MCOverrides
    Depth <- MCDepth
    Budget <- MCBudget
    MinSize = 3
    Count = 3
INVARIANTS
    TypeOK
    DepthRespected
    NoLiquidityIsNews
    NoEmptyOrder
    SplitNearCount
    DeeperGetsMore
