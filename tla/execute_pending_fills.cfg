SPECIFICATION Spec
CHECK_DEADLOCK FALSE
CONSTANTS
    None = None
    N = 2
    Exchange <- MCExchange
    Venue <- TwoCow
    Remote <- MCRemote
    Slow <- MCSlow
    Replies <- MCReplies
    Jitter = FALSE
    Amount = 1
INVARIANT
    FillsAreCompleted
