SPECIFICATION Spec
CHECK_DEADLOCK FALSE
CONSTANTS
    None = None
    N = 4
    Exchange <- MCExchange
    Venue <- OneOfEach
    Remote <- MCRemote
    Slow <- MCSlow
    Replies <- MCReplies
    Jitter = TRUE
    Amount = 2
INVARIANTS
    TypeOK
    FillsAreHeld
    ResultMatchesFills
    NoSilentLoss
    RootCause
    LocalFillsAreExact
PROPERTIES
    QuietAfterReturn
    ImplementsPlacement
