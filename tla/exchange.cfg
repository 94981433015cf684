\* Two chunks each way on DoT; two frames each way on DoQ; bodies of one unit that
\* fits, one that does not fit and none on DoH; a timeout of two ticks.  An exchange
\* that ended stops.
CONSTANTS
    IdleTimeout = 2
    MaxChunks = 2
    MaxFrames = 2
    Limit = 1
SPECIFICATION ExchangeFairSpec
CHECK_DEADLOCK FALSE
INVARIANTS
    ExchangeTypeOK
    SuccessIsComplete
    OneWholeQuery
    AnswersAreRelayed
    BlameIsRight
    OnlyAnswersCount
PROPERTIES
    DirectionsArePipes
    RelayEnds
    TransactionsEnd
    FitsListener
    CountedOnce
