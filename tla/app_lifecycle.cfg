\* One TCP and one QUIC listener with one connection each.
CONSTANTS
    doh = doh
    doq = doq
    Groups = {doh, doq}
    Tasks = {t1}
    Closers <- TwoClosers
    Shutdown = Shutdown
    Listeners <- TwoListeners
    QuicListeners = {doq}
SPECIFICATION FairSpec
INVARIANTS
    TypeOK
    ReadyMeansServing
    CancelledMeansUnready
    StoppedAccountsForChildren
PROPERTIES
    StartReturns
    ShutdownReturns
CHECK_DEADLOCK FALSE
