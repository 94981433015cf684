\* /ready while an endpoint of a QUIC listener goes away.
CONSTANTS
    doh = doh
    doq = doq
    Groups = {doh, doq}
    Tasks = {t1}
    Closers <- TwoClosers
    Shutdown = Shutdown
    Listeners <- TwoListeners
    QuicListeners = {doq}
SPECIFICATION Spec
INVARIANT ReadyMeansAllServing
CHECK_DEADLOCK FALSE
