\* A connection that outlives shutdown.
CONSTANTS
    doh = doh
    doq = doq
    Groups = {doh, doq}
    Tasks = {t1}
    Closers <- TwoClosers
    Shutdown = Shutdown
    Listeners <- TwoListeners
    QuicListeners = {doq}
SPECIFICATION Spec
INVARIANT StoppedMeansNoChildren
CHECK_DEADLOCK FALSE
