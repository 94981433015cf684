\* Two callers of close_and_wait_until (the listener and App) and three
\* children, enough for one before, one during and one after the shutdown.
CONSTANTS
    Groups = {g}
    Tasks = {t1, t2, t3}
    Closers = {listener, app}
    Shutdown = Shutdown
SPECIFICATION FairGroupSpec
INVARIANTS
    NothingBehindShutdown
    JoinedMeansNoChildren
PROPERTIES
    ChildrenGetTheirGrace
    CloseEnds
CHECK_DEADLOCK FALSE
