\* DoQ variant: whether a session is alive is asked of the connection.
CONSTANTS
    Requests = {r1, r2, r3, r4}
    Keys = {k1, k2}
    Leases = {x1, x2, x3}
    MaxEntries = 2
    DriverFlag = FALSE
    None = None
SPECIFICATION Spec
SYMMETRY Symmetry
INVARIANTS
    TypeOK
    PermitsConserved
    CacheIsConsistent
PROPERTIES
    LiveSessionNotDisplaced
    KeepsContract
