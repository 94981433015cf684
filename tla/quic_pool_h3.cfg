\* H3 variant: a driver task clears the flag of a closed session some time
\* later.  One permit only, and no symmetry: GetReturns is a liveness property.
CONSTANTS
    Requests = {r1, r2, r3}
    Keys = {k1, k2}
    Leases = {x1, x2}
    MaxEntries = 1
    DriverFlag = TRUE
    None = None
SPECIFICATION FairSpec
PROPERTIES
    GetReturns
    LiveSessionNotDisplaced
    KeepsContract
