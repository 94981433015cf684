\* A permit for one connection and, on each, for one stream.
\* The clients may be done, and then everything stops.
CONSTANTS
    c1 = c1
    c2 = c2
    s1 = s1
    s2 = s2
    s3 = s3
    Connections = {c1, c2}
    Streams = {s1, s2, s3}
    Carrier <- MCCarrier
    MaxConnections = 1
    MaxStreams = 1
SPECIFICATION FairSpec
CHECK_DEADLOCK FALSE
INVARIANTS
    TypeOK
    ConnectionsBounded
    OpenConnectionsAreServed
    PermitsBalanced
PROPERTIES
    DeadConnectionsRelease
    ListenerDrains
