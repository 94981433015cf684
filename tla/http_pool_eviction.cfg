\* The thread that finds the map full, alone or not.
CONSTANTS
    n1 = n1
    n2 = n2
    n3 = n3
    n4 = n4
    Calls = {c1, c2}
    Names <- FourNames
    Shard <- TwoShards
    MaxClients = 2
    None = None
SPECIFICATION FairSpec
PROPERTY EvictionEnds
CHECK_DEADLOCK FALSE
