\* Two threads, a limit of two clients, four hostnames on two shards.  A thread
\* that evicts does not get out of it again: no deadlock check.
CONSTANTS
    n1 = n1
    n2 = n2
    n3 = n3
    n4 = n4
    Calls = {c1, c2}
    Names <- FourNames
    Shard <- TwoShards
    MaxClients = 2
    None = None
SPECIFICATION Spec
INVARIANTS
    SizeWithinRace
    OneClientPerName
CHECK_DEADLOCK FALSE
