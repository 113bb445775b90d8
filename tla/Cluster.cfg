SPECIFICATION FairSpec
CONSTANTS
    n1 = n1
    n2 = n2
    n3 = n3
    s1 = s1
    s2 = s2
    s3 = s3
    Nodes = {n1, n2, n3}
    Port <- Ports
    Slots = {s1, s2, s3}
    Importing <- ThirdSlotMigrates
    Walks = {"keys"}
    MaxRedirects = 1
    MaxCalls = 2
    Moves <- FirstSlotMoves
    FirstNode = n2
    FirstOwner <- SamePortOwners
INVARIANTS StableClusterServes UndisturbedWalk
PROPERTIES EveryCallEnds
CHECK_DEADLOCK FALSE
