SPECIFICATION Spec
CONSTANTS
    n1 = n1
    n2 = n2
    n3 = n3
    s1 = s1
    s2 = s2
    s3 = s3
    Nodes = {n1, n2}
    Port <- Ports
    Slots = {s1}
    Importing <- NoneMigrates
    Walks = {"keys", "flush"}
    MaxRedirects = 1
    MaxCalls = 3
    Moves <- SlotMovesOn
    FirstNode = n1
    FirstOwner <- FirstNodeOwns
INVARIANTS TypeOK SlotOrder
CHECK_DEADLOCK FALSE
