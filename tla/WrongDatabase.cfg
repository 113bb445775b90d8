SPECIFICATION Spec
CONSTANTS
    o1 = o1
    NoOwner = NoOwner
    Batches <- DbBatches
    Owners = {}
    Faults = {"unknown"}
    MaxCommands = 1
    MaxFaults = 1
INVARIANT RunsInItsDatabase
CHECK_DEADLOCK FALSE
