SPECIFICATION FairSpec
CONSTANTS
    o1 = o1
    NoOwner = NoOwner
    Batches <- LivenessBatches
    Owners = {}
    Faults = {"timeout", "unknown", "closed", "connectFail", "errorState"}
    MaxCommands = 1
    MaxFaults = 2
INVARIANT WaitingHasWakeup
PROPERTIES EveryCommandEnds DisconnectReturns KeepsPromise
CHECK_DEADLOCK FALSE
