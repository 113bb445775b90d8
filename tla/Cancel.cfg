SPECIFICATION Spec
CONSTANTS
    o1 = o1
    NoOwner = NoOwner
    Batches <- CancelBatches
    Owners = {o1}
    Faults = {"selectRefused", "errorState", "queueError"}
    MaxCommands = 3
    MaxFaults = 1
INVARIANTS CancelledOwnersLeave FirstInFirstOut
PROPERTY KeepsPromise
CHECK_DEADLOCK FALSE
