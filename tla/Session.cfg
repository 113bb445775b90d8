SPECIFICATION Spec
CONSTANTS
    o1 = o1
    NoOwner = NoOwner
    Batches <- SessionBatches
    Owners = {}
    Faults = {"closed", "unknown", "connectFail", "protocolError", "selectRefused"}
    MaxCommands = 2
    MaxFaults = 1
INVARIANTS TypeOK RepliesMatch DatabaseTracked AnsweredOnce NothingLost
CHECK_DEADLOCK FALSE
