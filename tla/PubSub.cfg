SPECIFICATION FairSpec
CONSTANTS
    o1 = o1
    o2 = o2
    a = a
    b = b
    NoOwner = NoOwner
    Feed = Feed
    Shapes <- SmallShapes
    Owners = {o1, o2}
    Channels = {a, b}
    MaxCommands = 3
    MaxMessages = 1
    MaxSessions = 2
INVARIANTS TypeOK InStep TableMatchesServer CancelledSubscribersLeave
PROPERTIES MessagesReachTheirSubscriber EverySessionOpens
CHECK_DEADLOCK FALSE
