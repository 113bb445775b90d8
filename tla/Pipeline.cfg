SPECIFICATION FairSpec
CONSTANTS
    LimitConnected = 2
    LimitOtherwise = 1
    MaxCommands = 4
    MaxCalls = 3
    MaxSessions = 3
INVARIANTS TypeOK ListsRunInOrder BlockingOpIsRespected ThreadOutlivesItsObject
PROPERTIES ListsAreRun DisconnectReturns
CHECK_DEADLOCK FALSE
