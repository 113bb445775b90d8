SPECIFICATION FairSpec
CONSTANTS
    c1 = c1
    Commands = {c1}
    UseAuth = TRUE
    Faults = {"connectFail", "closed", "lost", "refused"}
    MaxSessions = 2
    MaxFaults = 1
INVARIANT AuthorisedFirst
PROPERTIES RunsOnce ConnectTellsAlone AutoConnectSettles
CHECK_DEADLOCK FALSE
