CONSTANTS
    t1 = t1
    t2 = t2
    Threads <- TwoThreads
    Host = "host"
    Raws <- MCRaws
    Requests <- MCRequests
    MaxAgents = 3
    MaxEdits = 1
SPECIFICATION FairSpec
INVARIANTS
    TypeOK
    Complete
    OneTransport
    LimitsRespected
PROPERTIES
    CallReturns
CHECK_DEADLOCK FALSE
