CONSTANTS
    p1 = p1
    p2 = p2
    c1 = c1
    c2 = c2
    Callers <- TwoCallers
    Names <- TwoNames
    Peers <- TwoPeers
    Ids <- TwoIds
    States = {"working", "completed"}
    Rosters <- NamedApart
    MAX_TRACKED_TASKS = 2
SPECIFICATION Spec
INVARIANTS
    TypeOK
    Bounded
    PolledWhereCreated
    NoneLostBelowLimit
PROPERTIES
    LeavesWhenDoneOrOldest
    ImplementsLedger
SYMMETRY CallersAlike
CHECK_DEADLOCK FALSE
