CONSTANTS
    p1 = p1
    p2 = p2
    c1 = c1
    c2 = c2
    Callers <- TwoCallers
    Names <- OneName
    Peers <- TwoPeers
    Ids <- OneId
    States = {"working", "completed"}
    Rosters <- NamedAlike
    MAX_TRACKED_TASKS = 2
SPECIFICATION Spec
INVARIANTS
    PolledWhereCreated
CHECK_DEADLOCK FALSE
