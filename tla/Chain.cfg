CONSTANTS
    p1 = p1
    p2 = p2
    Names <- TwoNames
    Peers <- TwoPeers
    MaxAgents = 3
    Texts = {"", "t", "u"}
    Rosters <- Changing
SPECIFICATION Spec
INVARIANTS
    TypeOK
    TraceIsWhatHappened
    TextThreaded
    OnlyFinalForwarded
    NothingSentUnlessAllKnown
CHECK_DEADLOCK FALSE
