CONSTANTS
    p1 = p1
    p2 = p2
    Names <- TwoNames
    Peers <- TwoPeers
    MaxAgents = 2
    Texts = {"", "t", "u"}
    Rosters <- Changing
SPECIFICATION Spec
INVARIANT TraceSurvives
CHECK_DEADLOCK FALSE
