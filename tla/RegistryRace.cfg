CONSTANTS
    t1 = t1
    t2 = t2
    Threads <- TwoThreads
    Bases <- MCBases
    Names <- MCNames
    OddName = "7"
    Lower <- RankOf
    Sources <- ThreeSources
    Tokens <- MCTokens
    DefaultToken = "fleet token"
    DropUnreachable = TRUE
    CacheLives = TRUE
    World <- TwoWorlds
    MaxDrifts = 1
SPECIFICATION Spec
INVARIANT DiscoverListsReachable
CHECK_DEADLOCK FALSE
