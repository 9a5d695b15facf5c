CONSTANTS
    t1 = t1
    t2 = t2
    Threads <- TwoThreads
    Bases <- MCBases
    Names <- MCNames
    OddName = "7"
    Lower <- RankOf
    Sources <- ThreeSources
    Tokens <- MCTokens
    DefaultToken = "fleet token"
    DropUnreachable = TRUE
    CacheLives = TRUE
    World <- Named
    MaxDrifts = 1
SPECIFICATION FairSpec
INVARIANTS
    TypeOK
    RosterSound
    TokensStayHome
    NeverUnfilled
PROPERTIES
    PublishesWhatItSaw
    Converges
CHECK_DEADLOCK FALSE
