CONSTANTS
    MaxItems = 3
    MaxWorkers = 2
    Name <- Names
    Deadlines = {"none", "finite", "unrepresentable", "nan"}
    Hangs <- SomeHang
    Answers <- ThreeAnswers
SPECIFICATION FairSpec
INVARIANTS
    TypeOK
    OneResultEach
    LabelsEarned
    StopsAtFirst
    OneAttempt
    LateSendsBounded
PROPERTIES
    ImplementsBatch
    OnlyUnseenCutOff
    EveryStepCounts
    CallEnds
    NothingLeftBehind
CHECK_DEADLOCK FALSE
