CONSTANTS
    MaxItems = 2
    MaxWorkers = 2
    Name <- Names2
    Deadlines = {"none", "finite"}
    Hangs <- NoHang
    Answers <- TwoAnswers
SPECIFICATION FairSpec
PROPERTIES
    LateMeansUnfinished
CHECK_DEADLOCK FALSE
