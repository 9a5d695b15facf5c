CONSTANTS
    MaxItems = 2
    MaxWorkers = 2
    Name <- Names2
    Deadlines = {"none"}
    Hangs <- NoHang
    Answers <- AllAnswers
SPECIFICATION Spec
INVARIANTS
    FirstSuccessIsFinal
CHECK_DEADLOCK FALSE
