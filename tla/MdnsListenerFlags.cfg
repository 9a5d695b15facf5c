CONSTANTS
    s1 = s1
    s2 = s2
    t1 = t1
    t2 = t2
    Threads <- TwoThreads
    Services <- TwoServices
    Types <- TwoTypes
    TypeOf <- OneOfEach
    Label <- SameLabel
    AgentTypes = {"_a2a"}
    Hosts = {"x", "y"}
    Data <- AnyOrHinted
    Present <- OneThere
    MaxChanges = 0
    MaxFails = 1
SPECIFICATION Spec
INVARIANT EmptyMeansUnavailable
CHECK_DEADLOCK FALSE
