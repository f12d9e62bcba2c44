SPECIFICATION Spec
CONSTANTS
    e1 = e1
    e2 = e2
    daemon = daemon
    tool = tool
    Writer = Writer
    Torn = Torn
    Events <- MCEvents
    Workers <- MCWorkers
    Kind <- MCKind
    Limit <- MCLimit
    MaxTries = 4
    MaxFaults = 2
INVARIANTS
    TypeOK
    KeptUnlessExposed
    GivenUpAfterAllTries
SYMMETRY MCSwap
CHECK_DEADLOCK FALSE
