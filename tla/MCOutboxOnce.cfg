SPECIFICATION Spec
CONSTANTS
    e1 = e1
    e2 = e2
    daemon = daemon
    tool = tool
    Writer = Writer
    Torn = Torn
    Events <- MCEvents
    Workers <- MCOneWorker
    Kind <- MCOnce
    Limit <- MCOnceLimit
    MaxTries = 4
    MaxFaults = 0
INVARIANT WorkerIsSafe
CHECK_DEADLOCK FALSE
