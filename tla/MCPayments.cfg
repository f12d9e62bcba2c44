SPECIFICATION Spec
CONSTANTS
    o1 = o1
    None = None
    Orders <- MCOrders
    HostedOnly = FALSE
    Total = 2
    MaxIntents = 2
    MaxCommands = 3
INVARIANTS
    TypeOK
    VersionIdentifiesStatus
    LastEventIsOrder
    RefundCovered
    PartialIsPartial
CHECK_DEADLOCK FALSE
