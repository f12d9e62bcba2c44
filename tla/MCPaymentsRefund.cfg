SPECIFICATION Spec
CONSTANTS
    o1 = o1
    None = None
    Orders <- MCOrders
    HostedOnly = FALSE
    Total = 2
    MaxIntents = 1
    MaxCommands = 4
INVARIANT RefundTracksProvider
CHECK_DEADLOCK FALSE
