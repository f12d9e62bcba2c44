SPECIFICATION RoutingSpec
CONSTANTS
    Absent = Absent
    Placeholder = Placeholder
    BadPid = BadPid
    Fresh = Fresh
    Malformed = Malformed
    p0 = p0
    p1 = p1
    s1 = s1
    s2 = s2
    i1 = i1
    i2 = i2
    Pids <- MCPids
    Scopes <- MCScopes
    Ids <- MCIds
    RawEnvs <- MCRawEnvs
    Inputs <- MCInputs
INVARIANTS
    RoutingType
    MapDecides
    ForeignPidIsAuthenticated
    ProductionIsAuthenticated
    SignedCommandIsTheClients
CHECK_DEADLOCK FALSE
