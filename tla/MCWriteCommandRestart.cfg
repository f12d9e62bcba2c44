SPECIFICATION Spec
CONSTANTS
    c1 = c1
    c2 = c2
    r1 = r1
    m1 = m1
    m2 = m2
    None = None
    Torn = Torn
    Commands <- MCCommands
    RequestIds <- MCRequestIds
    RequestIdOf <- MCRequestIdOf
    Messages <- MCMessages
    CommandOf <- MCCommandOf
    MaxFaults = 1
INVARIANT DurableOutcomeIsServed
CHECK_DEADLOCK FALSE
