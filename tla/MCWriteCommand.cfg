SPECIFICATION Spec
CONSTANTS
    c1 = c1
    c2 = c2
    r1 = r1
    m1 = m1
    m2 = m2
    None = None
    Torn = Torn
    Commands <- MCCommands
    RequestIds <- MCRequestIds
    RequestIdOf <- MCRequestIdOf
    Messages <- MCMessages
    CommandOf <- MCCommandOf
    MaxFaults = 2
INVARIANTS
    TypeOK
    RerunNeedsFault
    ReplyIsOwnOutcome
    OneAnswerPerBoot
    UnloggedAnswerNeedsFault
    UnloggedEventNeedsFault
    UnrecordedSaveNeedsFault
PROPERTY LedgerSpec
CONSTRAINT MCFewRuns
SYMMETRY MCSwap
CHECK_DEADLOCK FALSE
