SPECIFICATION Spec
CONSTANTS
    r1 = r1
    r2 = r2
    k1 = k1
    n1 = n1
    n2 = n2
    None = None
    Requests = {r1, r2}
    MaxCopies = 2
    Keys = {k1}
    KeyOf <- MCKeyOf
    Nonces = {n1, n2}
    NonceOf <- MCNonceOf
    Outcomes = {"OK", "CONFLICT"}
    Signed <- MCSigned
    Configs <- MCConfigs
INVARIANTS TypeOK AnswerIsTheLedgers SuccessMeansItRan RefusalIsFinal
PROPERTIES LedgerSpec Settles
CHECK_DEADLOCK FALSE
