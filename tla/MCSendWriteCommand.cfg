SPECIFICATION Spec
CONSTANTS
    Cmd = Cmd
    Zero = Zero
    Foreign = Foreign
    None = None
    k1 = k1
    k2 = k2
    n1 = n1
    Requests = {Cmd}
    MaxCopies = 3
    MaxTries = 4
    Keys = {k1, k2}
    KeyOf <- MCKeyOf
    Nonces = {n1}
    NonceOf <- MCNonceOf
    Outcomes = {"OK", "CONFLICT"}
INVARIANTS TypeOK ShownIsTheLedgers
PROPERTIES Ends
CHECK_DEADLOCK FALSE
