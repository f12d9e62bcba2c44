SPECIFICATION Spec
CONSTANTS
    m1 = m1
    m2 = m2
    m3 = m3
    n1 = n1
    n2 = n2
    n3 = n3
    None = None
    Messages <- MCMessages
    Nonces <- MCNonces
    NonceOf <- MCNonceOf
    NonceTTL = 2
    NonceMax = 2
    Drift = 2
    StorePath = TRUE
    MaxTime = 4
    MaxBoots = 1
INVARIANTS
    TypeOK
    AcceptedOncePerTTL
    SurvivesHalfTheCache
SYMMETRY MCPermutations
CHECK_DEADLOCK FALSE
