SPECIFICATION Spec
CONSTANTS
    h1 = h1
    h2 = h2
    o1 = o1
    None = None
    Hooks <- MCHooks
    Others <- MCOthers
    RetryMax = 2
    RetryBase = 1
    MaxQueue = 2
    SeenTTL = 2
    SeenMax = 1
    Drift = 1
    Threshold = 2
    Cooldown = 1
    MaxDeliveries = 2
    MaxCrashes = 1
INVARIANTS
    TypeOK
    
    DedupedIfPrompt
    AmplificationBounded
PROPERTY QueueDrains
CHECK_DEADLOCK FALSE
