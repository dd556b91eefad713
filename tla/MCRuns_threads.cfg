SPECIFICATION FairSpec
CONSTANTS
    a1 = a1
    c1 = c1
    w1 = w1
    w2 = w2
    NoAgent = NoAgent
    Agents  <- OneAgent
    Clients <- OneClient
    Workers <- TwoWorkers
    Kinds   <- AnyKind
    MaxRuns = 2
    MaxOutputs = 0
    MaxToggles = 0
    MaxFaults  = 0
    MaxCrashes = 0
INVARIANTS
    SingleOwner
    
    PointerAtRest
PROPERTIES
    EveryRunEnds
CHECK_DEADLOCK FALSE
