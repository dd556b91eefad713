SPECIFICATION Spec
CONSTANTS
    a1 = a1
    c1 = c1
    w1 = w1
    w2 = w2
    NoAgent = NoAgent
    Agents  <- OneAgent
    Clients <- OneClient
    Workers <- OneWorker
    Kinds   <- AnyKind
    MaxRuns = 2
    MaxOutputs = 1
    MaxToggles = 1
    MaxFaults  = 1
    MaxCrashes = 1
INVARIANTS
    EventsAreTrue
    RunningHasThread
    ActivationSectionInSync
PROPERTIES
    StatusContract
    BatchIsSequential
CHECK_DEADLOCK FALSE
