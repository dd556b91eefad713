SPECIFICATION Spec
CONSTANTS
    t1 = t1
    t2 = t2
    f1 = f1
    f2 = f2
    d1 = d1
    h1 = h1
    h2 = h2
    k1 = k1
    Tools    <- TwoTools
    Files    <- TwoFiles
    Folders  = {}
    Inside   <- NothingInside
    Handlers <- TwoHandlers
    Checkers = {}
    Ops      <- SyncOps
    MaxCalls  = 5
    MaxFaults = 0
SYMMETRY Symmetry
INVARIANT SyncComplete
CHECK_DEADLOCK FALSE
