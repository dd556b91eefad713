SPECIFICATION Spec
CONSTANTS
    t1 = t1
    t2 = t2
    f1 = f1
    f2 = f2
    d1 = d1
    h1 = h1
    h2 = h2
    k1 = k1
    Tools    <- TwoTools
    Files    <- TwoFiles
    Folders  <- OneFolder
    Inside   <- FileInFolder
    Handlers <- OneHandler
    Checkers = {}
    Ops      <- AllOps
    MaxCalls  = 5
    MaxFaults = 0
SYMMETRY ToolSymmetry
INVARIANTS
    RowsFollowGrants
    ProjectionsInSync
    LonePathsAreBounded
CHECK_DEADLOCK FALSE
