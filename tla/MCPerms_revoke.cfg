SPECIFICATION Spec
CONSTANTS
    t1 = t1
    t2 = t2
    f1 = f1
    f2 = f2
    d1 = d1
    h1 = h1
    h2 = h2
    k1 = k1
    Tools    <- OneTool
    Files    <- OneFile
    Folders  = {}
    Inside   <- NothingInside
    Handlers <- TwoHandlers
    Checkers <- OneChecker
    Ops      <- RevokeOps
    MaxCalls  = 4
    MaxFaults = 1
SYMMETRY HandlerSymmetry
INVARIANT RevokedIsRefused
CHECK_DEADLOCK FALSE
