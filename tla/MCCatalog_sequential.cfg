SPECIFICATION Spec
CONSTANTS
    c1 = c1
    c2 = c2
    d1 = d1
    d2 = d2
    h1 = h1
    h2 = h2
    good   = good
    other  = other
    bare   = bare
    broken = broken
    NoBody = NoBody
    Caps     <- TwoCaps
    Bodies   <- ThreeBodies
    Installable <- GoodOther
    Valid    <- GoodOther
    WithCode <- ThreeBodies
    Releases <- OneRelease
    Drafts   <- TwoDrafts
    Handlers <- OneHandler
    Ops      <- AllOps
    MaxItems    = 4
    MaxCalls    = 5
    MaxFaults   = 0
    MaxRestarts = 0
SYMMETRY DraftSymmetry
INVARIANTS
    ValidatedIsValid
PROPERTIES
    RollbackRestores
    NoOrphans
CHECK_DEADLOCK FALSE
