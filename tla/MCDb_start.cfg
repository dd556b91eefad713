SPECIFICATION Spec
CONSTANTS
    p1 = p1
    p2 = p2
    Migrations <- AllMigrations
    Callers    <- TwoCallers
    Bases      <- ThirdVersions
    Ahead    = 10
    MaxCalls = 3
    MaxStops = 1
SYMMETRY Symmetry
INVARIANTS
    RecordedIsApplied
    ReadyIsComplete
    RaisesForCause
CHECK_DEADLOCK FALSE
