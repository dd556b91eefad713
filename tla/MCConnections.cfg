SPECIFICATION Spec
CONSTANTS
    t1 = t1
    t2 = t2
    None = None
    Threads <- TwoThreads
    MaxCalls       = 2
    MaxConnections = 4
SYMMETRY Symmetry
INVARIANT ReusedIsOpen
CHECK_DEADLOCK FALSE
