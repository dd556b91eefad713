SPECIFICATION FairSpec
CONSTANTS
    f1 = f1
    f2 = f2
    NoFile = NoFile
    Files    <- TwoFiles
    Sights   <- AllThenOne
    Requests <- OddRequests
    MaxUpsets <- UpsetsOf
INVARIANTS
    
    Delivered
    FailsForCause
PROPERTIES
    ResultsStay
    EveryAnalysisEnds
CHECK_DEADLOCK FALSE
