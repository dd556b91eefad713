SPECIFICATION Spec
CONSTANTS
    f = f
    g = g
    both = both
    outer = outer
    pair = pair
    loop = loop
    gone = gone
    h1 = h1
    h2 = h2
    FunctionIds    <- Functions_
    CompositeIds   <- Composites_
    Missing        <- Gone
    ExecutionOrder <- OrderOf
    Logic      <- LogicOf
    Output     <- KeysOf
    Edited     <- EditedTools
    Owned      <- OwnedAtStart
    Targets    <- TwoTargets
    Explicit   <- OneTarget
    Codes      <- AllCodes
    Blank      <- BlankCodes
    Broken     <- OddCodes
    Attributes <- AttributesOf
    Calls      <- CallsOf
    Forms      <- FormsOf
    Legacy     = "old"
    Blueprint  <- BlueprintOf
    Patches    <- PatchesOf
    Orders     <- OrdersOf
    Handlers   <- TwoHandlers
    RecursionLimit = 3
    MaxRows     = 4
    MaxRequests = 3
SYMMETRY Symmetry
INVARIANTS
    
    
    ResultsAreWhole
    
CHECK_DEADLOCK FALSE
