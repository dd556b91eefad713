SPECIFICATION Spec
CONSTANTS
    c1 = c1
    c2 = c2
    d1 = d1
    d2 = d2
    h1 = h1
    h2 = h2
    good   = good
    other  = other
    bare   = bare
    broken = broken
    NoBody = NoBody
    Caps     <- OneCap
    Bodies   <- FourBodies
    Installable <- GoodOtherBare
    Valid    <- GoodOtherBare
    WithCode <- ThreeBodies
    Releases <- TwoReleases
    Drafts   <- OneDraft
    Handlers <- TwoHandlers
    Ops      <- RaceOps
    MaxItems    = 2
    MaxCalls    = 5
    MaxFaults   = 1
    MaxRestarts = 1
SYMMETRY HandlerSymmetry
INVARIANTS
    InstalledIsInstallable
    ArtifactIsCurrent
PROPERTIES
    PublicationSurvives
CHECK_DEADLOCK FALSE
