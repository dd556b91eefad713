CONSTANTS
    None = None
    Capital <- MCCapital
    ContainerMethods <- MCContainers
    Builtins <- MCBuiltins
    EntryNames <- MCEntryNames
    Projects <- MCProjects
    MaxClusterDepth = 3
    MaxFlowDepth = 2
    HubThreshold = 2
    CallAbility <- MCCallAbility
    DecoratorAbility <- MCDecoratorAbility
    BaseAbility <- MCBaseAbility
    ImportAbility <- MCImportAbility
    SideEffects <- MCSideEffects
    IgnoredCallees <- MCIgnored

SPECIFICATION Spec
INVARIANTS
    CallsReachTheirMeaning
    NothingIsLost
    FlowsAreShortestPaths
    DominanceIsUnavoidable
    ArtifactsAgree
    ChecksMeanSomething
    
    WorkflowsHaveTheirSteps
