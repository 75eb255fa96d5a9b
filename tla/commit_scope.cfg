SPECIFICATION MCSpec
CONSTANTS
    None = None
    TicksPerSecond = 2
    AtTimes = {0, 3, 9}
    MaxTime = 8
    Paths <- MCPaths
    StatePath <- MCState
    Tracked <- MCTracked
    SourcePaths <- MCSources
    Scopes <- MCScopes
    Blocked <- MCBlocked
    MaxEdits = 2
    MaxCommits = 1
INVARIANTS ContractInForce SafeCommandAccepted ProjectionsAgree  RemediesHelp InstallSettles
PROPERTIES ImplementsWorkflow CommitStaysInScope UserLinesSurvive
CHECK_DEADLOCK FALSE
