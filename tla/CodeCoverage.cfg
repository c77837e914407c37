SPECIFICATION Spec
CONSTANTS
    main = main
    f = f
    g = g
    Fn <- MCFn
    Main = main
    Code <- MCCode
    Calls <- MCCalls
    Options <- MCOptions
    Methods = {g}
    Listed = {g}
    MaxOuts = 64
    MaxPaths = 4095
    Chunk = 1
    MaxCalls = 5
    MaxLevel = 3
    MaxSessions = 2
CHECK_DEADLOCK FALSE
INVARIANTS
    UnusedReported
    ReportAgrees
    EdgesTaken
    LeafPathsExact
