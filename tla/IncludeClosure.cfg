SPECIFICATION QuerySpec
CONSTANTS
    a = a
    b = b
    c = c
    read = read
    write = write
    open = open
    File <- MCFile
    PhpFunction <- MCPhpFunction
    Syscall <- MCSyscall
    Graphs <- MCGraphs
    FunctionCall <- MCFunctionCall
    Requirement <- MCRequirement
INVARIANTS
    ClosureExact
    ProfileExact
PROPERTY
    QueryEnds
CHECK_DEADLOCK FALSE
