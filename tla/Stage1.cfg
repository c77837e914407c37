SPECIFICATION Spec
CONSTANTS
    parent = parent
    child = child
    popen = popen
    fgets = fgets
    main = main
    read = read
    exec = exec
    clone = clone
    writev = writev
    write = write
    open = open
    exited = exited
    zif_fgets = zif_fgets
    zif_popen = zif_popen
    helper = helper
    libc_open = libc_open
    Clone = clone
    None = None
    Exec = 59
    Pid <- MCPid
    Fn <- MCFn
    Syscall <- MCSyscall
    Traces <- MCTraces
    Node <- MCNode
    Number <- MCNumber
    Graphs <- MCGraphs
    Inputs <- MCInputs
    NamesOf <- MCNamesOf
    NameOf <- MCNameOf
    NumberBegun <- MCNumberBegun
    NameBegun <- MCNameBegun
    Torn = Torn
    Marks = {exited}
    Programs = {popen}
INVARIANTS
    MappingJustified
    MappingComplete
    ForkedCallsCounted
    CompleteOffCycles
PROPERTY
    Stage1Ends
CHECK_DEADLOCK FALSE
