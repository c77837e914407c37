SPECIFICATION Spec
CONSTANTS
    w1 = w1
    w2 = w2
    index = index
    admin = admin
    lib = lib
    tool = tool
    printf = printf
    fopen = fopen
    fread = fread
    kIndex = kIndex
    kAdmin = kAdmin
    kLib = kLib
    NoFile = NoFile
    NoFilter = NoFilter
    None = None
    TooShort = TooShort
    File <- MCFile
    Entry <- MCEntry
    Includes <- MCIncludes
    Function <- MCFunction
    Code <- MCCode
    Syscall <- MCSyscall
    Needs <- MCNeeds
    FpmSyscalls <- MCFpmSyscalls
    EngineSyscalls <- MCEngineSyscalls
    RelativePath <- MCRelativePath
    Worker <- MCWorker1
    MaxRequests = 1
    UsesServer <- AllFiles
    Profiles <- MCCurrentOnly
    Inis <- MCEnabled
INVARIANT
    ExitAllowed
