SPECIFICATION Spec
CONSTANTS
    Main = "{main}"
    Apps <- MCApps
    Listed = {"f"}
    Callers = {"array_map", "SoapServer::handle", "gc_collect_cycles"}
    Wide = {"wide", "wide_user"}
    MaxCalls = 5
    MaxRequests = 2
CHECK_DEADLOCK FALSE
INVARIANTS
    TraceNested
    TracesClosed
    CrashOnlyAfterRestart
    ProfileAdds
    HandlerRestored
    PageNamesCall
