SPECIFICATION Spec
CONSTANTS
    Apps <- MCApps
    Methods = {"C::m", "D::m"}
    Internals = {"array_map", "strlen", "xdebug_break"}
    Callers = {"array_map"}
CHECK_DEADLOCK FALSE
INVARIANTS
    AnsweredOnce
    IdFindsOwn
    TemporaryOnce
    ConnectionsClosed
    ShownOfFrame
    PagesPartition
PROPERTIES
    StepsLand
    NoStopAfterDetach
