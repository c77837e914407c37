SPECIFICATION Spec
CONSTANTS
    lib1 = lib1
    lib2 = lib2
    index = index
    A = A
    N = N
    Global = Global
    Printf = "printf"
    File <- MCFile
    Identifier <- MCIdentifier
    Function <- MCFunction
    Projects <- MCProjects
INVARIANTS
    RowsOfOwnFile
    UsesResolved
    EdgesJustified
    AllOrNothing
CHECK_DEADLOCK FALSE
