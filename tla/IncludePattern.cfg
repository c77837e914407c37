SPECIFICATION Spec
CONSTANTS
    s1 = s1
    s2 = s2
    d1 = d1
    d2 = d2
    A = A
    B = B
    v = v
    Wild = Wild
    Constant = {A, B}
    Variable = {v}
    Segment <- MCSegment
    Dir <- MCDir
    Projects <- MCProjects
CHECK_DEADLOCK FALSE
INVARIANTS
    IncludesCovered
    IncludesExact
