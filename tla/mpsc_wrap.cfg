CONSTANTS
    p1 = p1
    p2 = p2
    o1 = o1
    o2 = o2
    o3 = o3
    o4 = o4
    o5 = o5
    o6 = o6
    Producers = {p1, p2}
    Objects = {o1, o2, o3, o4, o5, o6}
    Size = 3
    Word = 4
    NULL = NULL
SPECIFICATION Spec
SYMMETRY Symmetry
INVARIANT NoOverwrite
