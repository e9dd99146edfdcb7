SPECIFICATION Spec
CONSTANTS
    a = a
    b = b
    c = c
    d = d
    NoId = NoId
    Ids <- MCIds
SYMMETRY MCSymmetry
INVARIANTS
    Mirrored
    CyclesTold
    ClosureRight
