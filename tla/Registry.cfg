CONSTANTS
    c1 = c1
    c2 = c2
    g1 = g1
    UnknownId = UnknownId
    Creates = {c1, c2}
    Gets = {g1}
    Bodies <- MCBodies
    MaxTime = 1
SPECIFICATION Spec
SYMMETRY CreateSymmetry
INVARIANTS
    CreatedIsReadable
    RowsAreWellFormed
CHECK_DEADLOCK FALSE
