SPECIFICATION SliceSpec
CONSTANTS
    Bufs = {b1, b2}
    Handles = {h1, h2, h3}
    Size = 2
    CountRange = 8
SYMMETRY Symmetry
INVARIANT
    FreeIsUnused
CHECK_DEADLOCK FALSE
