SPECIFICATION Spec
CONSTANTS
    Bufs = {b1, b2}
    Handles = {h1, h2, h3, h4}
    Size = 2
    CountRange = 8
SYMMETRY Symmetry
INVARIANTS
    TypeOK
    RefCountsExact
    FreeListExact
    WritesAreExclusive
CHECK_DEADLOCK FALSE
