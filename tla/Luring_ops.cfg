SPECIFICATION FairSpec
CONSTANTS
    Ops = {o1, o2, o3, o4}
    Indexes = {i1, i2}
    Entries = 2
    NoOp = NoOp
    NoIndex = NoIndex
    Stops = TRUE
INVARIANTS
    CompletionFindsItsOp
    CancelHitsItsTarget
    NoLostWake
PROPERTIES
    DroppedOpsLeave
CHECK_DEADLOCK FALSE
