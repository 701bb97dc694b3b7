SPECIFICATION FairSpec
CONSTANTS
    StreamIds = {1, 2}
    Window = 2
    EvCap = 1
    Lengths <- Announced
    DataLens = {0, 1}
    Endings = {TRUE, FALSE}
    Handlers <- Pairs
    Failures = {"hangup", "read error", "connection error"}
INVARIANTS BytesConserved AcceptedBodyIsWhole ResetIsReported
PROPERTIES LoopComesBack BodyEnds
CHECK_DEADLOCK FALSE
