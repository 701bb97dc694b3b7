\* A reset of a stream whose response is queued.
SPECIFICATION Spec
CONSTANTS
    StreamIds = {1, 3}
    MaxConcurrent = 2
    MaxWindow = 3
    DefaultWindow = 1
    DefaultFrame = 2
    UsizeModulus = 64
    EvCap = 3
    RstRepeat = 15
    ClientFrames = {"HEADERS", "RST_STREAM", "WINDOW_UPDATE"}
    Blocks = {"fine"}
    Windows = {1}
    FrameSizes = {2}
    Increments = {1}
    HeaderLens = {1}
    ChunkLens = {1}
    MaxBody = 2
INVARIANT PendingIsOutgoing
CHECK_DEADLOCK FALSE
