\* One stream, every kind of frame.
SPECIFICATION FairSpec
CONSTANTS
    StreamIds = {1}
    MaxConcurrent = 1
    MaxWindow = 3
    DefaultWindow = 2
    DefaultFrame = 1
    UsizeModulus = 64
    EvCap = 3
    RstRepeat = 15
    ClientFrames = {"HEADERS", "DATA", "RST_STREAM", "INVALID_SIZE", "SETTINGS", "WINDOW_UPDATE", "ERRONEOUS", "CLOSE"}
    Blocks = {"fine", "connection", "malformed", "status"}
    Windows = {0, 3}
    FrameSizes = {1, 2}
    Increments = {0, 1}
    HeaderLens = {1, 2}
    ChunkLens = {0, 2}
    MaxBody = 3
INVARIANTS TypeOK WindowsAccounted BodyComplete EventsInOrder
PROPERTIES FlowControl ResponseSent
CHECK_DEADLOCK FALSE
