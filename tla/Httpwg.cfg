\* Every test of the suite; sizes are scaled (see Httpwg).
SPECIFICATION TestSpec
CONSTANTS
    StreamIds = {1, 2, 3, 5}
    MaxConcurrent = 2
    MaxWindow = 63
    DefaultWindow = 24
    DefaultFrame = 16
    UsizeModulus = 256
    EvCap = 4
    RstRepeat = 2
    ClientFrames = {"HEADERS", "DATA", "RST_STREAM", "INVALID_SIZE", "SETTINGS", "WINDOW_UPDATE", "ERRONEOUS", "CLOSE"}
    Blocks = {"fine", "connection", "malformed", "status"}
    Windows = {0}
    FrameSizes = {16}
    Increments = {1}
    HeaderLens = {2}
    ChunkLens = {5}
    MaxBody = 5
    MAX_INITIAL_WINDOW_SIZE = 63
    MAX_FRAME_SIZE_ALLOWED_RANGE = {16, 17, 18, 19, 20}
    FrameChan = 2
    BodyLen = 5
    MaxHeaderLen = 4
INVARIANTS  GoAwayCoversWork CloseIsAnnounced StreamLimit
CHECK_DEADLOCK FALSE
PROPERTIES  ConnectionEnds
