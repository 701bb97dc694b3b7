\* Two streams share the connection window, the event channel and the passes;
\* a third identifier is even.
SPECIFICATION Spec
CONSTANTS
    StreamIds = {1, 2, 3}
    MaxConcurrent = 2
    MaxWindow = 1
    DefaultWindow = 1
    DefaultFrame = 1
    UsizeModulus = 64
    EvCap = 2
    RstRepeat = 15
    ClientFrames = {"HEADERS", "WINDOW_UPDATE", "RST_STREAM"}
    Blocks = {"fine", "malformed"}
    Windows = {1}
    FrameSizes = {1}
    Increments = {1}
    HeaderLens = {2}
    ChunkLens = {1}
    MaxBody = 1
INVARIANTS NoLostWakeup
  
CHECK_DEADLOCK FALSE
