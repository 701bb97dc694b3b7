SPECIFICATION Spec
CONSTANTS
    BufSize = 2
    Stores = {1, 2, 3, 4}
    Rolls = {r1, r2}
    MaxSize = 4
    MaxBytes = 4
SYMMETRY Symmetry
INVARIANTS
    FilledIsStream
    
PROPERTIES
    RoomUnlessBufSize
    RequestedRoomUpToBufSize
