CONSTANTS
    STATIC_TABLE <- MCStatic
    HUFFMAN_CODE_TABLE <- MCCode
    EndOfString <- MCEndOfString
    Mask <- MCMask
    Fields <- MCFields
    OctetBits = 2
    Base = 2
    OctetLimit = 5
    Overhead = 2
    TableSize = 12
    Streams = {1, 3, 5}
    max_concurrent_streams = 2
SPECIFICATION ConnSpec
INVARIANT PairedDecodersFollow
CHECK_DEADLOCK FALSE
