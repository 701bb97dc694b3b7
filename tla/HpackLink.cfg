CONSTANTS
    STATIC_TABLE <- MCStatic
    HUFFMAN_CODE_TABLE <- MCCode
    EndOfString <- MCEndOfString
    Mask <- MCMask
    Fields <- MCFields
    OctetBits = 2
    Base = 2
    OctetLimit = 5
    Overhead = 2
    MaxFields = 2
    TableSizes = {0, 6, 12}
    Allowed = 12
    MaxInFlight = 1
SPECIFICATION LinkSpec
INVARIANTS   SizeIsTheSum NamesAreUnique
CHECK_DEADLOCK FALSE
