SPECIFICATION Spec
CONSTANTS
    Hex = 2
    MaxHead = 3
    MaxSizeLine = 4
    Plans <- Pairs
    NExchanges = 2
    PipeCap = 3
INVARIANTS KeepsInStep BodiesArriveWhole ReuseIsClean
PROPERTIES ExchangesEnd
CHECK_DEADLOCK FALSE
