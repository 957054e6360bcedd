SPECIFICATION FairSpec
CONSTANTS
    a1 = a1
    none = none
    Cars = {1, 2}
    Addrs <- MCAddrs
    Rows <- MCRows
    CAR_STOP = 4
    Given <- MCGiven
    NoMsg <- MCNoMsg
    MAXPATH = 2
    CNTSIZE = 4
    Place <- MCPlace
    MEMSIZE = 7
    CARPATH = 4
    HOMESIZE = 3
    RTSENDSIZE = 1
    RETRYSIZE = 4
    SendBound = 1
    SerialBound = 1
    AirBound = 2
    PutBound = 2
    FaultBound = 1
INVARIANTS
    TypeOK
    OwnRows
    OwnLength
PROPERTIES
    SendingEnds
    WorkShrinks
