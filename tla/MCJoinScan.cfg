SPECIFICATION FairSpec
CONSTANTS
    Channels <- MCChannels
    ScanOrder <- MCOrder
    Allowed <- MCAllowed
    Near <- MCNear
    INTERPAN = 4
    AVAIL = 5
    TIMES = 3
    TIMEOUT = 10
    Late = FALSE
    FaultBound = 9
INVARIANTS
    TypeOK
    ListedOnce
    ScanFindsAll
    WatchedScan
    KnownNetwork
PROPERTIES
    Joins
    NetworkSpec
