SPECIFICATION Spec
CONSTANTS
    Cards <- MCCards
    Tables <- MCTables
    FlashTables <- MCFlash
    MAXPATH = 4
    HOMESIZE = 3
    RTSENDSIZE = 3
    WaitTicks = 1
    RECVTIMES = 0
    WireBound = 3
INVARIANTS
    TypeOK
    RouteWindow
    WaitingHolds
    HomeSaved
    CountReported
PROPERTIES
    LineEndStops
    FollowerSpec
