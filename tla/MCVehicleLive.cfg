SPECIFICATION FairSpec
CONSTANTS
    Cards <- MCCards
    Tables <- LiveTables
    FlashTables <- LiveFlash
    MAXPATH = 4
    HOMESIZE = 0
    RTSENDSIZE = 2
    WaitTicks = 1
    RECVTIMES = 1
    WireBound = 3
PROPERTIES
    StationStop
    CardActedOn
    ReportsSettle
