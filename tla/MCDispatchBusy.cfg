SPECIFICATION Spec
CONSTANTS
    CALL = 1
    BASE = 1
    CAR = 1
    a1 = a1
    a2 = a2
    Addrs <- MCAddrs
    Watched = 2
    States = {"ASSIGN", "ONLINE"}
    MAXDEV = 2
    TriesBound = 3
    BackBound = 1
SYMMETRY AddrsSame
PROPERTIES
    BusySlotKept
