SPECIFICATION FairSpec
CONSTANTS
    CALL = 1
    BASE = 1
    CAR = 1
    a1 = a1
    a2 = a2
    Addrs <- OneAddr
    Watched = 2
    States = {"ASSIGN"}
    MAXDEV = 2
    TriesBound = 0
    BackBound = 0
PROPERTIES
    SlotsDrain
