SPECIFICATION FairSpec
CONSTANTS
    none = none
    Msgs <- MCMsgs
    NoMsg <- MCNoMsg
    MAXMSGSIZE = 3
    NWPK_TOLERANCE = 2
    AirBound = 2
INVARIANTS
    TypeOK
    JoinedOrLeaving
    UsesNetwork
PROPERTIES
    FifoSpec
    NetworkSpec
    Rejoins
