SPECIFICATION FairSpec
CONSTANTS
    none = none
    W = 8
    PREFIX = 7
    FRDATASIZE = 2
    FRAMEBUFLEN = 2
    Frames <- MCFrames
    NoFrame = none
    FaultBound = 2
INVARIANTS
    TypeOK
    Transparent
PROPERTIES
    DamageNoticed
    Resync
