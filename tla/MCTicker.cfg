SPECIFICATION Spec
CONSTANTS
    ONESECOND = 2
    MINUTES = 6
    OPEN <- MCOpen
    NETWORK <- MCNetwork
    Configs <- MCConfigs
PROPERTIES
    Cyclic
