CONSTANTS
    Actions <- MCActions
    HasLocker = TRUE
    MaxMoves = 5
    MaxSignals = 3
    MaxChannel = 2
    MaxRequests = 2
SPECIFICATION FairSpec
CHECK_DEADLOCK FALSE
INVARIANTS
    TypeOK
    LidAsItIs
    NeverAwakeInTheBag
    ActsOncePerShut
PROPERTIES
    ShutIsNoticed
