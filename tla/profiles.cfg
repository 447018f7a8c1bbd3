CONSTANTS
    Named = FALSE
    Disks <- MCDisks
    Edits <- MCEdits
    MaxSignals = 2
    MaxChannel = 2
SPECIFICATION FairSpec
CHECK_DEADLOCK FALSE
INVARIANTS
    ProfileFitsSource
    StepsAsAsked
    DimIsSeen
PROPERTIES
    LastGoodStands
    PlugNoticed
