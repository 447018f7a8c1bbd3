CONSTANTS
    Outputs = {o1, o2}
    HasPowerManager = TRUE
    Layered = TRUE
    HasPanel = FALSE
    Refusable = FALSE
    Steps = 3
    Brightest = 1
    MaxSetters = 1
    MaxEvents = 2
SPECIFICATION FairSpec
CHECK_DEADLOCK FALSE
INVARIANTS
    PowerAsAsked
    DimTogether
PROPERTIES
    DimsFully
