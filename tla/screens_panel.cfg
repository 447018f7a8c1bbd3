CONSTANTS
    Outputs = {}
    HasPowerManager = FALSE
    Layered = FALSE
    HasPanel = TRUE
    Refusable = TRUE
    Steps = 2
    Brightest = 9
    MaxSetters = 3
    MaxEvents = 2
SPECIFICATION Spec
CHECK_DEADLOCK FALSE
INVARIANTS
    StaysLit
    TheirsStands
