CONSTANTS
    Boot <- DesktopBoot
    Reloads <- DesktopReloads
    Rejected = Rejected
    HasPowerManager = TRUE
    Dbus = TRUE
    Session = TRUE
    Logind = FALSE
    Laptop = FALSE
    MaxQuiet = 4
    MaxWire = 3
    MaxStray = 3
SPECIFICATION FairSpec
CHECK_DEADLOCK FALSE
INVARIANTS
    WakesOnInput
PROPERTIES
    OnlyStraysMislead
    IdleEventually
    ResumedUndoes
