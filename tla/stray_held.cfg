CONSTANTS
    Boot <- MobileBoot
    Reloads <- SteadyReloads
    Rejected = Rejected
    HasPowerManager = TRUE
    Dbus = TRUE
    Session = TRUE
    Logind = TRUE
    Laptop = TRUE
    MaxQuiet = 3
    MaxWire = 2
    MaxStray = 1
SPECIFICATION Spec
CHECK_DEADLOCK FALSE
PROPERTY HeldQuiet
