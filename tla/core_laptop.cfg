CONSTANTS
    Boot <- LaptopBoot
    Reloads <- LaptopReloads
    Rejected = Rejected
    HasPowerManager = TRUE
    Dbus = TRUE
    Session = TRUE
    Logind = TRUE
    Laptop = TRUE
    MaxQuiet = 2
    MaxWire = 2
    MaxStray = 2
SPECIFICATION Spec
CHECK_DEADLOCK FALSE
INVARIANTS
    CountdownsRight
    FiredIsOwed
    SleepsAgain
PROPERTIES
    ImplementsCurtain
