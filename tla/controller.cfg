CONSTANTS
    Low <- StickLow
    High = 4
    Flat = 1
    Deadzone = 50
    Interval = 2
    Half = 16
    MaxAge = 5
SPECIFICATION PadSpec
CHECK_DEADLOCK FALSE
INVARIANTS
    SlowPushNoticed
    NoFalseWake
    ToldInTime
