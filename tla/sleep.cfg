CONSTANTS
    MaxSleeps = 4
    Locks = TRUE
SPECIFICATION FairSpec
CHECK_DEADLOCK FALSE
INVARIANTS
    AnsweredFirst
    ReadyForTheNext
PROPERTIES
    NeverWedged
