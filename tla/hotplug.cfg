CONSTANTS
    Devices = {"stick", "power", "odd"}
    Nodes = {"event0", "event1"}
    Links = {"by-id"}
    LinkTo <- MCLinkTo
    Nobody = Nobody
    CapsOf <- MCCapsOf
    Named <- MCNamed
    Granted = {"stick", "power", "odd"}
    Boot <- Plain
    Reloads <- MCReloads
SPECIFICATION FairSpec
CHECK_DEADLOCK FALSE
INVARIANTS
    WatchedAsAsked
    QuietMeansWatched
PROPERTIES
    KeepsWhatWorks
    EventuallyWatched
