CONSTANTS
    film = film
    game = game
    Clients <- Two
    Mortal <- Two
    Span = 3
    MaxInhibits = 3
    MaxInbox = 1
    MaxChannel = 2
SPECIFICATION FairSpec
CHECK_DEADLOCK FALSE
INVARIANTS
    CookiesUnique
    HoldersKept
    AgreesWhileAllLive
PROPERTIES
    OnlyOwnerReleases
    DepartureReleases
