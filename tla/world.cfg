\* A client that plays, and an opponent that acts at any time.
SPECIFICATION FairSpec

CONSTANTS
    c1 = c1
    c2 = c2
    Players <- TwoPlayers
    Clients <- OneClient
    Bases = {1, 2}
    team <- Opponents
    owner <- TwoBases
    MaxRequests = 2
    MaxUpdates = 2
    MaxInFlight = 2

INVARIANT TypeOK
INVARIANT ViewsNotAhead
INVARIANT SpawnsNameOwnBases
PROPERTY StatusConverges
PROPERTY SpawnIsSeen

CHECK_DEADLOCK FALSE
