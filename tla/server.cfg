\* Clients restart and quit, two sessions at a time, but are never silent for long.
SPECIFICATION FairSpec

CONSTANTS
    e1 = e1
    a1 = a1
    e2 = e2
    a2 = a2
    e3 = e3
    Null = Null
    Endpoints <- ThreeEndpoints
    Addresses <- TwoAddresses
    MAX_SESSION_COUNT = 1
    max_clients = 2
    MaxJoins = 1
    Silence = FALSE
    GarbageIds = {0, 2}
    GarbageTeams = {"RED", "BLUE", "none"}

INVARIANT TypeOK
INVARIANT SessionsDistinct
INVARIANT PlayersKeepTheirSession
INVARIANT OnePlayerPerClient
PROPERTY ActionsMoveOwnPlayer
PROPERTY PurgeSparesTheLiving
PROPERTY PlacesAreFreed

CHECK_DEADLOCK FALSE
