\* The answer to a join request is late and the client asks again.
SPECIFICATION Spec

CONSTANTS
    e1 = e1
    a1 = a1
    e2 = e2
    a2 = a2
    e3 = e3
    Null = Null
    Endpoints <- TwoEndpoints
    Addresses <- TwoAddresses
    MAX_SESSION_COUNT = 1
    max_clients = 2
    MaxJoins = 2
    Silence = FALSE
    GarbageIds = {0, 1, 2}
    GarbageTeams = {"RED", "BLUE", "none"}

SYMMETRY Interchangeable2

INVARIANT PlayersKeepTheirSession

CHECK_DEADLOCK FALSE
