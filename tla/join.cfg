\* Two clients want one place, or two, and may ask to join twice.
SPECIFICATION FairSpec

CONSTANTS
    c1 = c1
    c2 = c2
    Null = Null
    Clients <- TwoClients
    Bases = {1, 2}
    Limits = {1, 2}
    MAXPLAYERS = 1
    MaxAttempts = 1
    GarbageTeams = {"none"}

INVARIANT TypeOK
INVARIANT OwnPlayer
INVARIANT EarlierPlayersKnown
INVARIANT RefusedWhenFull
PROPERTY WorldArrives
PROPERTY LaterPlayersKnown

CHECK_DEADLOCK FALSE
