\* A client that repeats its questions, and nothing that is sure to answer.
SPECIFICATION LoopSpec

CONSTANTS
    c1 = c1
    c2 = c2
    Null = Null
    Clients <- OneClient
    Bases = {1, 2}
    Limits = {1, 3}
    MAXPLAYERS = 1
    MaxAttempts = 2
    GarbageTeams = {"RED", "BLUE", "none"}

INVARIANT OwnPlayer
PROPERTY JoinLoopEnds
PROPERTY TeamsStayClose

CHECK_DEADLOCK FALSE
