\* The periods of the code; a client that is started 0 to 3.4 s after it quit.
SPECIFICATION FairSpec

CONSTANTS
    RetryDelay = 3
    MaxAttempts = 10
    MAX_SESSION_AGE = 25
    PurgePeriod = 10
    MaxDelay = 2
    Ages = {0, 14, 25, 26, 34}

INVARIANT TypeOK
INVARIANT SessionLives
INVARIANT ExitHasReason
PROPERTY AbandonedSessionEnds

CHECK_DEADLOCK FALSE
