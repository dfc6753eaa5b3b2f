\* Three clients that join one after the other.
SPECIFICATION Spec
CONSTANTS
    Sessions = {s1, s2, s3}
    Bases = 1
INVARIANT AllPlayersNotified
CHECK_DEADLOCK FALSE
