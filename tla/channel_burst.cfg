\* 12 messages at once, more than there are ids.
SPECIFICATION Spec

CONSTANTS
    MaxWrites <- OneWay12
    MaxLossy = 0
    MaxInFlight = 2
    Window = 12
    Capacity = 12
    InitialIds = {6, 209}
    Faults = {}

INVARIANT NoReliableLoss

CHECK_DEADLOCK FALSE
