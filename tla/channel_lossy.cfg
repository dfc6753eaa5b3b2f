\* 12 writes over a path that loses packets: the ids wrap around.
SPECIFICATION Spec

CONSTANTS
    MaxWrites <- OneWay12
    MaxLossy = 0
    MaxInFlight = 2
    Window = 5
    Capacity = 6
    InitialIds = {6, 209}
    Faults = {"lose"}

INVARIANT IInv
INVARIANT AtMostOnce
INVARIANT NoReliableLoss
INVARIANT NoGaps
PROPERTY ImplementsReliableChannel

CHECK_DEADLOCK FALSE
