\* Packets overtake each other; five messages in all.
SPECIFICATION Spec

CONSTANTS
    MaxWrites <- OneWay5
    MaxLossy = 0
    MaxInFlight = 3
    Window = 5
    Capacity = 6
    InitialIds = {6, 209}
    Faults = {"lose", "duplicate", "reorder"}

INVARIANT AtMostOnce
INVARIANT FewInv

PROPERTY ImplementsReliableChannel

CHECK_DEADLOCK FALSE
