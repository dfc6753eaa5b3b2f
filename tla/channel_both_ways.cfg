\* Both ends write; packets are too small for all that is queued, and some are
\* lost.  Every message is handled at last.
SPECIFICATION FairSpec

CONSTANTS
    MaxWrites <- BothWays
    MaxLossy = 1
    MaxInFlight = 2
    Window = 2
    Capacity = 2
    InitialIds = {209}
    Faults = {"lose"}

INVARIANT IInv
PROPERTY Delivery

CHECK_DEADLOCK FALSE
