\* Packets with up to five messages in room for two to five.
SPECIFICATION Spec

CONSTANTS
    MAXBUFSIZE = 24
    Classes <- TheClasses
    reliable <- TheReliable
    fields <- TheFields
    bytes_from <- TheBytesFrom
    MaxQueue = 5

INVARIANT TypeOK
INVARIANT RoundTrip
INVARIANT OnlyReliableCut
INVARIANT DamageIsLast
INVARIANT CutNumberDropped

CHECK_DEADLOCK FALSE
