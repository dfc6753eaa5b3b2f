---------------------------- MODULE MCPacketCodec ----------------------------
(***************************************************************************)
(* Classes of src/source/messages and of session.h, in a small packet.     *)
(***************************************************************************)
EXTENDS PacketCodec

UINT8 == [kind |-> "UINT8", size |-> 1]
UINT16 == [kind |-> "UINT16", size |-> 2]
CHARS(n) == [kind |-> "STRING", size |-> n]
OCTETS(n) == [kind |-> "OCTETS", size |-> n]

TheFields ==
    [PlayerLiftOff |-> <<UINT16>>,
     PlayerInformation |-> <<UINT16, CHARS(1), UINT8>>,
     DenyJoin |-> <<CHARS(2)>>,
     PlayerJoins |-> <<UINT8, UINT8, CHARS(0)>>,
     ObjectSpawn |-> <<UINT16, UINT8, UINT8, OCTETS(8)>>,
     PlayerState |-> <<UINT16, UINT16, UINT8, UINT16, UINT16, UINT16, UINT16, UINT16>>,
     SessionAck |-> <<UINT8>>]

TheClasses == DOMAIN TheFields
Unreliable == {"PlayerState", "SessionAck"}
TheReliable == [class \in TheClasses |-> class \notin Unreliable]

TheBytesFrom ==
    [class \in TheClasses |->
        [k \in 1..(Len(TheFields[class]) + 1) |->
            FoldLeft(LAMBDA sum, f : sum + Width(f), 0,
                     SubSeq(TheFields[class], k, Len(TheFields[class])))]]
=============================================================================
