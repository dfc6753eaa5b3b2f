------------------------- MODULE MCSessionChannel -------------------------
(***************************************************************************)
(* Small instances of SessionChannel for TLC.                              *)
(***************************************************************************)
EXTENDS SessionChannelInv

\* The client writes, the server only acknowledges.
OneWay12 == [client |-> 12, server |-> 0]
OneWay5 == [client |-> 5, server |-> 0]

\* Both ends write.
BothWays == [client |-> 3, server |-> 2]

=============================================================================
