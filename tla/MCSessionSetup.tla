-------------------------- MODULE MCSessionSetup --------------------------
(***************************************************************************)
(* The handshake with the periods of the code, in ticks of 100 ms.         *)
(***************************************************************************)
EXTENDS SessionSetup
=============================================================================
