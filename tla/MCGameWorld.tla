---------------------------- MODULE MCGameWorld ----------------------------
(***************************************************************************)
(* Small instances of GameWorld for TLC.                                   *)
(***************************************************************************)
EXTENDS GameWorld, TLC

CONSTANTS c1, c2

OneClient == {c1}
TwoPlayers == {c1, c2}
Opponents == c1 :> "RED" @@ c2 :> "BLUE"
TwoBases == 1 :> "RED" @@ 2 :> "BLUE"
=============================================================================
