----------------------------- MODULE MCJoinGame -----------------------------
(***************************************************************************)
(* Small instances of JoinGame for TLC.                                    *)
(***************************************************************************)
EXTENDS JoinGame, TLC

CONSTANTS c1, c2

OneClient == {c1}
TwoClients == {c1, c2}
=============================================================================
