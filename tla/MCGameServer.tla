---------------------------- MODULE MCGameServer ----------------------------
(***************************************************************************)
(* Small instances of GameServer for TLC.                                  *)
(***************************************************************************)
EXTENDS GameServer, TLC

CONSTANTS e1, e2, e3, a1, a2

TwoEndpoints == {e1, e2}
TwoAddresses == {a1, a2}
ThreeEndpoints == {e1, e2, e3}

\* Endpoints and addresses are only compared.
Interchangeable2 == Permutations(TwoEndpoints) \cup Permutations(TwoAddresses)
=============================================================================
