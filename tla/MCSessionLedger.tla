-------------------------- MODULE MCSessionLedger --------------------------
(***************************************************************************)
(* Instance of SessionLedger for TLC.                                      *)
(***************************************************************************)
EXTENDS SessionLedger, TLC

CONSTANTS q1, q2, main

TwoRequests == {q1, q2}
Symmetry == Permutations(TwoRequests)
=============================================================================
