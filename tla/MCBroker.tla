------------------------------ MODULE MCBroker ------------------------------
(***************************************************************************)
(* Instance of Broker for TLC.                                             *)
(***************************************************************************)
EXTENDS Broker

CONSTANTS q1, q2, q3

ThreeClients == {q1, q2, q3}

\* The clients differ in their kind only: one order of the kinds is enough.
Rank(q) == CASE kind[q] = "silent"   -> 0 [] kind[q] = "noToken"  -> 1
             [] kind[q] = "get"      -> 2 [] kind[q] = "getOther" -> 3
OrderedInit == Init /\ Rank(q1) <= Rank(q2) /\ Rank(q2) <= Rank(q3)

\* One client or more says nothing, or all of them claim another repository.
CrowdedInit == OrderedInit /\ kind[q1] \in {"silent", "getOther"}
CrowdedSpec == CrowdedInit /\ [][Next]_vars /\ Fairness
=============================================================================
