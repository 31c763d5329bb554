----------------------------- MODULE MCBoxPlan -----------------------------
(***************************************************************************)
(* Instance of BoxPlan for TLC.                                            *)
(***************************************************************************)
EXTENDS BoxPlan

\* Of the requests whose plan the guard refuses as it is built, those with a
\* socket and a login path are enough: they have the most to lose in an edit.
FullInit == Init /\ (Wanted(req) \/ (req.sock = "owned" /\ req.logins = {"login"}))
FullSpec == FullInit /\ [][Next]_vars
=============================================================================
