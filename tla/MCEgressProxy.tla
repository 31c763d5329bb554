--------------------------- MODULE MCEgressProxy ---------------------------
(***************************************************************************)
(* Instances of EgressProxy for TLC.                                       *)
(***************************************************************************)
EXTENDS EgressProxy

CONSTANTS c1, c2, c3, injected, plain, other, none

ThreeConns == {c1, c2, c3}
OneConn    == {c1}
Injected   == {injected}
Plain      == {plain}
Other      == {other}
NoHost     == {}

\* Pipes do not share anything with other connections: one is enough.
OnePipeInit == Init /\ \A c \in Conns \ {c1} : host[c] # plain
OnePipeSpec == OnePipeInit /\ [][Next]_vars /\ Fairness
=============================================================================
