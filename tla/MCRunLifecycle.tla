--------------------------- MODULE MCRunLifecycle ---------------------------
(***************************************************************************)
(* Instances of RunLifecycle for TLC.                                      *)
(***************************************************************************)
EXTENDS RunLifecycle

CONSTANTS r1, r2, nobody

OneRun  == {r1}
TwoRuns == {r1, r2}
NoRun   == {}

Flags(rm, dry, shell) ==
  [rm |-> rm, dry |-> dry, broker |-> FALSE, shell |-> shell]

AllOptions  == [rm : BOOLEAN, dry : BOOLEAN, broker : BOOLEAN, shell : BOOLEAN]
RealOptions == {Flags(FALSE, FALSE, FALSE), Flags(TRUE, FALSE, FALSE)}
PlainOption == {Flags(FALSE, FALSE, FALSE)}
RmOption    == {Flags(TRUE, FALSE, FALSE)}
DryRmOption == {Flags(FALSE, FALSE, FALSE), Flags(TRUE, TRUE, FALSE)}
=============================================================================
