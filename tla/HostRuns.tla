------------------------------ MODULE HostRuns ------------------------------
(***************************************************************************)
(* The invocations of `runclave .` on one machine, as far as they meet on  *)
(* the host: where each is in cmdHere and which of them were over when it  *)
(* began.  Two runs in one directory share the repository; two runs in     *)
(* directories of the same base name share the box name, and with it the   *)
(* socket directory and the receipt files.                                 *)
(***************************************************************************)
CONSTANTS Runs,    \* the invocations
          Repo,    \* the directory of each
          Box,     \* the box name of each
          Nobody   \* no run

ASSUME HostRunsAssumption ==
  /\ Nobody \notin Runs
  /\ \A r, s \in Runs : Repo[r] = Repo[s] => Box[r] = Box[s]

\* What a run is given: a --policies directory, --clean, a GitHub App and a
\* github.com origin, a cache directory for its receipts.
Uses == {"policies", "clean", "app", "cache"}

VARIABLES
  use,    \* the Uses of each run; never changes
  at,     \* where each run is
  before  \* the runs under the same box name that were over when it began

Repos == {Repo[r] : r \in Runs}
Boxes == {Box[r] : r \in Runs}

\* A run ends in order ("done") or is cut short: killed, or interrupted where
\* nothing is registered yet that would undo the step it is in.
Over(r) == at[r] \in {"done", "cut"}

Namesakes(r) == {s \in Runs \ {r} : Box[s] = Box[r]}

Move(r, from, to) == at[r] = from /\ at' = [at EXCEPT ![r] = to]
Step(r, from, to) == Move(r, from, to) /\ UNCHANGED <<use, before>>
=============================================================================
