---------------------------- MODULE MCReceiptKey ----------------------------
(***************************************************************************)
(* Instance of HostSide for TLC: three runs in one directory.  (For all    *)
(* but the seed, directories of the same base name would do as well.)  The *)
(* parts of a run share no variable but where the run is, so they are      *)
(* explored one at a time: the initial states give the runs what makes     *)
(* them use one part and pass the others, and one of them gives a single   *)
(* run everything.                                                         *)
(***************************************************************************)
EXTENDS HostSide, TLC

CONSTANTS p1, p2, p3, v1, repo, box

MCProcs == {p1, p2, p3}
MCVerifiers == {v1}
MCRepo == [r \in MCProcs |-> repo]
MCBox == [r \in MCProcs |-> box]
Symmetry == Permutations(MCProcs)

\* Two runs, both given u; a third is over.
Two(u) ==
  HostInitFrom(p1 :> "start" @@ p2 :> "start" @@ p3 :> "done", [r \in Runs |-> u])

MCInit ==
  \/ Two({"policies"})
  \/ Two({"clean", "app"})
  \/ HostInitFrom([r \in Runs |-> "json"], [r \in Runs |-> {"cache"}])
  \/ HostInitFrom(p1 :> "start" @@ p2 :> "done" @@ p3 :> "done",
                  [r \in Runs |-> {"policies", "app", "cache"}])

MCSpec == MCInit /\ [][HostNext]_hostVars
=============================================================================
