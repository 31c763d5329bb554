-------------------------------- MODULE Seed --------------------------------
(***************************************************************************)
(* The workspace seed (workspace.CreateSeedArtifacts): history in one      *)
(* bundle, uncommitted tracked changes in another.  The latter need a ref, *)
(* and every run in the repository uses the same, refs/runclave/seed-stash.*)
(* `git bundle create --all` takes every ref there is, that one included.  *)
(*                                                                         *)
(* A stash commit is identified with the run that created it.              *)
(***************************************************************************)
EXTENDS HostRuns

VARIABLES
  ref,      \* refs/runclave/seed-stash of each repository
  history,  \* the stash that repo.bundle carries besides the history
  dirty     \* the stash in dirty.bundle

seedVars == <<ref, history, dirty>>

SeedInit ==
  /\ ref = [d \in Repos |-> Nobody]
  /\ history = [r \in Runs |-> Nobody]
  /\ dirty = [r \in Runs |-> Nobody]

\* The places at which the ref may be r's.
Naming == {"dirty", "unname", "unnameErr"}

\* git bundle create repo.bundle --all HEAD; with --clean that is all.
Bundle(r) ==
  /\ IF "clean" \in use[r] THEN Step(r, "bundle", "sockdir")
                           ELSE Step(r, "bundle", "stash")
  /\ history' = [history EXCEPT ![r] = ref[Repo[r]]]
  /\ UNCHANGED <<ref, dirty>>

\* git stash create prints nothing when no tracked file has changed.
StashCreate(r) ==
  /\ Step(r, "stash", "name") \/ Step(r, "stash", "untracked")
  /\ UNCHANGED seedVars

\* Mutant: a ref that is there already is taken for this run's.
NameStashOnce(r) ==
  /\ Step(r, "name", "dirty")
  /\ ref' = [ref EXCEPT ![Repo[r]] = IF @ = Nobody THEN r ELSE @]
  /\ UNCHANGED <<history, dirty>>

\* git update-ref
NameStash(r) ==
  /\ Step(r, "name", "dirty")
  /\ ref' = [ref EXCEPT ![Repo[r]] = r]
  /\ UNCHANGED <<history, dirty>>

\* git bundle create dirty.bundle <ref>: whatever the ref names by now, or an
\* error if it is gone.
BundleStash(r) ==
  /\ IF ref[Repo[r]] = Nobody THEN Step(r, "dirty", "unnameErr")
                              ELSE Step(r, "dirty", "unname")
  /\ dirty' = [dirty EXCEPT ![r] = ref[Repo[r]]]
  /\ UNCHANGED <<ref, history>>

\* Mutant: an error of the bundle returns before the ref is deleted.
UnnameStashIfBundled(r) ==
  /\ \/ Step(r, "unname", "untracked") /\ ref' = [ref EXCEPT ![Repo[r]] = Nobody]
     \/ Step(r, "unnameErr", "cleanup") /\ UNCHANGED ref
  /\ UNCHANGED <<history, dirty>>

\* git update-ref -d, whether or not the bundle was made; then its error.
UnnameStash(r) ==
  /\ Step(r, "unname", "untracked") \/ Step(r, "unnameErr", "cleanup")
  /\ ref' = [ref EXCEPT ![Repo[r]] = Nobody]
  /\ UNCHANGED <<history, dirty>>

\* git ls-files and tar, if there are untracked files.
Untracked(r) == Step(r, "untracked", "sockdir") /\ UNCHANGED seedVars

\* A command fails by itself.  Only an error of the bundle goes through the
\* deletion of the ref.  (The deletion's own error is dropped; a ref left by
\* it is like one left by a run that is killed there.)
SeedFails(r) ==
  /\ \/ \E s \in {"bundle", "stash", "name", "untracked"} : Step(r, s, "cleanup")
     \/ Step(r, "dirty", "unnameErr")
  /\ UNCHANGED seedVars

\* The seed directory is removed, or its files are in the box: nothing reads
\* them again.
DropSeed(r) ==
  /\ history' = [history EXCEPT ![r] = Nobody]
  /\ dirty' = [dirty EXCEPT ![r] = Nobody]
  /\ UNCHANGED ref

-----------------------------------------------------------------------------
\* "Then delete the ref (cleaned up even if the bundle fails -> no stray
\* ref)": in whatever order runs in one repository name, bundle and delete,
\* the ref that is there belongs to a run that will delete it, or to one
\* that was cut short on the way; and the latter's is gone as soon as a later
\* run has named a stash of its own, so nothing needs to be repaired.
StashRefTransient ==
  /\ \A d \in Repos : ref[d] # Nobody => at[ref[d]] \in Naming \cup {"cut"}
  /\ \A r \in Runs :
       at[r] \in Naming \/ dirty[r] # Nobody => ref[Repo[r]] \notin before[r]

\* The uncommitted changes a run takes into its box are not those of an
\* earlier run: in the dirty bundle never, even if that run left its ref
\* behind; in the history bundle only if that run was cut short.  (From a run
\* at the same time both bundles may take them.)
SeedIsFresh ==
  \A r \in Runs :
    /\ dirty[r] \notin before[r]
    /\ history[r] \in before[r] => at[history[r]] = "cut"
=============================================================================
