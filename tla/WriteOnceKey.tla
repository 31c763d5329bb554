---------------------------- MODULE WriteOnceKey ----------------------------
(***************************************************************************)
(* What receiptSigningKey promises the machine: one identity.  The first   *)
(* process that needs a key fixes it, every other one gets the same, and a *)
(* process that fails gets none.                                           *)
(***************************************************************************)
CONSTANTS Procs,  \* the processes that need a key; each brings its own
          NoKey   \* the value of a key that is not there

VARIABLES key,    \* the machine's key: who generated it
          held    \* the key each process signs with

Init ==
  /\ key = NoKey
  /\ held = [p \in Procs |-> NoKey]

\* p is the first: its own key becomes the machine's.
Establish(p) ==
  /\ key = NoKey
  /\ key' = p
  /\ held' = [held EXCEPT ![p] = p]

\* p is not the first: it gets the key that is there.
Obtain(p) ==
  /\ key # NoKey
  /\ held[p] = NoKey
  /\ held' = [held EXCEPT ![p] = key]
  /\ UNCHANGED key

Next == \E p \in Procs : Establish(p) \/ Obtain(p)

Spec == Init /\ [][Next]_<<key, held>>
=============================================================================
