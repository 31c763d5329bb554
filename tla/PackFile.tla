------------------------------ MODULE PackFile ------------------------------
(***************************************************************************)
(* The agent's policy pack (policy.Find, Load, RawBytes): cmdHere reads it *)
(* once to parse it, which gives the box its allowlist and its image, and  *)
(* once more to hash it for the receipt.  With --policies it is a file     *)
(* somebody may be editing; without, or when the directory has no file for *)
(* the agent, it is the pack embedded in the binary.                       *)
(***************************************************************************)
EXTENDS HostRuns, Naturals

CONSTANTS Versions,  \* the contents the file can have
          Embedded,  \* the content of the embedded pack
          NoPack,    \* no file; nothing read
          MaxEdits   \* bound: edits of the file

ASSUME PackAssumption ==
  /\ {Embedded, NoPack} \cap Versions = {} /\ Embedded # NoPack
  /\ MaxEdits \in Nat

VARIABLES
  pack,    \* the file in the --policies directory
  edits,   \* how often it was changed
  parsed,  \* what Find parsed, and gave the box
  hashed   \* what RawBytes returned, and the receipt names

packVars == <<pack, edits, parsed, hashed>>

PackInit ==
  /\ pack \in Versions \cup {NoPack}
  /\ edits = 0
  /\ parsed = [r \in Runs |-> NoPack]
  /\ hashed = [r \in Runs |-> NoPack]

\* policy.Find: Load if the file exists, else loadEmbedded.
Find(r) == IF "policies" \in use[r] /\ pack # NoPack THEN pack ELSE Embedded

\* policy.RawBytes: the file's bytes if it exists, else those of packsFS.
RawBytes(r) == IF "policies" \in use[r] /\ pack # NoPack THEN pack ELSE Embedded

\* The first read.  A pack that does not parse or validate, or that goes
\* between the look for the file and the read, ends the run before anything
\* was made; so do the checks in front of it.
FindPack(r) ==
  /\ \/ Move(r, "start", "hash")
        /\ parsed' = [parsed EXCEPT ![r] = Find(r)]
     \/ Move(r, "start", "done") /\ UNCHANGED parsed
  /\ before' = [before EXCEPT ![r] = {s \in Namesakes(r) : Over(s)}]
  /\ UNCHANGED <<use, pack, edits, hashed>>

\* The second read.  Its error is dropped: the receipt then has the hash of
\* no bytes.
HashPack(r) ==
  /\ Step(r, "hash", "bundle")
  /\ \E b \in {RawBytes(r), NoPack} : hashed' = [hashed EXCEPT ![r] = b]
  /\ UNCHANGED <<pack, edits, parsed>>

\* Somebody writes or removes the file.  Once nobody will read it again, that
\* is of no interest.
EditPack ==
  /\ \E r \in Runs : "policies" \in use[r] /\ at[r] \in {"start", "hash"}
  /\ edits < MaxEdits
  /\ edits' = edits + 1
  /\ pack' \in (Versions \cup {NoPack}) \ {pack}
  /\ UNCHANGED <<use, at, before, parsed, hashed>>

=============================================================================
