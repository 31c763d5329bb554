----------------------------- MODULE ReceiptKey -----------------------------
(***************************************************************************)
(* The machine's receipt-signing key (cli.receiptSigningKey and            *)
(* loadReceiptKey), used by any number of runclave processes that finish a *)
(* run at the same time, and `runclave verify`, which only reads it.       *)
(*                                                                         *)
(* A key is identified with the process that generated it.  A file is its  *)
(* owner and whether its 64 bytes are there: loadReceiptKey refuses any    *)
(* other size.                                                             *)
(***************************************************************************)
CONSTANTS Procs,      \* processes that sign a receipt
          Verifiers,  \* runs of `runclave verify` on a receipt of theirs
          NoKey,      \* no file, no key
          Faulty      \* system calls may fail and processes may be killed

ASSUME KeyAssumption ==
  /\ NoKey \notin Procs
  /\ Faulty \in BOOLEAN

Size == {"none", "empty", "full"}
KeyFile == [owner : Procs \cup {NoKey}, size : Size]
Verdict == [said : {"nothing", "mine", "unknown"}, keyRead : BOOLEAN]
NoFile  == [owner |-> NoKey, size |-> "none"]

VARIABLES
  pc,       \* where each signing process is
  keyFile,  \* receipt_ed25519.key
  tmp,      \* the size of the process's temporary file
  held,     \* the key receiptSigningKey returned
  verdict,  \* what `runclave verify` said of the signer, and whether it could
            \* read the key file
  fault     \* something failed or was killed

vars == <<pc, keyFile, tmp, held, verdict, fault>>

PC == {"load", "create", "write", "link", "reload", "remove", "done", "killed"}

Init ==
  /\ pc = [p \in Procs |-> "load"]
  /\ keyFile = NoFile
  /\ tmp = [p \in Procs |-> "none"]
  /\ held = [p \in Procs |-> NoKey]
  /\ verdict = [v \in Verifiers |-> [said |-> "nothing", keyRead |-> FALSE]]
  /\ fault = FALSE

Goto(p, next) == pc' = [pc EXCEPT ![p] = next]

\* loadReceiptKey: absent, a key, or an error for any other size.
Readable == keyFile.size = "full"
Absent   == keyFile.size = "none"

\* The key that is there is used; an unreadable file ends in an error.
Load(p) ==
  /\ pc[p] = "load"
  /\ \/ /\ Absent
        /\ Goto(p, "create")
        /\ UNCHANGED held
     \/ /\ ~Absent
        /\ held' = [held EXCEPT ![p] = IF Readable THEN keyFile.owner ELSE @]
        /\ Goto(p, "done")
  /\ UNCHANGED <<keyFile, tmp, verdict, fault>>

\* Mutant: the temporary file is linked before it is written.
CreateTempThenLink(p) ==
  /\ pc[p] = "create"
  /\ tmp' = [tmp EXCEPT ![p] = "empty"]
  /\ Goto(p, "link")
  /\ UNCHANGED <<keyFile, held, verdict, fault>>

\* os.CreateTemp in the key's directory, and Chmod.
CreateTemp(p) ==
  /\ pc[p] = "create"
  /\ tmp' = [tmp EXCEPT ![p] = "empty"]
  /\ Goto(p, "write")
  /\ UNCHANGED <<keyFile, held, verdict, fault>>

\* Mutant: a short write goes unnoticed.
WriteTempShort(p) ==
  /\ pc[p] = "write"
  /\ tmp' = [tmp EXCEPT ![p] = "partial"]
  /\ Goto(p, "link")
  /\ UNCHANGED <<keyFile, held, verdict, fault>>

\* Write the whole key and close the file.
WriteTemp(p) ==
  /\ pc[p] = "write"
  /\ tmp' = [tmp EXCEPT ![p] = "full"]
  /\ Goto(p, "link")
  /\ UNCHANGED <<keyFile, held, verdict, fault>>

\* Mutants: os.Rename in place of os.Link; the loser does not load the key.
LinkReplaces(p) ==
  /\ pc[p] = "link"
  /\ keyFile' = [owner |-> p, size |-> tmp[p]]
  /\ held' = [held EXCEPT ![p] = p]
  /\ Goto(p, "remove")
  /\ UNCHANGED <<tmp, verdict, fault>>
LinkLoserGivesUp(p) ==
  /\ pc[p] = "link"
  /\ IF Absent
     THEN /\ keyFile' = [owner |-> p, size |-> tmp[p]]
          /\ held' = [held EXCEPT ![p] = p]
     ELSE UNCHANGED <<keyFile, held>>
  /\ Goto(p, "remove")
  /\ UNCHANGED <<tmp, verdict, fault>>

\* os.Link fails if the path exists: the first writer wins.
Link(p) ==
  /\ pc[p] = "link"
  /\ IF Absent
     THEN /\ keyFile' = [owner |-> p, size |-> tmp[p]]
          /\ held' = [held EXCEPT ![p] = p]
          /\ Goto(p, "remove")
     ELSE Goto(p, "reload") /\ UNCHANGED <<keyFile, held>>
  /\ UNCHANGED <<tmp, verdict, fault>>

\* Mutant: the loser signs with the key it generated.
ReloadKeepsOwn(p) ==
  /\ pc[p] = "reload"
  /\ held' = [held EXCEPT ![p] = p]
  /\ Goto(p, "remove")
  /\ UNCHANGED <<keyFile, tmp, verdict, fault>>

\* A loser takes the winner's key.
Reload(p) ==
  /\ pc[p] = "reload"
  /\ held' = [held EXCEPT ![p] = IF Readable THEN keyFile.owner ELSE @]
  /\ Goto(p, "remove")
  /\ UNCHANGED <<keyFile, tmp, verdict, fault>>

\* The deferred os.Remove of the temporary file, on every return after
\* CreateTemp.
RemoveTemp(p) ==
  /\ pc[p] = "remove"
  /\ tmp' = [tmp EXCEPT ![p] = "none"]
  /\ Goto(p, "done")
  /\ UNCHANGED <<keyFile, held, verdict, fault>>

\* A system call fails.  A failed Link still goes through the reload: the
\* file may be there all the same.  A failed read gives no key.
Fail(p) ==
  /\ Faulty
  /\ \/ pc[p] \in {"load", "create"} /\ Goto(p, "done")
     \/ pc[p] \in {"write", "reload"} /\ Goto(p, "remove")
     \/ pc[p] = "link" /\ Goto(p, "reload")
  /\ fault' = TRUE
  /\ UNCHANGED <<keyFile, tmp, held, verdict>>

\* SIGKILL, or os.Exit(130) from the signal handler: nothing is removed.
Kill(p) ==
  /\ Faulty
  /\ pc[p] \notin {"done", "killed"}
  /\ Goto(p, "killed")
  /\ fault' = TRUE
  /\ UNCHANGED <<keyFile, tmp, held, verdict>>

\* `runclave verify` (without --key) on a receipt that p signed: it loads the
\* key without ever making one and compares fingerprints.  The error of a read
\* that fails is dropped, and the signer is called unknown.
Verify(v) ==
  /\ verdict[v].said = "nothing"
  /\ \E p \in Procs, read \in {TRUE, ~Faulty} :
       /\ pc[p] = "done" /\ held[p] # NoKey
       /\ verdict' = [verdict EXCEPT ![v] =
            [said |-> IF read /\ Readable /\ keyFile.owner = held[p]
                      THEN "mine" ELSE "unknown",
             keyRead |-> read]]
  /\ UNCHANGED <<pc, keyFile, tmp, held, fault>>

Terminated ==
  /\ \A p \in Procs : pc[p] \in {"done", "killed"}
  /\ \A v \in Verifiers :
       verdict[v].said # "nothing" \/ \A p \in Procs : pc[p] = "killed" \/ held[p] = NoKey
  /\ UNCHANGED vars

Next ==
  \/ \E p \in Procs :
       \/ Load(p) \/ CreateTemp(p) \/ WriteTemp(p) \/ Link(p) \/ Reload(p)
       \/ RemoveTemp(p) \/ Fail(p) \/ Kill(p)
  \/ \E v \in Verifiers : Verify(v)
  \/ Terminated

Spec == Init /\ [][Next]_vars

-----------------------------------------------------------------------------
(* Properties.                                                             *)

\* Types of the variables.
TypeOK ==
  /\ pc \in [Procs -> PC]
  /\ keyFile \in KeyFile
  /\ tmp \in [Procs -> Size]
  /\ held \in [Procs -> Procs \cup {NoKey}]
  /\ verdict \in [Verifiers -> Verdict]
  /\ fault \in BOOLEAN

\* "No split identity": all processes that got a key got the same one, the
\* one in the file.
OneIdentity ==
  \A p \in Procs : held[p] # NoKey => Readable /\ held[p] = keyFile.owner

\* "No 0-length window": the key file is never there without its contents,
\* wherever a process is killed.
NeverPartial == keyFile.size # "empty"

\* Losing the race costs nothing: if nothing failed, every process that is
\* done has a key to sign with, and its temporary file is gone.
EveryoneSigns ==
  \A p \in Procs : ~fault /\ pc[p] = "done" => held[p] # NoKey /\ tmp[p] = "none"

\* A receipt signed on this machine is recognised as this machine's, whichever
\* process signed it and whenever it is verified, by every `verify` that can
\* read the key: no other key is in the file by then, none is missing and none
\* is half there.
OwnReceiptsRecognised ==
  \A v \in Verifiers : verdict[v].said = "unknown" => ~verdict[v].keyRead

\* The abstract specification: the file is the machine's key, it is written
\* once and never replaced.
Abstract == INSTANCE WriteOnceKey WITH key <- keyFile.owner
RefinesWriteOnceKey == Abstract!Spec
=============================================================================
