--------------------------- MODULE HostSideProofs ---------------------------
(***************************************************************************)
(* For any number of processes and verifiers: the machine has one          *)
(* receipt-signing key, the file is never partial, and the protocol        *)
(* implements a write-once key.  For any number of runs, directories and   *)
(* box names: the host side uses that protocol as ReceiptKey describes it, *)
(* and what a run gives its box or leaves behind is its own.               *)
(***************************************************************************)
EXTENDS HostSide, FiniteSetTheorems, TLAPS

-----------------------------------------------------------------------------
(* The key.                                                                *)

\* Every variable keeps its type.
THEOREM TypeCorrect == Spec => []TypeOK
<1>1. Init => TypeOK
  <2>1. NoFile \in KeyFile
    BY DEF NoFile, KeyFile, Size
  <2> SUFFICES ASSUME Init PROVE TypeOK
    OBVIOUS
  <2>2. pc \in [Procs -> PC] /\ tmp \in [Procs -> Size]
    BY DEF Init, PC, Size
  <2>3. held \in [Procs -> Procs \cup {NoKey}]
    BY DEF Init
  <2>4. verdict \in [Verifiers -> Verdict]
    BY DEF Init, Verdict
  <2>5. fault \in BOOLEAN
    BY DEF Init
  <2>6. QED
    BY <2>1, <2>2, <2>3, <2>4, <2>5 DEF Init, TypeOK
<1>2. TypeOK /\ [Next]_vars => TypeOK'
  <2> SUFFICES ASSUME TypeOK, [Next]_vars PROVE TypeOK'
    OBVIOUS
  <2> USE DEF TypeOK, PC, KeyFile, Size, Goto
  <2>1. ASSUME NEW p \in Procs, Load(p) PROVE TypeOK'
    BY <2>1 DEF Load, Readable, Absent
  <2>2. ASSUME NEW p \in Procs, CreateTemp(p) PROVE TypeOK'
    BY <2>2 DEF CreateTemp
  <2>3. ASSUME NEW p \in Procs, WriteTemp(p) PROVE TypeOK'
    BY <2>3 DEF WriteTemp
  <2>4. ASSUME NEW p \in Procs, Link(p) PROVE TypeOK'
    BY <2>4 DEF Link, Absent
  <2>5. ASSUME NEW p \in Procs, Reload(p) PROVE TypeOK'
    BY <2>5 DEF Reload, Readable
  <2>6. ASSUME NEW p \in Procs, RemoveTemp(p) PROVE TypeOK'
    BY <2>6 DEF RemoveTemp
  <2>7. ASSUME NEW p \in Procs, Fail(p) PROVE TypeOK'
    BY <2>7 DEF Fail
  <2>8. ASSUME NEW p \in Procs, Kill(p) PROVE TypeOK'
    BY <2>8 DEF Kill
  <2>9. ASSUME NEW v \in Verifiers, Verify(v) PROVE TypeOK'
    <3>1. verdict' \in [Verifiers -> Verdict]
      <4>1. \E w \in Verdict : verdict' = [verdict EXCEPT ![v] = w]
        BY <2>9, KeyAssumption DEF Verify, Verdict
      <4>2. QED
        BY <4>1
    <3>2. QED
      BY <2>9, <3>1 DEF Verify
  <2>10. ASSUME UNCHANGED vars PROVE TypeOK'
    BY <2>10 DEF vars
  <2>11. QED
    BY <2>1, <2>2, <2>3, <2>4, <2>5, <2>6, <2>7, <2>8, <2>9, <2>10
       DEF Next, Terminated
<1>3. QED
  BY <1>1, <1>2, PTL DEF Spec

-----------------------------------------------------------------------------
(* The inductive invariant.  OneIdentity is not inductive by itself: that  *)
(* the linked file is complete comes from the temporary file being written *)
(* before it is linked, and that nobody holds a key while there is none    *)
(* from where held is set.                                                 *)

Inv ==
  /\ NeverPartial
  /\ keyFile.size = "none" <=> keyFile.owner = NoKey
  /\ OneIdentity
  /\ \A p \in Procs : pc[p] = "link" => tmp[p] = "full"
  /\ \A p \in Procs :
       pc[p] \in {"load", "create", "write", "link", "reload"} => held[p] = NoKey
  /\ OwnReceiptsRecognised

LEMMA InvInit == Init => Inv
  BY KeyAssumption
     DEF Init, Inv, NeverPartial, OneIdentity, OwnReceiptsRecognised, NoFile,
         Readable

LEMMA InvStep == TypeOK /\ Inv /\ [Next]_vars => Inv'
<1> SUFFICES ASSUME TypeOK, Inv, [Next]_vars PROVE Inv'
  OBVIOUS
<1> USE KeyAssumption
    DEF TypeOK, PC, KeyFile, Size, Inv, NeverPartial, OneIdentity,
        OwnReceiptsRecognised, Goto, Readable
<1>1. ASSUME NEW p \in Procs, Load(p) PROVE Inv'
  BY <1>1 DEF Load, Absent
<1>2. ASSUME NEW p \in Procs, CreateTemp(p) PROVE Inv'
  BY <1>2 DEF CreateTemp
<1>3. ASSUME NEW p \in Procs, WriteTemp(p) PROVE Inv'
  BY <1>3 DEF WriteTemp
<1>4. ASSUME NEW p \in Procs, Link(p) PROVE Inv'
  BY <1>4 DEF Link, Absent
<1>5. ASSUME NEW p \in Procs, Reload(p) PROVE Inv'
  BY <1>5 DEF Reload
<1>6. ASSUME NEW p \in Procs, RemoveTemp(p) PROVE Inv'
  BY <1>6 DEF RemoveTemp
<1>7. ASSUME NEW p \in Procs, Fail(p) PROVE Inv'
  BY <1>7 DEF Fail
<1>8. ASSUME NEW p \in Procs, Kill(p) PROVE Inv'
  BY <1>8 DEF Kill
<1>9. ASSUME NEW v \in Verifiers, Verify(v) PROVE Inv'
  BY <1>9 DEF Verify
<1>10. ASSUME UNCHANGED vars PROVE Inv'
  BY <1>10 DEF vars
<1>11. QED
  BY <1>1, <1>2, <1>3, <1>4, <1>5, <1>6, <1>7, <1>8, <1>9, <1>10
     DEF Next, Terminated

LEMMA InvAlways == Spec => []Inv
  BY InvInit, InvStep, TypeCorrect, PTL DEF Spec

\* Two processes never sign with different keys.
THEOREM KeyIsShared == Spec => []OneIdentity
  BY InvAlways, PTL DEF Inv

\* The key file is never seen without its contents.
THEOREM KeyIsComplete == Spec => []NeverPartial
  BY InvAlways, PTL DEF Inv

\* Every receipt signed on the machine is recognised by each `runclave verify`
\* that can read the key.
THEOREM SignerIsRecognised == Spec => []OwnReceiptsRecognised
  BY InvAlways, PTL DEF Inv

\* As long as nothing fails: a process that lost the race finds the winner's
\* key, so one that is past its protocol has a key.
NothingFailed ==
  ~fault => \A p \in Procs :
    /\ pc[p] = "reload" => Readable
    /\ pc[p] \in {"remove", "done"} => held[p] # NoKey
    /\ pc[p] \in {"load", "create", "done"} => tmp[p] = "none"

LEMMA NothingFailedStep ==
  TypeOK /\ Inv /\ NothingFailed /\ [Next]_vars => NothingFailed'
<1> SUFFICES ASSUME TypeOK, Inv, NothingFailed, [Next]_vars, ~fault'
             PROVE  NothingFailed'
  BY DEF NothingFailed
<1> USE KeyAssumption
    DEF TypeOK, PC, KeyFile, Size, Inv, NeverPartial, NothingFailed, Goto, Readable
<1>1. ASSUME NEW p \in Procs, Load(p) PROVE NothingFailed'
  BY <1>1 DEF Load, Absent
<1>2. ASSUME NEW p \in Procs, CreateTemp(p) PROVE NothingFailed'
  BY <1>2 DEF CreateTemp
<1>3. ASSUME NEW p \in Procs, WriteTemp(p) PROVE NothingFailed'
  BY <1>3 DEF WriteTemp
<1>4. ASSUME NEW p \in Procs, Link(p) PROVE NothingFailed'
  BY <1>4 DEF Link, Absent
<1>5. ASSUME NEW p \in Procs, Reload(p) PROVE NothingFailed'
  BY <1>5 DEF Reload
<1>6. ASSUME NEW p \in Procs, RemoveTemp(p) PROVE NothingFailed'
  BY <1>6 DEF RemoveTemp
<1>7. ASSUME NEW p \in Procs, Fail(p) \/ Kill(p) PROVE NothingFailed'
  BY <1>7 DEF Fail, Kill
<1>8. ASSUME NEW v \in Verifiers, Verify(v) PROVE NothingFailed'
  BY <1>8 DEF Verify
<1>9. ASSUME UNCHANGED vars PROVE NothingFailed'
  BY <1>9 DEF vars
<1>10. QED
  BY <1>1, <1>2, <1>3, <1>4, <1>5, <1>6, <1>7, <1>8, <1>9
     DEF Next, Terminated

\* If nothing failed, whoever lost the race signs as well.
THEOREM LosersSign == Spec => []EveryoneSigns
<1>1. Init => NothingFailed
  BY DEF Init, NothingFailed
<1>2. NothingFailed => EveryoneSigns
  BY DEF NothingFailed, EveryoneSigns
<1>3. QED
  BY <1>1, <1>2, NothingFailedStep, TypeCorrect, InvAlways, PTL DEF Spec

\* The protocol implements the write-once key.
THEOREM Refinement == Spec => RefinesWriteOnceKey
<1>1. Init => Abstract!Init
  BY DEF Init, Abstract!Init, NoFile
<1>2. TypeOK /\ Inv /\ [Next]_vars => [Abstract!Next]_<<keyFile.owner, held>>
  <2> SUFFICES ASSUME TypeOK, Inv, [Next]_vars
               PROVE  Abstract!Next \/ UNCHANGED <<keyFile.owner, held>>
    OBVIOUS
  <2> USE KeyAssumption
      DEF TypeOK, KeyFile, Inv, NeverPartial, OneIdentity, Readable
  <2>1. ASSUME NEW p \in Procs, Load(p)
        PROVE  Abstract!Obtain(p) \/ UNCHANGED <<keyFile.owner, held>>
    BY <2>1 DEF Load, Absent, Abstract!Obtain, Size
  <2>2. ASSUME NEW p \in Procs, Link(p)
        PROVE  Abstract!Establish(p) \/ UNCHANGED <<keyFile.owner, held>>
    BY <2>2 DEF Link, Absent, Abstract!Establish
  <2>3. ASSUME NEW p \in Procs, Reload(p)
        PROVE  Abstract!Obtain(p) \/ UNCHANGED <<keyFile.owner, held>>
    BY <2>3 DEF Reload, Abstract!Obtain, Size
  <2>4. ASSUME NEW p \in Procs,
               CreateTemp(p) \/ WriteTemp(p) \/ RemoveTemp(p) \/ Fail(p) \/ Kill(p)
        PROVE  UNCHANGED <<keyFile.owner, held>>
    BY <2>4 DEF CreateTemp, WriteTemp, RemoveTemp, Fail, Kill
  <2>5. ASSUME NEW v \in Verifiers, Verify(v)
        PROVE  UNCHANGED <<keyFile.owner, held>>
    BY <2>5 DEF Verify
  <2>6. ASSUME UNCHANGED vars PROVE UNCHANGED <<keyFile.owner, held>>
    BY <2>6 DEF vars
  <2>7. QED
    BY <2>1, <2>2, <2>3, <2>4, <2>5, <2>6 DEF Next, Terminated, Abstract!Next
<1>3. QED
  BY <1>1, <1>2, TypeCorrect, InvAlways, PTL
     DEF Spec, RefinesWriteOnceKey, Abstract!Spec

-----------------------------------------------------------------------------
(* The host side.                                                          *)

\* Every host step is a step of the key protocol or leaves its variables
\* alone: what holds of ReceiptKey holds of the program that calls it.
THEOREM HostUsesKeyProtocol == HostSpec => Spec
<1>1. HostInit => Init
  BY DEF HostInit, HostInitFrom
<1>2. [HostNext]_hostVars => [Next]_vars
  <2> SUFFICES ASSUME [HostNext]_hostVars PROVE [Next]_vars
    OBVIOUS
  <2> USE DEF vars, keyVars, hostVars
  <2>1. ASSUME NEW r \in Runs,
               PackStep(r) \/ SeedStep(r) \/ BrokerStep(r) \/ RunBox(r) \/ Refuse(r)
                 \/ FileStep(r) \/ Cleanup(r)
        PROVE  UNCHANGED vars
    BY <2>1 DEF PackStep, SeedStep, BrokerStep, RunBox, Refuse, FileStep, Cleanup
  <2>2. ASSUME NEW r \in Runs, KeyStep(r) PROVE Next
    BY <2>2, HostAssumption DEF KeyStep, Next
  <2>3. ASSUME NEW r \in Runs, Interrupt(r) \/ CutShort(r) PROVE [Next]_vars
    BY <2>3, HostAssumption DEF Interrupt, CutShort, Abandon, Next
  <2>4. ASSUME NEW v \in Verifiers, VerifyStep(v) PROVE Next
    BY <2>4 DEF VerifyStep, VerifyReceipt, Next
  <2>5. ASSUME Edit \/ AllOver \/ UNCHANGED hostVars PROVE UNCHANGED vars
    BY <2>5 DEF Edit, AllOver
  <2>6. QED
    BY <2>1, <2>2, <2>3, <2>4, <2>5 DEF HostNext
<1>3. QED
  BY <1>1, <1>2, PTL DEF HostSpec, Spec

\* So the runs of the whole program sign with one key.
THEOREM HostSignsWithOneKey == HostSpec => []OneIdentity
  BY HostUsesKeyProtocol, KeyIsShared, PTL

-----------------------------------------------------------------------------
(* Types, as far as the arguments below need them.                         *)

RunType ==
  /\ DOMAIN at = Runs
  /\ before \in [Runs -> SUBSET Runs]

SeedType ==
  /\ ref \in [Repos -> Runs \cup {Nobody}]
  /\ history \in [Runs -> Runs \cup {Nobody}]
  /\ dirty \in [Runs -> Runs \cup {Nobody}]

BrokerType ==
  /\ sock \in [Boxes -> Runs \cup {Nobody}]
  /\ DOMAIN daemon = Runs /\ DOMAIN cleanup = Runs
  /\ mount \in [Runs -> Runs \cup {Nobody}]

\* What every step does to the control of the runs: nothing, or it moves one
\* run that is not over, or it starts one.
Stays == UNCHANGED <<at, before>>
Moves(r) ==
  /\ ~Over(r)
  /\ at' = [at EXCEPT ![r] = at'[r]]
  /\ UNCHANGED before
Starts(r) ==
  /\ at[r] = "start"
  /\ at' = [at EXCEPT ![r] = at'[r]]
  /\ before' = [before EXCEPT ![r] = {s \in Namesakes(r) : Over(s)}]

LEMMA Control ==
  ASSUME RunType, [HostNext]_hostVars
  PROVE  Stays \/ \E r \in Runs : Moves(r) \/ Starts(r)
<1> USE DEF RunType, Stays, Moves, Starts, Step, Move, Over
<1>1. ASSUME NEW r \in Runs, PackStep(r) PROVE Moves(r) \/ Starts(r)
  BY <1>1 DEF PackStep, FindPack, HashPack
<1>2. ASSUME NEW r \in Runs, SeedStep(r) PROVE Moves(r)
  BY <1>2 DEF SeedStep, Bundle, StashCreate, NameStash, BundleStash, UnnameStash,
              Untracked, SeedFails
<1>3. ASSUME NEW r \in Runs, BrokerStep(r) PROVE Stays \/ Moves(r)
  BY <1>3 DEF BrokerStep, NoBroker, SocketDir, Spawn, Poll, PollAgain, GiveUp,
              Configure, ClearStale, Listen, DaemonDies, ServeEnds, Daemon
<1>4. ASSUME NEW r \in Runs, RunBox(r) \/ Refuse(r) \/ Cleanup(r) PROVE Moves(r)
  BY <1>4 DEF RunBox, Refuse, Cleanup
<1>5. ASSUME NEW r \in Runs, FileStep(r) PROVE Moves(r)
  BY <1>5 DEF FileStep, OpenJson, WriteJson, Sign, OpenEnvelope, WriteEnvelope,
              NoReceipt, WriteFails
<1>6. ASSUME NEW r \in Runs, Interrupt(r) \/ CutShort(r) PROVE Moves(r)
  BY <1>6 DEF Interrupt, CutShort, Writing
<1>7. ASSUME NEW r \in Runs, KeyStep(r) PROVE Stays
  BY <1>7 DEF KeyStep
<1>8. ASSUME NEW v \in Verifiers, VerifyStep(v) PROVE Stays
  BY <1>8 DEF VerifyStep
<1>9. ASSUME Edit \/ AllOver \/ UNCHANGED hostVars PROVE Stays
  BY <1>9 DEF Edit, EditPack, AllOver, hostVars
<1>10. QED
  BY <1>1, <1>2, <1>3, <1>4, <1>5, <1>6, <1>7, <1>8, <1>9 DEF HostNext

\* Runs that a run found over stay over, and where they are.
RunInv ==
  /\ RunType
  /\ \A r \in Runs : \A s \in before[r] : Over(s) /\ s \in Namesakes(r)

LEMMA RunInvariant == HostSpec => []RunInv
<1>1. HostInit => RunInv
  BY DEF HostInit, HostInitFrom, RunInv, RunType
<1>2. RunInv /\ [HostNext]_hostVars => RunInv'
  <2> SUFFICES ASSUME RunInv, [HostNext]_hostVars PROVE RunInv'
    OBVIOUS
  <2> USE DEF RunInv, RunType, Over, Namesakes
  <2>1. CASE Stays
    BY <2>1 DEF Stays
  <2>2. ASSUME NEW r \in Runs, Moves(r) PROVE RunInv'
    BY <2>2 DEF Moves
  <2>3. ASSUME NEW r \in Runs, Starts(r) PROVE RunInv'
    BY <2>3 DEF Starts
  <2>4. QED
    BY <2>1, <2>2, <2>3, Control
<1>3. QED
  BY <1>1, <1>2, PTL DEF HostSpec

-----------------------------------------------------------------------------
(* The seed.                                                               *)

\* A ref belongs to a run that is between naming and deleting it, or was cut
\* short; once a run has named its stash, the ref is not an earlier run's.
SeedInv ==
  /\ SeedType
  /\ \A d \in Repos :
       ref[d] # Nobody => Repo[ref[d]] = d /\ at[ref[d]] \in Naming \cup {"cut"}
  /\ \A r \in Runs :
       at[r] \in Naming \/ dirty[r] # Nobody => ref[Repo[r]] \notin before[r]
  /\ \A r \in Runs : at[r] = "start" => history[r] = Nobody /\ dirty[r] = Nobody
  /\ SeedIsFresh

\* Outside SeedStep a run enters or leaves the places where the ref may be its
\* own only by being cut short, and what it has may only be dropped.
SeedAside ==
  /\ UNCHANGED ref
  /\ \A r \in Runs : at'[r] # at[r] => at'[r] \notin Naming /\ at'[r] # "start"
  /\ \A r \in Runs : at[r] \in Naming \cup {"cut"} /\ at'[r] # at[r] => at'[r] = "cut"
  /\ \A r \in Runs : history'[r] \in {history[r], Nobody} /\ dirty'[r] \in {dirty[r], Nobody}
  /\ SeedType'

LEMMA SeedAsideLemma ==
  ASSUME RunType, SeedType, [HostNext]_hostVars
  PROVE  SeedAside \/ \E r \in Runs : SeedStep(r)
<1> USE DEF RunType, SeedType, SeedAside, Naming, Step, Move, Over, seedVars
<1>1. ASSUME NEW r \in Runs, PackStep(r) PROVE SeedAside
  BY <1>1 DEF PackStep, FindPack, HashPack
<1>2. ASSUME NEW r \in Runs, BrokerStep(r) PROVE SeedAside
  BY <1>2 DEF BrokerStep, NoBroker, SocketDir, Spawn, Poll, PollAgain, GiveUp,
              Configure, ClearStale, Listen, DaemonDies, ServeEnds, Daemon
<1>3. ASSUME NEW r \in Runs, RunBox(r) \/ Refuse(r) \/ Cleanup(r) PROVE SeedAside
  BY <1>3 DEF RunBox, Refuse, Cleanup, DropSeed
<1>4. ASSUME NEW r \in Runs, FileStep(r) PROVE SeedAside
  BY <1>4 DEF FileStep, OpenJson, WriteJson, Sign, OpenEnvelope, WriteEnvelope,
              NoReceipt, WriteFails
<1>5. ASSUME NEW r \in Runs, Interrupt(r) \/ CutShort(r) PROVE SeedAside
  BY <1>5 DEF Interrupt, CutShort, Abandon, Writing
<1>6. ASSUME NEW r \in Runs, KeyStep(r) PROVE SeedAside
  BY <1>6 DEF KeyStep
<1>7. ASSUME NEW v \in Verifiers, VerifyStep(v) PROVE SeedAside
  BY <1>7 DEF VerifyStep
<1>8. ASSUME Edit \/ AllOver \/ UNCHANGED hostVars PROVE SeedAside
  BY <1>8 DEF Edit, EditPack, AllOver, hostVars
<1>9. QED
  BY <1>1, <1>2, <1>3, <1>4, <1>5, <1>6, <1>7, <1>8 DEF HostNext

LEMMA SeedInvariant == HostSpec => []SeedInv
<1>1. HostInit => SeedInv
  <2> SUFFICES ASSUME HostInit PROVE SeedInv
    OBVIOUS
  <2>1. /\ SeedInit
        /\ \A r \in Runs : before[r] = {}
    BY DEF HostInit, HostInitFrom
  <2>2. SeedType /\ \A d \in Repos : ref[d] = Nobody
    BY <2>1 DEF SeedInit, SeedType
  <2>3. \A r \in Runs : history[r] = Nobody /\ dirty[r] = Nobody
    BY <2>1 DEF SeedInit
  <2>4. QED
    BY <2>1, <2>2, <2>3 DEF SeedInv, SeedIsFresh
<1>2. RunInv /\ RunInv' /\ SeedInv /\ [HostNext]_hostVars => SeedInv'
  <2> SUFFICES ASSUME RunInv, RunInv', SeedInv, [HostNext]_hostVars PROVE SeedInv'
    OBVIOUS
  <2> USE HostRunsAssumption DEF SeedInv, SeedType, SeedIsFresh, RunInv, RunType, Over
  <2>1. CASE SeedAside
    <3>1. \A r \in Runs : at[r] # "start" => before'[r] = before[r]
      BY Control DEF Stays, Moves, Starts
    <3>2. \A d \in Repos :
            ref'[d] # Nobody => Repo[ref'[d]] = d /\ at'[ref'[d]] \in Naming \cup {"cut"}
      BY <2>1 DEF SeedAside, Naming
    <3>3. \A r \in Runs :
            at'[r] \in Naming \/ dirty'[r] # Nobody => ref'[Repo[r]] \notin before'[r]
      BY <2>1, <3>1 DEF SeedAside, Naming
    <3>4. \A r \in Runs : at'[r] = "start" => history'[r] = Nobody /\ dirty'[r] = Nobody
      BY <2>1 DEF SeedAside
    <3>5. \A r \in Runs : dirty'[r] \notin before'[r]
      BY <2>1, <3>1 DEF SeedAside
    <3>6. \A r \in Runs : history'[r] \in before'[r] => at'[history'[r]] = "cut"
      BY <2>1, <3>1 DEF SeedAside
    <3>7. QED
      BY <2>1, <3>2, <3>3, <3>4, <3>5, <3>6 DEF SeedAside
  <2>2. ASSUME NEW r \in Runs, SeedStep(r) PROVE SeedInv'
    <3> USE DEF Step, Move, Naming, Repos, Namesakes
    <3>1. CASE Bundle(r)
      BY <3>1 DEF Bundle
    <3>2. CASE StashCreate(r) \/ Untracked(r) \/ SeedFails(r)
      BY <3>2 DEF StashCreate, Untracked, SeedFails, seedVars
    <3>3. CASE NameStash(r)
      BY <3>3 DEF NameStash
    <3>4. CASE BundleStash(r)
      BY <3>4 DEF BundleStash
    <3>5. CASE UnnameStash(r)
      BY <3>5 DEF UnnameStash
    <3>6. QED
      BY <2>2, <3>1, <3>2, <3>3, <3>4, <3>5 DEF SeedStep
  <2>3. QED
    BY <2>1, <2>2, SeedAsideLemma
<1>3. QED
  BY <1>1, <1>2, RunInvariant, PTL DEF HostSpec

\* For any number of runs in any directories, at any speed: the temporary ref
\* is there only while a run that will delete it is under way, or after one
\* was cut short, and in that case until the next run has named a stash.
THEOREM StashRefIsTransient == HostSpec => []StashRefTransient
<1>1. SeedInv => StashRefTransient
  BY DEF SeedInv, StashRefTransient
<1>2. QED
  BY <1>1, SeedInvariant, PTL

\* And no run takes an earlier run's changes into its box, unless that run was
\* cut short; in the dirty bundle never.
THEOREM SeedStaysFresh == HostSpec => []SeedIsFresh
<1>1. SeedInv => SeedIsFresh
  BY DEF SeedInv
<1>2. QED
  BY <1>1, SeedInvariant, PTL

-----------------------------------------------------------------------------
(* The broker's session.                                                   *)

AfterPoll == {"run", "json", "cleanup", "done", "cut"} \cup Writing

\* A run that will still stop its daemon and remove its socket, or was cut
\* short.
Minds(r) ==
  \/ at[r] \in {"poll", "wait", "cut"}
  \/ cleanup[r] = "stop" /\ at[r] # "done"

BrokerInv ==
  /\ BrokerType
  /\ \A r \in Runs : cleanup[r] = "stop" => at[r] \in AfterPoll
  /\ \A r \in Runs : daemon[r] \in Live => Minds(r)
  /\ \A b \in Boxes : sock[b] # Nobody => Box[sock[b]] = b /\ Minds(sock[b])
  /\ \A r \in Runs : at[r] = "start" => mount[r] = Nobody
  /\ MountedBrokerIsOwn

\* Outside BrokerStep, RunBox and Cleanup a run passes by where it starts its
\* daemon, and ends only if it has none to mind.
BrokerAside ==
  /\ UNCHANGED brokerVars
  /\ \A r \in Runs : at'[r] # at[r] => at'[r] # "start"
  /\ \A r \in Runs : at[r] \in {"poll", "wait", "cut"} /\ at'[r] # at[r] => at'[r] = "cut"
  /\ \A r \in Runs : at[r] \in AfterPoll => at'[r] \in AfterPoll
  /\ \A r \in Runs : at'[r] = "done" => at[r] \in {"start", "done"}

LEMMA BrokerAsideLemma ==
  ASSUME RunType, [HostNext]_hostVars
  PROVE  BrokerAside \/ \E r \in Runs : BrokerStep(r) \/ RunBox(r) \/ Cleanup(r)
<1> USE DEF RunType, BrokerAside, AfterPoll, Writing, Step, Move, Over
<1>1. ASSUME NEW r \in Runs, PackStep(r) PROVE BrokerAside
  BY <1>1 DEF PackStep, FindPack, HashPack
<1>2. ASSUME NEW r \in Runs, SeedStep(r) PROVE BrokerAside
  BY <1>2 DEF SeedStep, Bundle, StashCreate, NameStash, BundleStash, UnnameStash,
              Untracked, SeedFails
<1>3. ASSUME NEW r \in Runs, Refuse(r) PROVE BrokerAside
  BY <1>3 DEF Refuse
<1>4. ASSUME NEW r \in Runs, FileStep(r) PROVE BrokerAside
  BY <1>4 DEF FileStep, OpenJson, WriteJson, Sign, OpenEnvelope, WriteEnvelope,
              NoReceipt, WriteFails
<1>5. ASSUME NEW r \in Runs, Interrupt(r) \/ CutShort(r) PROVE BrokerAside
  BY <1>5 DEF Interrupt, CutShort, Abandon
<1>6. ASSUME NEW r \in Runs, KeyStep(r) PROVE BrokerAside
  BY <1>6 DEF KeyStep
<1>7. ASSUME NEW v \in Verifiers, VerifyStep(v) PROVE BrokerAside
  BY <1>7 DEF VerifyStep
<1>8. ASSUME Edit \/ AllOver \/ UNCHANGED hostVars PROVE BrokerAside
  BY <1>8 DEF Edit, EditPack, AllOver, hostVars
<1>9. QED
  BY <1>1, <1>2, <1>3, <1>4, <1>5, <1>6, <1>7, <1>8 DEF HostNext

LEMMA BrokerInvariant == HostSpec => []BrokerInv
<1>1. HostInit => BrokerInv
  <2> SUFFICES ASSUME HostInit PROVE BrokerInv
    OBVIOUS
  <2>1. BrokerInit
    BY DEF HostInit, HostInitFrom
  <2>2. BrokerType /\ \A b \in Boxes : sock[b] = Nobody
    BY <2>1 DEF BrokerInit, BrokerType
  <2>3. \A r \in Runs :
          daemon[r] = "none" /\ cleanup[r] = "none" /\ mount[r] = Nobody
    BY <2>1 DEF BrokerInit
  <2>4. QED
    BY <2>2, <2>3 DEF BrokerInv, Live, MountedBrokerIsOwn
<1>2. RunInv /\ RunInv' /\ BrokerInv /\ [HostNext]_hostVars => BrokerInv'
  <2> SUFFICES ASSUME RunInv, RunInv', BrokerInv, [HostNext]_hostVars PROVE BrokerInv'
    OBVIOUS
  <2> USE HostRunsAssumption
      DEF BrokerInv, BrokerType, MountedBrokerIsOwn, RunInv, RunType, Over, Minds,
          AfterPoll, Writing
  <2>1. CASE BrokerAside
    <3>1. \A r \in Runs : at[r] # "start" => before'[r] = before[r]
      BY Control DEF Stays, Moves, Starts
    <3>2. \A r \in Runs : Minds(r) => Minds(r)'
      BY <2>1 DEF BrokerAside, brokerVars
    <3>3. MountedBrokerIsOwn'
      BY <2>1, <3>1 DEF BrokerAside, brokerVars, Namesakes
    <3>4. QED
      BY <2>1, <3>2, <3>3 DEF BrokerAside, brokerVars
  <2>2. ASSUME NEW r \in Runs, RunBox(r) PROVE BrokerInv'
    BY <2>2 DEF RunBox, MountSocket, Step, Move, brokerVars, Boxes, Namesakes
  <2>3. ASSUME NEW r \in Runs, Cleanup(r) PROVE BrokerInv'
    BY <2>3 DEF Cleanup, CleanupBroker, RemoveDir, Step, Move, Boxes, Live
  <2>4. ASSUME NEW r \in Runs, BrokerStep(r) PROVE BrokerInv'
    <3> USE DEF Step, Move, Boxes, Live, RemoveDir, Daemon
    <3>1. CASE NoBroker(r) \/ SocketDir(r) \/ PollAgain(r)
      BY <3>1 DEF NoBroker, SocketDir, PollAgain, brokerVars
    <3>2. CASE Spawn(r)
      BY <3>2 DEF Spawn
    <3>3. CASE Poll(r)
      BY <3>3 DEF Poll
    <3>4. CASE GiveUp(r)
      BY <3>4 DEF GiveUp
    <3>5. CASE Configure(r) \/ ClearStale(r) \/ DaemonDies(r) \/ ServeEnds(r)
      BY <3>5 DEF Configure, ClearStale, DaemonDies, ServeEnds
    <3>6. CASE Listen(r)
      <4>1. Minds(r) /\ daemon[r] = "listen" /\ UNCHANGED <<at, before, cleanup, mount>>
        BY <3>6 DEF Listen
      <4>2. CASE sock' = [sock EXCEPT ![Box[r]] = r] /\ daemon' = [daemon EXCEPT ![r] = "serving"]
        BY <4>1, <4>2
      <4>3. CASE sock' = sock /\ daemon' = [daemon EXCEPT ![r] = "dead"]
        BY <4>1, <4>3
      <4>4. QED
        BY <3>6, <4>2, <4>3 DEF Listen
    <3>7. QED
      BY <2>4, <3>1, <3>2, <3>3, <3>4, <3>5, <3>6 DEF BrokerStep
  <2>5. QED
    BY <2>1, <2>2, <2>3, <2>4, BrokerAsideLemma
<1>3. QED
  BY <1>1, <1>2, RunInvariant, PTL DEF HostSpec

\* For any number of runs under any names: a daemon that lives and a socket
\* that is there belong to a run that has not ended or was cut short.
THEOREM NoBrokerLeftBehind == HostSpec => []NoStrayBroker
<1>1. BrokerInv => NoStrayBroker
  BY HostRunsAssumption DEF BrokerInv, BrokerType, NoStrayBroker, Minds, Boxes
<1>2. QED
  BY <1>1, BrokerInvariant, PTL

\* And no box is given the socket of a run that had ended in order.
THEOREM MountedBrokerIsTheRuns == HostSpec => []MountedBrokerIsOwn
<1>1. BrokerInv => MountedBrokerIsOwn
  BY DEF BrokerInv
<1>2. QED
  BY <1>1, BrokerInvariant, PTL

-----------------------------------------------------------------------------
(* The receipt's two files.                                                *)

FileType ==
  /\ json \in [Boxes -> SUBSET Runs]
  /\ envelope \in [Boxes -> SUBSET Runs]
  /\ flawed \in [Boxes -> BOOLEAN]

\* What is in the files of b while r, alone, is writing them.
Progress(r, b) ==
  /\ at[r] = "jsonData" => json[b] = {}
  /\ at[r] \in {"sign", "envelope", "envelopeData"} => json[b] = {r}
  /\ at[r] = "envelopeData" => envelope[b] = {}

Settled(b) ==
  /\ json[b] = envelope[b]
  /\ json[b] = {} \/ \E r \in Runs : json[b] = {r}

FileOK(b) ==
  ~flawed[b] =>
    /\ \A r, s \in Writers(b) : r = s
    /\ \A r \in Writers(b) : Progress(r, b)
    /\ Writers(b) = {} => Settled(b)

FileInv == FileType /\ \A b \in Boxes : FileOK(b)

\* Only r moves, and no files but its own change.
FileMove(r) ==
  /\ at' = [at EXCEPT ![r] = at'[r]]
  /\ \A b \in Boxes \ {Box[r]} :
       json'[b] = json[b] /\ envelope'[b] = envelope[b] /\ flawed'[b] = flawed[b]
  /\ FileType'

LEMMA FileElsewhere ==
  ASSUME RunType, FileInv, NEW r \in Runs, FileMove(r), FileOK(Box[r])'
  PROVE  FileInv'
<1>1. ASSUME NEW b \in Boxes, b # Box[r] PROVE FileOK(b)'
  <2>1. \A s \in Runs : s # r => at'[s] = at[s]
    BY DEF FileMove, RunType
  <2>2. \A s \in Runs : (s \in Writers(b)' <=> s \in Writers(b)) /\ (s \in Writers(b) => at'[s] = at[s])
    BY <1>1, <2>1 DEF Writers
  <2>3. Writers(b)' = Writers(b) /\ \A s \in Writers(b) : at'[s] = at[s]
    BY <2>2 DEF Writers
  <2>4. FileOK(b)
    BY DEF FileInv
  <2>5. json'[b] = json[b] /\ envelope'[b] = envelope[b] /\ flawed'[b] = flawed[b]
    BY <1>1 DEF FileMove
  <2>6. QED
    BY <2>3, <2>4, <2>5 DEF FileOK, Progress, Settled
<1>2. QED
  BY <1>1 DEF FileInv, FileMove

\* Outside FileStep and the end of a run in the middle of its receipt nobody
\* begins or ends to write.
FileAside ==
  /\ UNCHANGED fileVars
  /\ \A r \in Runs : at[r] \in Writing \/ at'[r] \in Writing => at'[r] = at[r]

LEMMA FileAsideLemma ==
  ASSUME RunType, [HostNext]_hostVars
  PROVE  FileAside \/ \E r \in Runs : FileStep(r) \/ Interrupt(r) \/ CutShort(r)
<1> USE DEF RunType, FileAside, Writing, Step, Move, fileVars
<1>1. ASSUME NEW r \in Runs, PackStep(r) PROVE FileAside
  BY <1>1 DEF PackStep, FindPack, HashPack
<1>2. ASSUME NEW r \in Runs, SeedStep(r) PROVE FileAside
  BY <1>2 DEF SeedStep, Bundle, StashCreate, NameStash, BundleStash, UnnameStash,
              Untracked, SeedFails
<1>3. ASSUME NEW r \in Runs, BrokerStep(r) PROVE FileAside
  BY <1>3 DEF BrokerStep, NoBroker, SocketDir, Spawn, Poll, PollAgain, GiveUp,
              Configure, ClearStale, Listen, DaemonDies, ServeEnds, Daemon
<1>4. ASSUME NEW r \in Runs, RunBox(r) \/ Refuse(r) \/ Cleanup(r) PROVE FileAside
  BY <1>4 DEF RunBox, Refuse, Cleanup
<1>5. ASSUME NEW r \in Runs, KeyStep(r) PROVE FileAside
  BY <1>5 DEF KeyStep
<1>6. ASSUME NEW v \in Verifiers, VerifyStep(v) PROVE FileAside
  BY <1>6 DEF VerifyStep
<1>7. ASSUME Edit \/ AllOver \/ UNCHANGED hostVars PROVE FileAside
  BY <1>7 DEF Edit, EditPack, AllOver, hostVars
<1>8. QED
  BY <1>1, <1>2, <1>3, <1>4, <1>5, <1>6, <1>7 DEF HostNext

LEMMA FileInvariant == HostSpec => []FileInv
<1>1. HostInit => FileInv
  BY DEF HostInit, HostInitFrom, FilesInit, FileInv, FileType, FileOK, Writers, Writing, Settled
<1>2. RunInv /\ FileInv /\ [HostNext]_hostVars => FileInv'
  <2> SUFFICES ASSUME RunInv, FileInv, [HostNext]_hostVars PROVE FileInv'
    OBVIOUS
  <2> USE DEF RunInv, RunType, FileInv, FileType, Progress, Settled, Writers
  <2>1. CASE FileAside
    BY <2>1 DEF FileAside, fileVars, FileOK
  <2>2. ASSUME NEW r \in Runs, FileStep(r) \/ Interrupt(r) \/ CutShort(r) PROVE FileInv'
    <3> DEFINE W == Writers(Box[r])
    <3>0. Box[r] \in Boxes /\ FileOK(Box[r])
      BY DEF Boxes
    <3> USE DEF Step, Move
    <3>1. CASE OpenJson(r)
      <4>1. FileMove(r) /\ flawed'[Box[r]] = (W # {}) /\ json'[Box[r]] = {}
        BY <3>0, <3>1 DEF OpenJson, Truncate, FileMove
      <4>2. at'[r] = "jsonData" /\ (W = {} => \A s \in W' : s = r)
        BY <3>1 DEF OpenJson
      <4>3. r \in W'
        BY <4>2 DEF Writing
      <4>4. ASSUME ~flawed'[Box[r]] PROVE \A s \in W' : s = r /\ Progress(s, Box[r])'
        BY <4>1, <4>2, <4>4
      <4>5. FileOK(Box[r])'
        BY <4>3, <4>4 DEF FileOK
      <4>6. QED
        BY <4>1, <4>5, FileElsewhere
    <3>2. CASE Sign(r)
      <4>1. FileMove(r) /\ json'[Box[r]] = json[Box[r]]
        BY <3>0, <3>2 DEF Sign, Flaw, FileMove
      <4>2. CASE flawed' = [flawed EXCEPT ![Box[r]] = TRUE]
        BY <3>0, <4>1, <4>2, FileElsewhere DEF FileOK
      <4>3. CASE flawed' = flawed /\ at' = [at EXCEPT ![r] = "envelope"]
        <5>1. W' = W /\ r \in W
          BY <3>2, <4>3 DEF Sign, Writing
        <5>2. ASSUME ~flawed'[Box[r]] PROVE \A s \in W' : s = r /\ Progress(s, Box[r])'
          BY <3>0, <3>2, <4>1, <4>3, <5>1, <5>2 DEF FileOK, Sign
        <5>3. FileOK(Box[r])'
          BY <5>1, <5>2 DEF FileOK
        <5>4. QED
          BY <4>1, <5>3, FileElsewhere
      <4>4. QED
        BY <3>2, <4>2, <4>3 DEF Sign, Flaw
    <3>3. CASE WriteJson(r)
      <4>1. W' = W /\ r \in W
        BY <3>3 DEF WriteJson, Writing
      <4>2. FileMove(r) /\ json'[Box[r]] \in {{r}, json[Box[r]] \cup {r}}
        BY <3>0, <3>3 DEF WriteJson, Overwrites, FileMove
      <4>3. at[r] = "jsonData" /\ at'[r] = "sign" /\ flawed' = flawed /\ envelope' = envelope
        BY <3>3 DEF WriteJson
      <4>4. QED
        BY <3>0, <4>1, <4>2, <4>3, FileElsewhere DEF FileOK
    <3>4. CASE OpenEnvelope(r)
      <4>1. W' = W /\ r \in W
        BY <3>4 DEF OpenEnvelope, Writing
      <4>2. FileMove(r) /\ envelope'[Box[r]] = {}
        BY <3>0, <3>4 DEF OpenEnvelope, Truncate, FileMove
      <4>3. at[r] = "envelope" /\ at'[r] = "envelopeData" /\ flawed' = flawed /\ json' = json
        BY <3>4 DEF OpenEnvelope
      <4>4. QED
        BY <3>0, <4>1, <4>2, <4>3, FileElsewhere DEF FileOK
    <3>5. CASE WriteEnvelope(r)
      <4>1. W' = W \ {r} /\ r \in W
        BY <3>5 DEF WriteEnvelope, Writing
      <4>2. FileMove(r) /\ envelope'[Box[r]] \in {{r}, envelope[Box[r]] \cup {r}}
        BY <3>0, <3>5 DEF WriteEnvelope, Overwrites, FileMove
      <4>3. at[r] = "envelopeData" /\ flawed' = flawed /\ json' = json
        BY <3>5 DEF WriteEnvelope
      <4>4. ASSUME ~flawed'[Box[r]] PROVE W' = {} /\ Settled(Box[r])'
        <5>1. W = {r} /\ Progress(r, Box[r])
          BY <3>0, <4>1, <4>3, <4>4 DEF FileOK
        <5>2. json'[Box[r]] = {r} /\ envelope'[Box[r]] = {r}
          BY <4>2, <4>3, <5>1
        <5>3. QED
          BY <4>1, <5>1, <5>2
      <4>5. FileOK(Box[r])'
        BY <4>4 DEF FileOK
      <4>6. QED
        BY <4>2, <4>5, FileElsewhere
    <3>6. CASE NoReceipt(r)
      BY <3>6 DEF NoReceipt, fileVars, FileOK, Writing
    <3>7. ASSUME FileMove(r), flawed'[Box[r]] PROVE FileInv'
      BY <3>7, FileElsewhere DEF FileOK
    <3>8. CASE WriteFails(r)
      BY <3>0, <3>7, <3>8 DEF WriteFails, Flaw, FileMove
    <3>9. CASE Interrupt(r) \/ CutShort(r)
      <4>1. CASE at[r] \in Writing
        BY <3>0, <3>7, <3>9, <4>1 DEF Interrupt, CutShort, Abandon, Flaw, FileMove
      <4>2. CASE at[r] \notin Writing
        <5>1. at'[r] \notin Writing /\ UNCHANGED <<json, envelope, flawed>>
          BY <3>9, <4>2 DEF Interrupt, CutShort, Abandon, Writing
        <5>2. FileMove(r) /\ W' = W /\ r \notin W
          BY <3>9, <4>2, <5>1 DEF FileMove, Interrupt, CutShort
        <5>3. \A s \in W : at'[s] = at[s]
          BY <5>2 DEF FileMove
        <5>4. QED
          BY <3>0, <5>1, <5>2, <5>3, FileElsewhere DEF FileOK
      <4>3. QED
        BY <4>1, <4>2
    <3>10. QED
      BY <2>2, <3>1, <3>2, <3>3, <3>4, <3>5, <3>6, <3>8, <3>9 DEF FileStep
  <2>3. QED
    BY <2>1, <2>2, FileAsideLemma
<1>3. QED
  BY <1>1, <1>2, RunInvariant, PTL DEF HostSpec

\* For any number of runs under any names: the receipt in clear and the signed
\* one are of one run, in full, unless writers met or one stopped half-way.
THEOREM ReceiptsAgree == HostSpec => []ReceiptPairAgrees
<1>1. FileInv => ReceiptPairAgrees
  <2> SUFFICES ASSUME FileInv, NEW b \in Boxes, Writers(b) = {}, ~flawed[b]
               PROVE  json[b] = envelope[b] /\ Cardinality(json[b]) <= 1
    BY DEF ReceiptPairAgrees
  <2>1. Settled(b)
    BY DEF FileInv, FileOK
  <2>2. Cardinality({}) = 0 /\ \A r \in Runs : Cardinality({r}) = 1
    BY FS_EmptySet, FS_Singleton
  <2>3. QED
    BY <2>1, <2>2 DEF Settled
<1>2. QED
  BY <1>1, FileInvariant, PTL
=============================================================================
