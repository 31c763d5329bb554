------------------------------ MODULE HostSide ------------------------------
(***************************************************************************)
(* The host side of cmdHere as a whole: pack, seed, broker session, box,   *)
(* receipt with the machine's key, cleanup.  The parts meet in the control *)
(* flow of a run, and the runs in what the parts share: the pack file, the *)
(* temporary ref, the socket directory, the receipt files and the key.     *)
(*                                                                         *)
(* The box itself is module RunLifecycle.  Here it is one step that may    *)
(* fail, and it may succeed for two runs of one name although docker       *)
(* refuses the second: there are only more behaviours than in the program. *)
(***************************************************************************)
EXTENDS PackFile, Seed, BrokerSession, ReceiptFiles

ASSUME HostAssumption == Procs = Runs

keyVars == <<pc, keyFile, tmp, held, verdict, fault>>
hostVars == <<use, at, before, packVars, seedVars, brokerVars, fileVars, keyVars>>

\* `first` is where the runs are, `given` what they have.
HostInitFrom(first, given) ==
  /\ at = first /\ use = given
  /\ before = [r \in Runs |-> {}]
  /\ PackInit /\ SeedInit /\ BrokerInit /\ FilesInit /\ Init

HostInit ==
  \E given \in [Runs -> SUBSET Uses] : HostInitFrom([r \in Runs |-> "start"], given)

PackStep(r) ==
  /\ FindPack(r) \/ HashPack(r)
  /\ UNCHANGED <<seedVars, brokerVars, fileVars, keyVars>>

Edit == EditPack /\ UNCHANGED <<seedVars, brokerVars, fileVars, keyVars>>

SeedStep(r) ==
  /\ \/ Bundle(r) \/ StashCreate(r) \/ NameStash(r) \/ BundleStash(r)
     \/ UnnameStash(r) \/ Untracked(r)
     \/ Faulty /\ SeedFails(r)
  /\ UNCHANGED <<packVars, brokerVars, fileVars, keyVars>>

BrokerStep(r) ==
  /\ \/ NoBroker(r) \/ SocketDir(r) \/ Spawn(r) \/ Poll(r) \/ PollAgain(r) \/ GiveUp(r)
     \/ Configure(r) \/ ClearStale(r) \/ Listen(r)
     \/ Faulty /\ (DaemonDies(r) \/ ServeEnds(r))
  /\ UNCHANGED <<packVars, seedVars, fileVars, keyVars>>

\* The box is made and the agent runs in it; or the run is a dry one, or
\* docker fails.  Each of them writes a receipt.
RunBox(r) ==
  /\ Step(r, "run", "json")
  /\ MountSocket(r) \/ UNCHANGED brokerVars
  /\ DropSeed(r)
  /\ UNCHANGED <<packVars, fileVars, keyVars>>

\* BuildPlan or the guard refuses: no receipt.
Refuse(r) ==
  /\ Step(r, "run", "cleanup")
  /\ UNCHANGED <<packVars, seedVars, brokerVars, fileVars, keyVars>>

FileStep(r) ==
  /\ \/ OpenJson(r) \/ WriteJson(r) \/ Sign(r) \/ OpenEnvelope(r) \/ WriteEnvelope(r)
     \/ NoReceipt(r)
     \/ Faulty /\ WriteFails(r)
  /\ UNCHANGED <<packVars, seedVars, brokerVars, keyVars>>

\* receiptSigningKey, step by step.
KeyStep(r) ==
  /\ at[r] = "sign"
  /\ Load(r) \/ CreateTemp(r) \/ WriteTemp(r) \/ Link(r) \/ Reload(r) \/ RemoveTemp(r)
     \/ Fail(r)
  /\ UNCHANGED <<use, at, before, packVars, seedVars, brokerVars, fileVars>>

\* The deferred runCleanups, last registered first.
Cleanup(r) ==
  /\ Step(r, "cleanup", "done")
  /\ CleanupBroker(r) /\ DropSeed(r)
  /\ UNCHANGED <<packVars, fileVars, keyVars>>

\* A run that stops in the middle of its receipt leaves the files and the
\* key's temporary file as they are.
Abandon(r) ==
  /\ IF at[r] \in Writing THEN Flaw(r) ELSE UNCHANGED flawed
  /\ IF at[r] = "sign" /\ pc[r] # "done" THEN Kill(r) ELSE UNCHANGED keyVars
  /\ UNCHANGED <<packVars, seedVars, brokerVars, json, envelope>>

\* SIGINT or SIGTERM where all there is to undo is registered: the handler
\* runs the cleanups.  The main goroutine goes on until the handler's os.Exit;
\* what it may still do meanwhile is left out here: RunLifecycle has it.
Interrupt(r) ==
  /\ \E s \in {"bundle", "stash", "name", "untracked", "sockdir", "run", "json"} \cup Writing :
       Step(r, s, "cleanup")
  /\ Abandon(r)

\* SIGKILL anywhere; or a signal before the handler is there, while the
\* stash has its name, or while the daemon is coming up: what the run has
\* made so far stays.
CutShort(r) ==
  /\ Faulty
  /\ ~Over(r) /\ Step(r, at[r], "cut")
  /\ Abandon(r)

VerifyStep(v) ==
  /\ VerifyReceipt(v)
  /\ UNCHANGED <<use, at, before, packVars, seedVars, brokerVars, fileVars>>

AllOver == (\A r \in Runs : Over(r)) /\ UNCHANGED hostVars

HostNext ==
  \/ \E r \in Runs :
       \/ PackStep(r) \/ SeedStep(r) \/ BrokerStep(r) \/ RunBox(r) \/ Refuse(r)
       \/ FileStep(r) \/ KeyStep(r) \/ Cleanup(r) \/ Interrupt(r) \/ CutShort(r)
  \/ Edit
  \/ \E v \in Verifiers : VerifyStep(v)
  \/ AllOver

HostSpec == HostInit /\ [][HostNext]_hostVars
=============================================================================
