---------------------------- MODULE RunLifecycle ----------------------------
(***************************************************************************)
(* One `runclave .` from start to exit (cli.cmdHere), any number of them    *)
(* on the same box name, and `runclave destroy` beside them.               *)
(*                                                                         *)
(* A run has two threads: the main goroutine, which prepares the seed,     *)
(* starts the broker, provisions gateway and box, waits for the agent and  *)
(* tears down; and the goroutine that waits for SIGINT/SIGTERM, runs the   *)
(* registered cleanups and calls os.Exit(130).  They meet in two           *)
(* sync.Once: cleanupOnce around the list of cleanups, boxTornDown around  *)
(* the three commands of Plan.Destroy.                                     *)
(***************************************************************************)
EXTENDS Docker, Naturals, Sequences

CONSTANTS Options,      \* the flags a run may be started with
          Signalled,    \* the runs that may receive SIGINT or SIGTERM
          WithDestroy,  \* whether `runclave destroy <name>` is run once
          Faulty        \* whether docker commands may fail by themselves

ASSUME OptionsAssumption ==
  /\ Options \subseteq [rm : BOOLEAN, dry : BOOLEAN, broker : BOOLEAN,
                        shell : BOOLEAN]
  /\ Signalled \subseteq Runs
  /\ WithDestroy \in BOOLEAN
  /\ Faulty \in BOOLEAN

Thread  == {"main", "handler"}
Cleanup == {"seed", "broker", "box"}
Disposition == {"none", "planned", "failed", "persisted", "destroyed",
                "destroyFailed"}
\* Exit status 0, 1, 130 (os.Exit in the handler), or death by a signal.
Exit == {"running", "ok", "error", "interrupted", "killed"}

\* sync.Once: the thread that calls the function first runs it, any other
\* caller blocks until it is done.
Once == [phase : {"free", "running", "done"}, by : Thread]
Fresh == [phase |-> "free", by |-> "main"]

VARIABLES
  opt,          \* flags of each run
  docker,       \* the engine's objects under the shared name
  mpc,          \* where the main goroutine is
  hpc,          \* where the signal goroutine is
  cleanups,     \* the registered cleanups, in order
  cleanupOnce,  \* the Once around running them
  ci,           \* how many of them are still to run (the loop's i + 1)
  snap,         \* how many there were when the loop started
  boxTornDown,  \* the Once around Plan.Destroy
  td,           \* the teardown command that is next
  terr,         \* Plan.Destroy has met an error
  seedDir,      \* the temporary seed directory exists
  daemon,       \* the broker daemon started by the run is alive
  disposition,  \* what the receipt is going to say
  receipt,      \* the disposition in the receipt the run has written, if any
  exit,         \* the process's exit status
  dpc, derr,    \* `runclave destroy`: next command, first error
  fault         \* some docker command failed by itself

runVars     == <<opt, mpc, hpc, disposition, receipt, exit>>
cleanVars   == <<cleanups, cleanupOnce, ci, snap>>
tearVars    == <<boxTornDown, td, terr>>
hostVars    == <<seedDir, daemon>>
destroyVars == <<dpc, derr>>
vars == <<opt, docker, mpc, hpc, cleanups, cleanupOnce, ci, snap, boxTornDown,
          td, terr, seedDir, daemon, disposition, receipt, exit, dpc, derr,
          fault>>

\* The steps of the plan, in the order BuildPlan puts them.
FirstStep == "createNet"
Provisioning == Creating \cup InBox
NextStep ==
  [s \in Provisioning |-> CASE s = "createNet"      -> "runGateway"
                            [] s = "runGateway"     -> "connectGateway"
                            [] s = "connectGateway" -> "runBox"
                            [] s = "runBox"         -> "seedBox"
                            [] s = "seedBox"        -> "execAgent"
                            [] s = "execAgent"      -> "executed"]

MainPC == {"mktemp", "notify", "registerSeed", "seed", "broker",
           "registerBroker", "plan", "registerBox", "verify", "mode",
           "executeFailed", "executed", "rm", "receipt", "return", "exited"}
          \cup Provisioning
HandlerPC == {"off", "waiting", "cleaning"}

\* Plan.DestroySteps: box, gateway, then the network they are attached to.
FirstRemoval == "rmBox"
\* Mutants: the network is left behind; the network goes before the gateway.
NextRemovalKeepsNet == [c \in Removing |-> CASE c = "rmBox" -> "rmGateway"
                                             [] OTHER       -> "end"]
NextRemovalNetFirst == [c \in Removing |-> CASE c = "rmBox"     -> "rmNet"
                                             [] c = "rmNet"     -> "rmGateway"
                                             [] c = "rmGateway" -> "end"]

NextRemoval == [c \in Removing |-> CASE c = "rmBox"     -> "rmGateway"
                                     [] c = "rmGateway" -> "rmNet"
                                     [] c = "rmNet"     -> "end"]

Init ==
  /\ opt \in [Runs -> Options]
  /\ docker = Empty
  /\ mpc = [r \in Runs |-> "mktemp"]
  /\ hpc = [r \in Runs |-> "off"]
  /\ cleanups = [r \in Runs |-> <<>>]
  /\ cleanupOnce = [r \in Runs |-> Fresh]
  /\ ci = [r \in Runs |-> 0]
  /\ snap = [r \in Runs |-> 0]
  /\ boxTornDown = [r \in Runs |-> Fresh]
  /\ td = [r \in Runs |-> FirstRemoval]
  /\ terr = [r \in Runs |-> FALSE]
  /\ seedDir = [r \in Runs |-> FALSE]
  /\ daemon = [r \in Runs |-> FALSE]
  /\ disposition = [r \in Runs |-> "none"]
  /\ receipt = [r \in Runs |-> "none"]
  /\ exit = [r \in Runs |-> "running"]
  /\ dpc = IF WithDestroy THEN FirstRemoval ELSE "end"
  /\ derr = FALSE
  /\ fault = FALSE

At(r, pc) == exit[r] = "running" /\ mpc[r] = pc
Goto(r, pc) == mpc' = [mpc EXCEPT ![r] = pc]

-----------------------------------------------------------------------------
(* The main goroutine up to the point where docker is first called.        *)

\* os.MkdirTemp; a failure returns before anything is deferred.
MakeSeedDir(r) ==
  /\ At(r, "mktemp")
  /\ \/ /\ Goto(r, "notify")
        /\ seedDir' = [seedDir EXCEPT ![r] = TRUE]
        /\ UNCHANGED exit
     \/ /\ Goto(r, "exited")
        /\ exit' = [exit EXCEPT ![r] = "error"]
        /\ UNCHANGED seedDir
  /\ UNCHANGED <<opt, hpc, disposition, receipt, daemon, docker, fault,
                 cleanVars, tearVars, destroyVars>>

\* signal.Notify and the goroutine that waits for it.
Notify(r) ==
  /\ At(r, "notify")
  /\ hpc' = [hpc EXCEPT ![r] = "waiting"]
  /\ Goto(r, "registerSeed")
  /\ UNCHANGED <<opt, disposition, receipt, exit, docker, fault, hostVars,
                 cleanVars, tearVars, destroyVars>>

\* cleanups = append(cleanups, ...)
Register(r, pc, cleanup, next) ==
  /\ At(r, pc)
  /\ cleanups' = [cleanups EXCEPT ![r] = Append(@, cleanup)]
  /\ Goto(r, next)
  /\ UNCHANGED <<opt, hpc, disposition, receipt, exit, docker, fault, hostVars,
                 cleanupOnce, ci, snap, tearVars, destroyVars>>

RegisterSeed(r)   == Register(r, "registerSeed", "seed", "seed")
RegisterBroker(r) == Register(r, "registerBroker", "broker", "plan")

\* A step of main that only chooses where to go on: it may fail and return.
Branch(r, pc, targets) ==
  /\ At(r, pc)
  /\ \E next \in targets : Goto(r, next)
  /\ UNCHANGED <<opt, hpc, disposition, receipt, exit, docker, fault, hostVars,
                 cleanVars, tearVars, destroyVars>>

\* CreateSeedArtifacts and buildLoginMounts; without a configured GitHub App
\* main goes straight on to box.BuildPlan.
CreateSeed(r) == Branch(r, "seed",
  {"return", IF opt[r].broker THEN "broker" ELSE "plan"})
BuildPlan(r)  == Branch(r, "plan", {"return", "registerBox"})
VerifyPlan(r) == Branch(r, "verify", {"return", "mode"})

\* Mutant: the teardown is registered without --rm too.
RegisterBoxAlways(r) == Register(r, "registerBox", "box", "verify")

\* Only --rm makes an interrupt, or any return, tear the box down.
RegisterBox(r) ==
  IF opt[r].rm THEN Register(r, "registerBox", "box", "verify")
  ELSE Branch(r, "registerBox", {"verify"})

\* The session's directory and daemon.  A dry run only makes the directory;
\* if anything fails the run goes on without a broker and registers nothing.
StartBroker(r) ==
  /\ At(r, "broker")
  /\ \/ /\ daemon' = [daemon EXCEPT ![r] = ~opt[r].dry]
        /\ Goto(r, "registerBroker")
     \/ /\ UNCHANGED daemon
        /\ Goto(r, "plan")
  /\ UNCHANGED <<opt, hpc, disposition, receipt, exit, docker, fault, seedDir,
                 cleanVars, tearVars, destroyVars>>

Decide(r, d, next) ==
  /\ disposition' = [disposition EXCEPT ![r] = d]
  /\ Goto(r, next)

\* --dry-run, or no docker daemon to talk to: print the plan and return.
PrintPlan(r) ==
  /\ At(r, "mode")
  /\ Decide(r, "planned", "receipt")
  /\ UNCHANGED <<opt, hpc, receipt, exit, docker, fault, hostVars, cleanVars,
                 tearVars, destroyVars>>

StartExecute(r) ==
  /\ ~opt[r].dry
  /\ Branch(r, "mode", {FirstStep})

-----------------------------------------------------------------------------
(* Plan.Execute: the provisioning commands one after another, the agent    *)
(* last; the first error ends it.                                          *)

\* RunInteractive: a shell's exit status is no error, and neither is docker's
\* own when it cannot attach; only a docker that does not start is.
AfterError(r) ==
  IF mpc[r] = "execAgent" /\ opt[r].shell THEN "executed" ELSE "executeFailed"

Provision(r) ==
  /\ exit[r] = "running"
  /\ mpc[r] \in Provisioning
  /\ \/ /\ Succeeds(mpc[r], r, docker, docker')
        /\ Goto(r, NextStep[mpc[r]])
        /\ UNCHANGED fault
     \/ /\ Refused(mpc[r], docker, docker')
        /\ Goto(r, AfterError(r))
        /\ UNCHANGED fault
     \/ /\ mpc[r] = "execAgent"   \* the agent itself exits with an error
        /\ Goto(r, AfterError(r))
        /\ UNCHANGED <<docker, fault>>
     \/ /\ Faulty
        /\ Faults(mpc[r], r, docker, docker')
        /\ \E next \in {AfterError(r), "executeFailed"} : Goto(r, next)
        /\ fault' = TRUE
  /\ UNCHANGED <<opt, hpc, disposition, receipt, exit, hostVars, cleanVars,
                 tearVars, destroyVars>>

\* Without --rm the box stays; with it teardownBox decides what the receipt
\* says.
AfterExecute(r) ==
  /\ At(r, "executed")
  /\ IF opt[r].rm
     THEN Goto(r, "rm") /\ UNCHANGED disposition
     ELSE Decide(r, "persisted", "receipt")
  /\ UNCHANGED <<opt, hpc, receipt, exit, docker, fault, hostVars, cleanVars,
                 tearVars, destroyVars>>

-----------------------------------------------------------------------------
(* runCleanups: the loop over the registered cleanups, inside cleanupOnce. *)

AtCleanups(r, t) ==
  /\ exit[r] = "running"
  /\ t = "main" => mpc[r] = "return"
  /\ t = "handler" => hpc[r] = "cleaning"

Cleaning(r, t) ==
  /\ AtCleanups(r, t)
  /\ cleanupOnce[r] = [phase |-> "running", by |-> t]

\* Mutant: the loop starts one cleanup too late.
StartCleanupsOffByOne(r, t) ==
  /\ AtCleanups(r, t)
  /\ cleanupOnce[r].phase = "free"
  /\ cleanupOnce' = [cleanupOnce EXCEPT ![r] = [phase |-> "running", by |-> t]]
  /\ ci' = [ci EXCEPT ![r] = Len(cleanups[r]) - 1]
  /\ snap' = [snap EXCEPT ![r] = Len(cleanups[r])]
  /\ UNCHANGED <<runVars, docker, fault, hostVars, cleanups, tearVars,
                 destroyVars>>

StartCleanups(r, t) ==
  /\ AtCleanups(r, t)
  /\ cleanupOnce[r].phase = "free"
  /\ cleanupOnce' = [cleanupOnce EXCEPT ![r] = [phase |-> "running", by |-> t]]
  /\ ci' = [ci EXCEPT ![r] = Len(cleanups[r])]
  /\ snap' = [snap EXCEPT ![r] = Len(cleanups[r])]
  /\ UNCHANGED <<runVars, docker, fault, hostVars, cleanups, tearVars,
                 destroyVars>>

\* The two cleanups that touch the host only.
CleanHost(r, t) ==
  /\ Cleaning(r, t)
  /\ ci[r] > 0
  /\ \/ /\ cleanups[r][ci[r]] = "seed"
        /\ seedDir' = [seedDir EXCEPT ![r] = FALSE]
        /\ UNCHANGED daemon
     \/ /\ cleanups[r][ci[r]] = "broker"
        /\ daemon' = [daemon EXCEPT ![r] = FALSE]
        /\ UNCHANGED seedDir
  /\ ci' = [ci EXCEPT ![r] = @ - 1]
  /\ UNCHANGED <<runVars, docker, fault, cleanups, cleanupOnce, snap, tearVars,
                 destroyVars>>

EndCleanups(r, t) ==
  /\ Cleaning(r, t)
  /\ ci[r] = 0
  /\ cleanupOnce' = [cleanupOnce EXCEPT ![r].phase = "done"]
  /\ UNCHANGED <<runVars, docker, fault, hostVars, cleanups, ci, snap,
                 tearVars, destroyVars>>

\* Past runCleanups: main returns its code, the handler calls os.Exit(130).
ExitCode(r) ==
  IF disposition[r] \in {"none", "failed"} THEN "error" ELSE "ok"

\* Mutant: the handler waits for main instead of calling os.Exit.
LeaveByMainOnly(r, t) ==
  /\ t = "main"
  /\ AtCleanups(r, t)
  /\ cleanupOnce[r].phase = "done"
  /\ exit' = [exit EXCEPT ![r] = ExitCode(r)]
  /\ Goto(r, "exited")
  /\ UNCHANGED <<opt, hpc, disposition, receipt, docker, fault, hostVars,
                 cleanVars, tearVars, destroyVars>>

Leave(r, t) ==
  /\ AtCleanups(r, t)
  /\ cleanupOnce[r].phase = "done"
  /\ exit' = [exit EXCEPT ![r] = IF t = "main" THEN ExitCode(r) ELSE "interrupted"]
  /\ IF t = "main" THEN Goto(r, "exited") ELSE UNCHANGED mpc
  /\ UNCHANGED <<opt, hpc, disposition, receipt, docker, fault, hostVars,
                 cleanVars, tearVars, destroyVars>>

-----------------------------------------------------------------------------
(* teardownBox: Plan.Destroy inside boxTornDown.  It is called by main     *)
(* after a failed or an --rm execution, and by the "box" cleanup.          *)

CallsTeardown(r, t) ==
  /\ exit[r] = "running"
  /\ \/ t = "main" /\ mpc[r] \in {"executeFailed", "rm"}
     \/ Cleaning(r, t) /\ ci[r] > 0 /\ cleanups[r][ci[r]] = "box"

\* What the caller does with teardownBox's result.  The cleanup drops it.
TeardownReturns(r, t, err) ==
  IF t = "main" /\ mpc[r] = "executeFailed"
  THEN Decide(r, "failed", "receipt") /\ UNCHANGED ci
  ELSE IF t = "main" /\ mpc[r] = "rm"
  THEN /\ Decide(r, IF err THEN "destroyFailed" ELSE "destroyed", "receipt")
       /\ UNCHANGED ci
  ELSE ci' = [ci EXCEPT ![r] = @ - 1] /\ UNCHANGED <<mpc, disposition>>

StartTeardown(r, t) ==
  /\ CallsTeardown(r, t)
  /\ boxTornDown[r].phase = "free"
  /\ boxTornDown' = [boxTornDown EXCEPT ![r] = [phase |-> "running", by |-> t]]
  /\ UNCHANGED <<runVars, docker, fault, hostVars, cleanVars, td, terr,
                 destroyVars>>

\* Mutant: a refused removal is not an error.
RemoveForgiving(r, t) ==
  /\ CallsTeardown(r, t)
  /\ boxTornDown[r] = [phase |-> "running", by |-> t]
  /\ td[r] # "end"
  /\ Succeeds(td[r], r, docker, docker') \/ Refused(td[r], docker, docker')
  /\ td' = [td EXCEPT ![r] = NextRemoval[@]]
  /\ UNCHANGED <<runVars, terr, fault, hostVars, cleanVars, boxTornDown,
                 destroyVars>>

\* Plan.Destroy runs every step and keeps the first error.
Remove(r, t) ==
  /\ CallsTeardown(r, t)
  /\ boxTornDown[r] = [phase |-> "running", by |-> t]
  /\ td[r] # "end"
  /\ \/ Succeeds(td[r], r, docker, docker') /\ UNCHANGED <<terr, fault>>
     \/ /\ Refused(td[r], docker, docker')
        /\ terr' = [terr EXCEPT ![r] = TRUE]
        /\ UNCHANGED fault
     \/ /\ Faulty
        /\ Faults(td[r], r, docker, docker')
        /\ terr' = [terr EXCEPT ![r] = TRUE]
        /\ fault' = TRUE
  /\ td' = [td EXCEPT ![r] = NextRemoval[@]]
  /\ UNCHANGED <<runVars, hostVars, cleanVars, boxTornDown, destroyVars>>

\* Mutant: the lock around the teardown is not released.
EndTeardownHoldsOnce(r, t) ==
  /\ CallsTeardown(r, t)
  /\ boxTornDown[r] = [phase |-> "running", by |-> t]
  /\ td[r] = "end"
  /\ TeardownReturns(r, t, terr[r])
  /\ UNCHANGED <<opt, hpc, receipt, exit, docker, fault, hostVars, cleanups,
                 cleanupOnce, snap, tearVars, destroyVars>>

EndTeardown(r, t) ==
  /\ CallsTeardown(r, t)
  /\ boxTornDown[r] = [phase |-> "running", by |-> t]
  /\ td[r] = "end"
  /\ boxTornDown' = [boxTornDown EXCEPT ![r].phase = "done"]
  /\ TeardownReturns(r, t, terr[r])
  /\ UNCHANGED <<opt, hpc, receipt, exit, docker, fault, hostVars, cleanups,
                 cleanupOnce, snap, td, terr, destroyVars>>

\* The Once has been used up: `var derr error` stays nil.
SkipTeardown(r, t) ==
  /\ CallsTeardown(r, t)
  /\ boxTornDown[r].phase = "done"
  /\ TeardownReturns(r, t, FALSE)
  /\ UNCHANGED <<opt, hpc, receipt, exit, docker, fault, hostVars, cleanups,
                 cleanupOnce, snap, tearVars, destroyVars>>

\* writeRunReceipt, then main returns.  Writing is best-effort: a directory or
\* a file that cannot be written leaves the run without a receipt.
WriteReceipt(r) ==
  /\ At(r, "receipt")
  /\ \E d \in {disposition[r], receipt[r]} : receipt' = [receipt EXCEPT ![r] = d]
  /\ Goto(r, "return")
  /\ UNCHANGED <<opt, hpc, disposition, exit, docker, fault, hostVars,
                 cleanVars, tearVars, destroyVars>>

-----------------------------------------------------------------------------
(* What happens to a run from outside.                                     *)

\* SIGINT or SIGTERM: fatal before signal.Notify, afterwards it wakes the
\* handler.  The channel holds one signal and is read once: a second signal
\* changes nothing.
Signal(r) ==
  /\ r \in Signalled
  /\ exit[r] = "running"
  /\ \/ hpc[r] = "off" /\ exit' = [exit EXCEPT ![r] = "killed"] /\ UNCHANGED hpc
     \/ /\ hpc[r] = "waiting"
        /\ hpc' = [hpc EXCEPT ![r] = "cleaning"]
        /\ UNCHANGED exit
  /\ UNCHANGED <<opt, mpc, disposition, receipt, docker, fault, hostVars,
                 cleanVars, tearVars, destroyVars>>

\* os.Exit does not wait for main: a docker command main was running is a
\* process of its own and may still take effect.
Straggler(r) ==
  /\ exit[r] = "interrupted"
  /\ \/ mpc[r] \in Provisioning /\ Succeeds(mpc[r], r, docker, docker')
     \/ /\ mpc[r] \in {"executeFailed", "rm"}
        /\ boxTornDown[r] = [phase |-> "running", by |-> "main"]
        /\ td[r] # "end"
        /\ Succeeds(td[r], r, docker, docker')
  /\ Goto(r, "exited")
  /\ UNCHANGED <<opt, hpc, disposition, receipt, exit, fault, hostVars,
                 cleanVars, tearVars, destroyVars>>

\* cmdDestroy: the same three commands, outside any run.
Destroy ==
  /\ dpc # "end"
  /\ \/ Succeeds(dpc, Nobody, docker, docker') /\ UNCHANGED <<derr, fault>>
     \/ Refused(dpc, docker, docker') /\ derr' = TRUE /\ UNCHANGED fault
     \/ /\ Faulty
        /\ Faults(dpc, Nobody, docker, docker')
        /\ derr' = TRUE
        /\ fault' = TRUE
  /\ dpc' = NextRemoval[dpc]
  /\ UNCHANGED <<runVars, hostVars, cleanVars, tearVars>>

Terminated ==
  /\ \A r \in Runs : exit[r] # "running"
  /\ dpc = "end"
  /\ UNCHANGED vars

-----------------------------------------------------------------------------
Main(r) ==
  \/ MakeSeedDir(r) \/ Notify(r) \/ RegisterSeed(r) \/ CreateSeed(r)
  \/ StartBroker(r) \/ RegisterBroker(r) \/ BuildPlan(r) \/ RegisterBox(r)
  \/ VerifyPlan(r) \/ PrintPlan(r) \/ StartExecute(r) \/ Provision(r)
  \/ AfterExecute(r) \/ WriteReceipt(r)

RunCleanups(r, t) ==
  StartCleanups(r, t) \/ CleanHost(r, t) \/ EndCleanups(r, t) \/ Leave(r, t)

Teardown(r, t) ==
  StartTeardown(r, t) \/ Remove(r, t) \/ EndTeardown(r, t) \/ SkipTeardown(r, t)

RunStep(r) ==
  Main(r) \/ \E t \in Thread : RunCleanups(r, t) \/ Teardown(r, t)

Next ==
  \/ \E r \in Runs : RunStep(r) \/ Signal(r) \/ Straggler(r)
  \/ Destroy
  \/ Terminated

Spec == Init /\ [][Next]_vars

\* The Go scheduler runs every goroutine that can run and docker commands
\* come back, except the agent: it may run for ever.
MainProceeds(r) == mpc[r] # "execAgent" /\ Main(r)
Fairness ==
  \A r \in Runs :
    /\ WF_vars(MainProceeds(r))
    /\ \A t \in Thread : WF_vars(RunCleanups(r, t) \/ Teardown(r, t))
FairSpec == Spec /\ Fairness

-----------------------------------------------------------------------------
(* Properties.                                                             *)

\* Types of the variables.
TypeOK ==
  /\ opt \in [Runs -> Options]
  /\ docker \in DockerState
  /\ mpc \in [Runs -> MainPC]
  /\ hpc \in [Runs -> HandlerPC]
  /\ cleanups \in [Runs -> Seq(Cleanup)]
  /\ cleanupOnce \in [Runs -> Once]
  /\ ci \in [Runs -> Nat]
  /\ snap \in [Runs -> Nat]
  /\ boxTornDown \in [Runs -> Once]
  /\ td \in [Runs -> Removing \cup {"end"}]
  /\ terr \in [Runs -> BOOLEAN]
  /\ seedDir \in [Runs -> BOOLEAN]
  /\ daemon \in [Runs -> BOOLEAN]
  /\ disposition \in [Runs -> Disposition]
  /\ receipt \in [Runs -> Disposition]
  /\ exit \in [Runs -> Exit]
  /\ dpc \in Removing \cup {"end"}
  /\ derr \in BOOLEAN
  /\ fault \in BOOLEAN

Owns(r) == r \in {docker.net, docker.gw, docker.box}

\* No other run has begun and `runclave destroy` has not been started.
Alone(r) ==
  /\ \A o \in Runs \ {r} : mpc[o] = "mktemp"
  /\ dpc = IF WithDestroy THEN FirstRemoval ELSE "end"

\* A receipt that says "destroyed" is true whatever other runs, signals or
\* docker faults do, as long as it was main and not the signal handler that
\* ran the teardown: nothing the run created is left.
DestroyedReceiptHonest ==
  \A r \in Runs :
    receipt[r] = "destroyed" /\ boxTornDown[r].by = "main" => ~Owns(r)

\* The comment on the disposition, without that condition: "the (signed)
\* receipt must not claim destroyed" when the teardown did not complete.
DestroyedReceiptTrue == \A r \in Runs : receipt[r] = "destroyed" => ~Owns(r)

\* A teardown or a `runclave destroy` that reports no error leaves nothing
\* under the name at the moment it ends, however many runs are provisioning
\* beside it: the network can only go when no container is attached.
CleanTeardownLeavesNothing ==
  [][/\ \A r \in Runs : td[r] # "end" /\ td'[r] = "end" /\ ~terr'[r]
                         => docker' = Empty
     /\ dpc # "end" /\ dpc' = "end" /\ ~derr' => docker' = Empty]_vars

\* When Plan.Execute was begun and no docker fault, other run or signal that
\* takes the teardown over interferes, Plan.Destroy meets no error and removes
\* everything: its order is right.
TeardownCompletes ==
  \A r \in Runs :
    /\ Alone(r)
    /\ ~fault
    /\ disposition[r] \in {"failed", "destroyed", "destroyFailed"}
    /\ boxTornDown[r] = [phase |-> "done", by |-> "main"]
    => ~terr[r] /\ docker = Empty

\* A receipt that says "persisted" is true while nobody else works on the
\* name, signals included: gateway, its second leg, network and box are there
\* and are the run's own.
PersistedReceiptHonest ==
  \A r \in Runs :
    Alone(r) /\ receipt[r] = "persisted" => docker = Whole(r)

\* Every exit but a kill has run each cleanup that was registered when the
\* loop began, and an exit without a signal leaves nothing on the host.
CleanupsHonoured ==
  \A r \in Runs :
    exit[r] \in {"ok", "error", "interrupted"} =>
      LET ran == {cleanups[r][i] : i \in 1..snap[r]}
      IN /\ "seed" \in ran \/ hpc[r] # "cleaning" => ~seedDir[r]
         /\ "broker" \in ran \/ hpc[r] # "cleaning" => ~daemon[r]
         /\ "box" \in ran => boxTornDown[r].phase = "done"

\* README: a dry run prints the sequence "without touching Docker".
DryRunLeavesDockerAlone ==
  [][\A r \in Runs :
       opt[r].dry /\ (mpc'[r] # mpc[r] \/ td'[r] # td[r]) => UNCHANGED docker]_vars

\* "The detached box is intentionally persistent": only `runclave destroy`
\* removes a box whose run has ended with the receipt "persisted".
PersistedBoxSurvives ==
  [][\A r \in Runs :
       receipt[r] = "persisted" /\ docker.box = r /\ dpc' = dpc
       => docker'.box = r]_vars

\* A signal that arrives after signal.Notify ends the process, whatever main
\* is doing and even if the agent never ends: the two Onces do not deadlock.
SignalEndsRun ==
  \A r \in Runs : hpc[r] = "cleaning" ~> exit[r] # "running"

\* Once Plan.Execute is over the run comes to its end.
RunEnds ==
  \A r \in Runs :
    mpc[r] \in {"executeFailed", "executed"} ~> exit[r] # "running"
=============================================================================
