------------------------- MODULE RunLifecycleProofs -------------------------
(***************************************************************************)
(* For any number of runs on one box name, any flags, any signals and any  *)
(* docker faults: type correctness; the honesty of a receipt that says     *)
(* "destroyed"; what a teardown without an error leaves; that every exit   *)
(* but a kill honours the registered cleanups; while a run is alone on the *)
(* name, the honesty of "persisted" and the order of the removals; which   *)
(* runs leave the engine alone; and that the two Onces do not deadlock.    *)
(***************************************************************************)
EXTENDS RunLifecycle, TLAPS

-----------------------------------------------------------------------------
(* The engine.                                                             *)

\* No command takes the engine's objects out of their types.
LEMMA EffectType ==
  ASSUME NEW cmd \in Command, NEW o \in Owner, NEW d \in DockerState
  PROVE  Effect(cmd, o, d) \in DockerState
<1>1. Nobody \in Owner
  BY DEF Owner
<1>2. CASE cmd \in Creating
  BY <1>1, <1>2 DEF Creating, Effect, DockerState, InBox, Removing
<1>3. CASE cmd \in InBox
  BY <1>3 DEF Creating, Effect, DockerState, InBox, Removing
<1>4. CASE cmd \in Removing
  BY <1>1, <1>4 DEF Creating, Effect, DockerState, InBox, Removing
<1>5. QED
  BY <1>2, <1>3, <1>4 DEF Command

\* Nor does any way a command can end.
LEMMA OutcomeType ==
  ASSUME NEW cmd \in Command, NEW o \in Owner, NEW d \in DockerState, NEW e,
         Succeeds(cmd, o, d, e) \/ Refused(cmd, d, e) \/ Faults(cmd, o, d, e)
  PROVE  e \in DockerState
BY EffectType DEF Succeeds, Refused, Faults

LEMMA CommandTypes ==
  /\ Provisioning \subseteq Command
  /\ Removing \subseteq Command
  /\ Runs \subseteq Owner
  /\ Nobody \in Owner
BY DEF Provisioning, Command, Owner

\* The steps of the plan lead to the agent and then to the end of Execute.
LEMMA NextStepType ==
  /\ NextStep \in [Provisioning -> Provisioning \cup {"executed"}]
  /\ NextRemoval \in [Removing -> Removing \cup {"end"}]
BY DEF NextStep, NextRemoval, Provisioning, Creating, InBox, Removing

-----------------------------------------------------------------------------
(* Type correctness.                                                       *)

LEMMA TypeInit == Init => TypeOK
<1> SUFFICES ASSUME Init PROVE TypeOK
  OBVIOUS
<1>1. docker \in DockerState
  BY DEF Init, DockerState, Empty, Owner
<1>2. Fresh \in Once
  BY DEF Fresh, Once, Thread
<1>3. boxTornDown \in [Runs -> Once] /\ cleanupOnce \in [Runs -> Once]
  BY <1>2 DEF Init
<1>4. cleanups \in [Runs -> Seq(Cleanup)]
  BY DEF Init
<1>5. mpc \in [Runs -> MainPC] /\ hpc \in [Runs -> HandlerPC]
  BY DEF Init, MainPC, HandlerPC
<1>6. ci \in [Runs -> Nat] /\ snap \in [Runs -> Nat]
  BY DEF Init
<1>7. td \in [Runs -> Removing \cup {"end"}] /\ dpc \in Removing \cup {"end"}
  BY DEF Init, FirstRemoval, Removing
<1>8. /\ terr \in [Runs -> BOOLEAN] /\ seedDir \in [Runs -> BOOLEAN]
      /\ daemon \in [Runs -> BOOLEAN]
  BY DEF Init
<1>9. derr \in BOOLEAN /\ fault \in BOOLEAN
  BY DEF Init
<1>10. /\ disposition \in [Runs -> Disposition]
       /\ receipt \in [Runs -> Disposition]
       /\ exit \in [Runs -> Exit]
  BY DEF Init, Disposition, Exit
<1>11. QED
  BY <1>1, <1>3, <1>4, <1>5, <1>6, <1>7, <1>8, <1>9, <1>10 DEF Init, TypeOK

LEMMA TypeStep == TypeOK /\ [Next]_vars => TypeOK'
<1> SUFFICES ASSUME TypeOK, [Next]_vars PROVE TypeOK'
  OBVIOUS
<1> USE OptionsAssumption, CommandTypes
    DEF TypeOK, runVars, cleanVars, tearVars, hostVars, destroyVars, Goto, At
<1>1. ASSUME NEW r \in Runs, MakeSeedDir(r) PROVE TypeOK'
  BY <1>1 DEF MakeSeedDir, MainPC, Exit
<1>2. ASSUME NEW r \in Runs, Notify(r) PROVE TypeOK'
  BY <1>2 DEF Notify, MainPC, HandlerPC
<1>3. ASSUME NEW r \in Runs, NEW pc, NEW c \in Cleanup, NEW next \in MainPC,
             Register(r, pc, c, next)
      PROVE  TypeOK'
  BY <1>3 DEF Register
<1>4. ASSUME NEW r \in Runs, NEW pc, NEW targets \in SUBSET MainPC,
             Branch(r, pc, targets)
      PROVE  TypeOK'
  BY <1>4 DEF Branch
<1>5. ASSUME NEW r \in Runs,
             RegisterSeed(r) \/ RegisterBroker(r) \/ RegisterBox(r)
      PROVE  TypeOK'
  BY <1>3, <1>4, <1>5
     DEF RegisterSeed, RegisterBroker, RegisterBox, Cleanup, MainPC
<1>6. ASSUME NEW r \in Runs,
             CreateSeed(r) \/ BuildPlan(r) \/ VerifyPlan(r) \/ StartExecute(r)
      PROVE  TypeOK'
  BY <1>4, <1>6
     DEF CreateSeed, BuildPlan, VerifyPlan, StartExecute, MainPC, FirstStep,
         Provisioning, Creating
<1>7. ASSUME NEW r \in Runs, StartBroker(r) PROVE TypeOK'
  <2>1. (~opt[r].dry) \in BOOLEAN
    OBVIOUS
  <2>2. daemon' \in [Runs -> BOOLEAN]
    BY <1>7, <2>1 DEF StartBroker
  <2>3. mpc' \in [Runs -> MainPC]
    BY <1>7 DEF StartBroker, MainPC
  <2>4. QED
    BY <1>7, <2>2, <2>3 DEF StartBroker
<1>8. ASSUME NEW r \in Runs, PrintPlan(r) \/ AfterExecute(r) PROVE TypeOK'
  BY <1>8 DEF PrintPlan, AfterExecute, Decide, MainPC, Disposition
<1>9. ASSUME NEW r \in Runs, Provision(r) PROVE TypeOK'
  <2>1. docker' \in DockerState
    BY <1>9, OutcomeType DEF Provision
  <2>2. mpc' \in [Runs -> MainPC]
    <3>1. /\ NextStep[mpc[r]] \in MainPC
          /\ AfterError(r) \in MainPC /\ "executeFailed" \in MainPC
      BY <1>9, NextStepType DEF Provision, MainPC, AfterError
    <3>2. PICK pc \in MainPC : mpc' = [mpc EXCEPT ![r] = pc]
      BY <1>9, <3>1 DEF Provision
    <3>3. QED
      BY <3>2
  <2>3. fault' \in BOOLEAN
    BY <1>9 DEF Provision
  <2>4. QED
    BY <1>9, <2>1, <2>2, <2>3 DEF Provision
<1>10. ASSUME NEW r \in Runs, WriteReceipt(r) PROVE TypeOK'
  BY <1>10 DEF WriteReceipt, MainPC
<1>11. ASSUME NEW r \in Runs, NEW t \in Thread, RunCleanups(r, t) PROVE TypeOK'
  <2>1. CASE StartCleanups(r, t)
    <3>1. Len(cleanups[r]) \in Nat
      OBVIOUS
    <3>2. QED
      BY <2>1, <3>1 DEF StartCleanups, Once
  <2>2. CASE CleanHost(r, t)
    <3>1. ci' \in [Runs -> Nat]
      BY <2>2 DEF CleanHost
    <3>2. seedDir' \in [Runs -> BOOLEAN] /\ daemon' \in [Runs -> BOOLEAN]
      BY <2>2 DEF CleanHost
    <3>3. QED
      BY <2>2, <3>1, <3>2 DEF CleanHost
  <2>3. CASE EndCleanups(r, t)
    BY <2>3 DEF EndCleanups, Once
  <2>4. CASE Leave(r, t)
    BY <2>4 DEF Leave, ExitCode, MainPC, Exit
  <2>5. QED
    BY <1>11, <2>1, <2>2, <2>3, <2>4 DEF RunCleanups
<1>12. ASSUME NEW r \in Runs, NEW t \in Thread, NEW err \in BOOLEAN,
              CallsTeardown(r, t), TeardownReturns(r, t, err)
       PROVE  /\ mpc' \in [Runs -> MainPC]
              /\ disposition' \in [Runs -> Disposition]
              /\ ci' \in [Runs -> Nat]
  <2>1. CASE t = "main" /\ mpc[r] \in {"executeFailed", "rm"}
    <3>1. PICK d \in Disposition :
            /\ disposition' = [disposition EXCEPT ![r] = d]
            /\ mpc' = [mpc EXCEPT ![r] = "receipt"]
            /\ ci' = ci
      BY <1>12, <2>1 DEF TeardownReturns, Decide, Disposition
    <3>2. QED
      BY <3>1 DEF MainPC
  <2>2. CASE ~(t = "main" /\ mpc[r] \in {"executeFailed", "rm"})
    <3>1. ci[r] > 0 /\ ci' = [ci EXCEPT ![r] = @ - 1]
      BY <1>12, <2>2 DEF CallsTeardown, TeardownReturns
    <3>2. ci' \in [Runs -> Nat]
      BY <3>1
    <3>3. UNCHANGED <<mpc, disposition>>
      BY <1>12, <2>2 DEF TeardownReturns
    <3>4. QED
      BY <3>2, <3>3
  <2>3. QED
    BY <2>1, <2>2
<1>13. ASSUME NEW r \in Runs, NEW t \in Thread, Teardown(r, t) PROVE TypeOK'
  <2>1. CASE StartTeardown(r, t)
    BY <2>1 DEF StartTeardown, Once
  <2>2. CASE Remove(r, t)
    <3>1. td[r] \in Removing
      BY <2>2 DEF Remove
    <3>2. docker' \in DockerState
      BY <2>2, <3>1, OutcomeType DEF Remove
    <3>3. td' \in [Runs -> Removing \cup {"end"}]
      BY <2>2, <3>1, NextStepType DEF Remove
    <3>4. terr' \in [Runs -> BOOLEAN]
      BY <2>2 DEF Remove
    <3>5. fault' \in BOOLEAN
      BY <2>2 DEF Remove
    <3>6. QED
      BY <2>2, <3>2, <3>3, <3>4, <3>5 DEF Remove
  <2>3. CASE EndTeardown(r, t)
    BY <2>3, <1>12 DEF EndTeardown, Once
  <2>4. CASE SkipTeardown(r, t)
    BY <2>4, <1>12 DEF SkipTeardown
  <2>5. QED
    BY <1>13, <2>1, <2>2, <2>3, <2>4 DEF Teardown
<1>14. ASSUME NEW r \in Runs, Signal(r) PROVE TypeOK'
  BY <1>14 DEF Signal, HandlerPC, Exit
<1>15. ASSUME NEW r \in Runs, Straggler(r) PROVE TypeOK'
  <2>1. docker' \in DockerState
    BY <1>15, OutcomeType DEF Straggler
  <2>2. QED
    BY <1>15, <2>1 DEF Straggler, MainPC
<1>16. ASSUME Destroy PROVE TypeOK'
  <2>1. dpc \in Removing
    BY <1>16 DEF Destroy
  <2>2. docker' \in DockerState
    BY <1>16, <2>1, OutcomeType DEF Destroy
  <2>3. dpc' \in Removing \cup {"end"}
    BY <1>16, <2>1, NextStepType DEF Destroy
  <2>4. derr' \in BOOLEAN /\ fault' \in BOOLEAN
    BY <1>16 DEF Destroy
  <2>5. QED
    BY <1>16, <2>2, <2>3, <2>4 DEF Destroy
<1>17. ASSUME UNCHANGED vars PROVE TypeOK'
  BY <1>17 DEF vars
<1>18. QED
  BY <1>1, <1>2, <1>5, <1>6, <1>7, <1>8, <1>9, <1>10, <1>11, <1>13, <1>14,
     <1>15, <1>16, <1>17
     DEF Next, RunStep, Main, Terminated

\* Every variable keeps its type.
THEOREM TypeCorrect == Spec => []TypeOK
BY TypeInit, TypeStep, PTL DEF Spec

-----------------------------------------------------------------------------
(* The inductive invariant behind an honest "destroyed".                   *)
(*                                                                         *)
(* Once main has begun Plan.Destroy it never provisions again, so an       *)
(* object it has removed does not come back as its own; the position in    *)
(* the list of removals says which ones those are.  The receipt can only   *)
(* say "destroyed" from there.                                             *)

TornByMain(r) ==
  boxTornDown[r].phase # "free" /\ boxTornDown[r].by = "main"

\* What Plan.Destroy has removed so far, if it met no error.
RemovedSoFar(r) ==
  /\ td[r] # "rmBox" => docker.box # r
  /\ td[r] \in {"rmNet", "end"} => docker.gw # r
  /\ td[r] = "end" => docker.net # r

TeardownInv(r) ==
  /\ boxTornDown[r].phase = "free" =>
       td[r] = FirstRemoval /\ ~terr[r] /\ boxTornDown[r].by = "main"
  /\ boxTornDown[r].phase = "done" => td[r] = "end"
  /\ TornByMain(r) =>
       mpc[r] \in {"executeFailed", "rm", "receipt", "return", "exited"}
  /\ TornByMain(r) /\ boxTornDown[r].phase = "done" =>
       mpc[r] \notin {"executeFailed", "rm"}
  /\ TornByMain(r) /\ ~terr[r] => RemovedSoFar(r)
  /\ (disposition[r] = "destroyed" \/ receipt[r] = "destroyed")
     /\ boxTornDown[r].by = "main" =>
       boxTornDown[r].phase = "done" /\ ~terr[r]

Inv == \A r \in Runs : TeardownInv(r)

\* No command makes run r the owner of anything unless r issues it, and a
\* removal never does.
LEMMA OwnershipOnlyByCreation ==
  ASSUME NEW cmd \in Command, NEW o \in Owner, NEW d \in DockerState, NEW e,
         Succeeds(cmd, o, d, e) \/ Refused(cmd, d, e) \/ Faults(cmd, o, d, e),
         NEW r \in Runs, r # o \/ cmd \in Removing
  PROVE  /\ d.box # r => e.box # r
         /\ d.gw # r => e.gw # r
         /\ d.net # r => e.net # r
<1>1. e = d \/ e = Effect(cmd, o, d)
  BY DEF Succeeds, Refused, Faults
<1>2. CASE cmd \in Creating
  <2>1. r # o
    BY <1>2 DEF Creating, Removing
  <2>2. CASE cmd = "createNet"
    BY <1>1, <2>1, <2>2 DEF Effect, DockerState
  <2>3. CASE cmd = "runGateway"
    BY <1>1, <2>1, <2>3 DEF Effect, DockerState
  <2>4. CASE cmd = "connectGateway"
    BY <1>1, <2>1, <2>4 DEF Effect, DockerState
  <2>5. CASE cmd = "runBox"
    BY <1>1, <2>1, <2>5 DEF Effect, DockerState
  <2>6. QED
    BY <1>2, <2>2, <2>3, <2>4, <2>5 DEF Creating
<1>3. CASE cmd \in InBox
  BY <1>1, <1>3 DEF Effect, DockerState, Creating, InBox, Removing
<1>4. CASE cmd \in Removing
  BY <1>1, <1>4, NobodyIsNoRun DEF Effect, DockerState, Creating, InBox, Removing
<1>5. QED
  BY <1>2, <1>3, <1>4 DEF Command

\* A removal that succeeds removes what it names.
LEMMA RemovalRemoves ==
  ASSUME NEW cmd \in Removing, NEW o \in Owner, NEW d \in DockerState, NEW e,
         Succeeds(cmd, o, d, e), NEW r \in Runs
  PROVE  /\ cmd = "rmBox" => e.box # r
         /\ cmd = "rmGateway" => e.gw # r
         /\ cmd = "rmNet" => e.net # r
BY NobodyIsNoRun DEF Succeeds, Effect, DockerState, Creating, InBox, Removing

LEMMA InvInit == Init => Inv
<1> SUFFICES ASSUME Init, NEW r \in Runs PROVE TeardownInv(r)
  BY DEF Inv
<1>1. boxTornDown[r] = Fresh /\ td[r] = FirstRemoval /\ ~terr[r]
  BY DEF Init
<1>2. disposition[r] = "none" /\ receipt[r] = "none"
  BY DEF Init
<1>3. QED
  BY <1>1, <1>2 DEF TeardownInv, TornByMain, Fresh

LEMMA InvStep == TypeOK /\ Inv /\ [Next]_vars => Inv'
<1> SUFFICES ASSUME TypeOK, Inv, [Next]_vars, NEW r \in Runs
             PROVE  TeardownInv(r)'
  BY DEF Inv
<1> USE CommandTypes
    DEF TypeOK, Inv, TeardownInv, TornByMain, RemovedSoFar, runVars, cleanVars,
        tearVars, hostVars, destroyVars, Goto, At
<1>1. ASSUME NEW q \in Runs, NEW pc,
             mpc' = [mpc EXCEPT ![q] = pc],
             mpc[q] \notin {"executeFailed", "rm", "receipt", "return", "exited"},
             UNCHANGED <<docker, boxTornDown, td, terr, disposition, receipt>>
      PROVE  TeardownInv(r)'
  BY <1>1
<1>2. ASSUME NEW q \in Runs,
             MakeSeedDir(q) \/ Notify(q) \/ StartBroker(q)
             \/ RegisterSeed(q) \/ RegisterBroker(q) \/ RegisterBox(q)
             \/ CreateSeed(q) \/ BuildPlan(q) \/ VerifyPlan(q) \/ StartExecute(q)
      PROVE  TeardownInv(r)'
  <2>1. CASE MakeSeedDir(q)
    <3>1. /\ mpc[q] = "mktemp"
          /\ UNCHANGED <<docker, boxTornDown, td, terr, disposition, receipt>>
      BY <2>1 DEF MakeSeedDir
    <3>2. CASE mpc' = [mpc EXCEPT ![q] = "notify"]
      BY <1>1, <3>1, <3>2
    <3>3. CASE mpc' = [mpc EXCEPT ![q] = "exited"]
      BY <1>1, <3>1, <3>3
    <3>4. QED
      BY <2>1, <3>2, <3>3 DEF MakeSeedDir
  <2>2. CASE Notify(q)
    BY <1>1, <2>2 DEF Notify
  <2>3. CASE StartBroker(q)
    BY <1>1, <2>3 DEF StartBroker
  <2>4. CASE RegisterSeed(q) \/ RegisterBroker(q) \/ RegisterBox(q)
    <3>1. CASE \E pc, c, next :
                 /\ pc \in {"registerSeed", "registerBroker", "registerBox"}
                 /\ Register(q, pc, c, next)
      BY <1>1, <3>1 DEF Register
    <3>2. CASE Branch(q, "registerBox", {"verify"})
      BY <1>1, <3>2 DEF Branch
    <3>3. QED
      BY <2>4, <3>1, <3>2 DEF RegisterSeed, RegisterBroker, RegisterBox
  <2>5. CASE CreateSeed(q) \/ BuildPlan(q) \/ VerifyPlan(q) \/ StartExecute(q)
    <3>1. ASSUME NEW pc \in {"seed", "plan", "verify", "mode"}, NEW targets,
                 Branch(q, pc, targets)
          PROVE  TeardownInv(r)'
      BY <1>1, <3>1 DEF Branch
    <3>2. QED
      BY <2>5, <3>1 DEF CreateSeed, BuildPlan, VerifyPlan, StartExecute
  <2>6. QED
    BY <1>2, <2>1, <2>2, <2>3, <2>4, <2>5
<1>3. ASSUME NEW q \in Runs, PrintPlan(q) \/ AfterExecute(q) PROVE TeardownInv(r)'
  <2>1. /\ mpc[q] \in {"mode", "executed"}
        /\ UNCHANGED <<docker, boxTornDown, td, terr, receipt>>
    BY <1>3 DEF PrintPlan, AfterExecute
  <2>2. ASSUME NEW d, d # "destroyed", Decide(q, d, "receipt")
        PROVE  TeardownInv(r)'
    BY <2>1, <2>2 DEF Decide
  <2>3. CASE PrintPlan(q)
    <3>1. Decide(q, "planned", "receipt")
      BY <2>3 DEF PrintPlan
    <3>2. QED
      BY <2>2, <3>1
  <2>4. CASE AfterExecute(q)
    <3>1. CASE Goto(q, "rm") /\ UNCHANGED disposition
      BY <2>1, <3>1
    <3>2. CASE Decide(q, "persisted", "receipt")
      BY <2>2, <3>2
    <3>3. QED
      BY <2>4, <3>1, <3>2 DEF AfterExecute
  <2>5. QED
    BY <1>3, <2>3, <2>4
<1>4. ASSUME NEW q \in Runs, WriteReceipt(q) PROVE TeardownInv(r)'
  BY <1>4 DEF WriteReceipt
<1>5. ASSUME NEW q \in Runs, Signal(q) PROVE TeardownInv(r)'
  BY <1>5 DEF Signal
<1>6. ASSUME NEW q \in Runs, Provision(q) PROVE TeardownInv(r)'
  <2>1. CASE q = r
    BY <1>6, <2>1 DEF Provision, Provisioning, Creating, InBox
  <2>2. CASE q # r
    <3>1. /\ docker.box # r => docker'.box # r
          /\ docker.gw # r => docker'.gw # r
          /\ docker.net # r => docker'.net # r
      BY <1>6, <2>2, OwnershipOnlyByCreation DEF Provision
    <3>2. QED
      BY <1>6, <2>2, <3>1 DEF Provision
  <2>3. QED
    BY <2>1, <2>2
<1>7. ASSUME NEW q \in Runs, NEW t \in Thread, RunCleanups(q, t)
      PROVE  TeardownInv(r)'
  BY <1>7 DEF RunCleanups, StartCleanups, CleanHost, EndCleanups, Leave,
              AtCleanups, Cleaning
<1>8. ASSUME NEW q \in Runs, NEW t \in Thread, StartTeardown(q, t)
      PROVE  TeardownInv(r)'
  <2>1. CASE q # r
    BY <1>8, <2>1 DEF StartTeardown
  <2>2. CASE q = r
    <3>1. /\ boxTornDown[r].phase = "free"
          /\ boxTornDown'[r] = [phase |-> "running", by |-> t]
          /\ UNCHANGED <<td, terr, docker, mpc, disposition, receipt>>
      BY <1>8, <2>2 DEF StartTeardown
    <3>2. t = "main" => mpc[r] \in {"executeFailed", "rm", "return"}
      BY <1>8, <2>2 DEF StartTeardown, CallsTeardown, Cleaning, AtCleanups
    <3>3. disposition[r] # "destroyed" /\ receipt[r] # "destroyed"
      BY <3>1
    <3>4. QED
      BY <3>1, <3>2, <3>3 DEF FirstRemoval
  <2>3. QED
    BY <2>1, <2>2
<1>9. ASSUME NEW q \in Runs, NEW t \in Thread, Remove(q, t)
      PROVE  TeardownInv(r)'
  <2>1. td[q] \in Removing
    BY <1>9 DEF Remove
  <2>2. /\ docker.box # r => docker'.box # r
        /\ docker.gw # r => docker'.gw # r
        /\ docker.net # r => docker'.net # r
    BY <1>9, <2>1, OwnershipOnlyByCreation DEF Remove
  <2>3. CASE q # r
    BY <1>9, <2>2, <2>3 DEF Remove
  <2>4. CASE q = r
    <3>1. ~terr'[r] =>
            /\ td[r] = "rmBox" => docker'.box # r
            /\ td[r] = "rmGateway" => docker'.gw # r
            /\ td[r] = "rmNet" => docker'.net # r
      BY <1>9, <2>1, <2>4, RemovalRemoves DEF Remove
    <3>2. td'[r] = NextRemoval[td[r]] /\ (~terr'[r] => ~terr[r])
      BY <1>9, <2>4 DEF Remove
    <3>3. QED
      BY <1>9, <2>1, <2>2, <2>4, <3>1, <3>2 DEF Remove, NextRemoval, Removing
  <2>5. QED
    BY <2>3, <2>4
<1>10. ASSUME NEW q \in Runs, NEW t \in Thread, EndTeardown(q, t)
      PROVE  TeardownInv(r)'
  BY <1>10 DEF EndTeardown, CallsTeardown, TeardownReturns, Decide, Cleaning,
              AtCleanups, Once, Thread
<1>11. ASSUME NEW q \in Runs, NEW t \in Thread, SkipTeardown(q, t)
      PROVE  TeardownInv(r)'
  BY <1>11 DEF SkipTeardown, CallsTeardown, TeardownReturns, Decide, Cleaning,
              AtCleanups, Once, Thread
<1>12. ASSUME NEW q \in Runs, Straggler(q) PROVE TeardownInv(r)'
  <2>1. CASE q = r /\ mpc[q] \in Provisioning
    BY <1>12, <2>1 DEF Straggler, Provisioning, Creating, InBox
  <2>2. CASE ~(q = r /\ mpc[q] \in Provisioning)
    <3>1. /\ docker.box # r => docker'.box # r
          /\ docker.gw # r => docker'.gw # r
          /\ docker.net # r => docker'.net # r
      BY <1>12, <2>2, OwnershipOnlyByCreation DEF Straggler
    <3>2. QED
      BY <1>12, <2>2, <3>1 DEF Straggler
  <2>3. QED
    BY <2>1, <2>2
<1>13. ASSUME Destroy PROVE TeardownInv(r)'
  <2>1. /\ docker.box # r => docker'.box # r
        /\ docker.gw # r => docker'.gw # r
        /\ docker.net # r => docker'.net # r
    BY <1>13, OwnershipOnlyByCreation DEF Destroy
  <2>2. QED
    BY <1>13, <2>1 DEF Destroy
<1>14. ASSUME UNCHANGED vars PROVE TeardownInv(r)'
  BY <1>14 DEF vars
<1>15. QED
  BY <1>2, <1>6, <1>7, <1>8, <1>9, <1>10, <1>11, <1>12, <1>13, <1>14, <1>3,
     <1>4, <1>5
     DEF Next, RunStep, Main, Teardown, Terminated

LEMMA InvAlways == Spec => []Inv
BY InvInit, InvStep, TypeCorrect, PTL DEF Spec

\* Whatever other runs, signals and docker faults do, a run whose main
\* goroutine ran the teardown and whose receipt says "destroyed" owns no
\* docker object.
THEOREM DestroyedIsHonest == Spec => []DestroyedReceiptHonest
<1>1. Inv => DestroyedReceiptHonest
  BY DEF Inv, TeardownInv, TornByMain, RemovedSoFar, DestroyedReceiptHonest, Owns
<1>2. QED
  BY <1>1, InvAlways, PTL

-----------------------------------------------------------------------------
(* A teardown without an error leaves nothing.  The network can only be    *)
(* removed when no container is attached to it, and no container is there  *)
(* without the network.                                                    *)

Attached ==
  /\ docker.gw # Nobody \/ docker.box # Nobody => docker.net # Nobody
  /\ docker.linked => docker.gw # Nobody

\* Every way a command can end keeps containers attached.
LEMMA CommandsKeepAttached ==
  ASSUME TypeOK, Attached, NEW cmd \in Command, NEW o \in Owner,
         o = Nobody => cmd \in Removing,
         Succeeds(cmd, o, docker, docker') \/ Refused(cmd, docker, docker')
         \/ Faults(cmd, o, docker, docker')
  PROVE  Attached'
<1>1. \/ docker' = docker
      \/ Accepts(cmd, docker) /\ docker' = Effect(cmd, o, docker)
  BY DEF Succeeds, Refused, Faults
<1>2. CASE docker' = docker
  BY <1>2 DEF Attached
<1>3. CASE Accepts(cmd, docker) /\ docker' = Effect(cmd, o, docker)
  <2> USE NobodyIsNoRun DEF Attached, TypeOK, DockerState, Owner
  <2>1. CASE cmd = "createNet"
    BY <1>3, <2>1 DEF Effect, Accepts, Removing
  <2>2. CASE cmd = "runGateway"
    BY <1>3, <2>2 DEF Effect, Accepts, Removing
  <2>3. CASE cmd = "connectGateway"
    BY <1>3, <2>3 DEF Effect, Accepts
  <2>4. CASE cmd = "runBox"
    BY <1>3, <2>4 DEF Effect, Accepts, Removing
  <2>5. CASE cmd \in InBox
    BY <1>3, <2>5 DEF Effect, Accepts, InBox
  <2>6. CASE cmd = "rmBox"
    BY <1>3, <2>6 DEF Effect, Accepts, InBox
  <2>7. CASE cmd = "rmGateway"
    BY <1>3, <2>7 DEF Effect, Accepts, InBox
  <2>8. CASE cmd = "rmNet"
    BY <1>3, <2>8 DEF Effect, Accepts, InBox
  <2>9. QED
    BY <2>1, <2>2, <2>3, <2>4, <2>5, <2>6, <2>7, <2>8
       DEF Command, Creating, Removing
<1>4. QED
  BY <1>1, <1>2, <1>3

\* A successful removal of the network leaves nothing under the name.
LEMMA LastRemovalEmpties ==
  ASSUME TypeOK, Attached, NEW o \in Owner,
         Succeeds("rmNet", o, docker, docker')
  PROVE  docker' = Empty
<1>1. docker' = [docker EXCEPT !.net = Nobody]
  BY DEF Succeeds, Effect, InBox
<1>2. docker.gw = Nobody /\ docker.box = Nobody
  BY DEF Succeeds, Accepts
<1>3. docker.linked = FALSE
  BY <1>2 DEF Attached, TypeOK, DockerState
<1>4. QED
  BY <1>1, <1>2, <1>3 DEF TypeOK, DockerState, Empty

LEMMA AttachedStep == TypeOK /\ Attached /\ [Next]_vars => Attached'
<1> SUFFICES ASSUME TypeOK, Attached, [Next]_vars PROVE Attached'
  OBVIOUS
<1> USE CommandTypes, CommandsKeepAttached, NobodyIsNoRun
<1>1. ASSUME UNCHANGED docker PROVE Attached'
  BY <1>1 DEF Attached
<1>2. ASSUME NEW r \in Runs, Provision(r) PROVE Attached'
  BY <1>1, <1>2 DEF Provision
<1>3. ASSUME NEW r \in Runs, NEW t \in Thread, Remove(r, t) PROVE Attached'
  <2>1. td[r] \in Removing
    BY <1>3 DEF Remove, TypeOK
  <2>2. QED
    BY <1>3, <2>1 DEF Remove
<1>4. ASSUME NEW r \in Runs, Straggler(r) PROVE Attached'
  <2>1. td[r] \in Removing \cup {"end"}
    BY DEF TypeOK
  <2>2. QED
    BY <1>4, <2>1 DEF Straggler
<1>5. ASSUME Destroy PROVE Attached'
  <2>1. dpc \in Removing
    BY <1>5 DEF Destroy, TypeOK
  <2>2. QED
    BY <1>5, <2>1 DEF Destroy
<1>6. ASSUME NEW r \in Runs, Main(r), ~Provision(r) PROVE UNCHANGED docker
  BY <1>6 DEF Main, MakeSeedDir, Notify, RegisterSeed, RegisterBroker,
       RegisterBox, Register, CreateSeed, BuildPlan, VerifyPlan, StartExecute,
       Branch, StartBroker, PrintPlan, AfterExecute, WriteReceipt
<1>7. ASSUME NEW r \in Runs, NEW t \in Thread,
             RunCleanups(r, t) \/ (Teardown(r, t) /\ ~Remove(r, t)) \/ Signal(r)
      PROVE  UNCHANGED docker
  BY <1>7 DEF RunCleanups, StartCleanups, CleanHost, EndCleanups, Leave,
       Teardown, StartTeardown, EndTeardown, SkipTeardown, Signal
<1>8. ASSUME UNCHANGED vars PROVE UNCHANGED docker
  BY <1>8 DEF vars
<1>9. QED
  BY <1>1, <1>2, <1>3, <1>4, <1>5, <1>6, <1>7, <1>8
     DEF Next, RunStep, Terminated, Teardown, Thread

LEMMA AttachedAlways == Spec => []Attached
<1>1. Init => Attached
  BY DEF Init, Attached, Empty
<1>2. QED
  BY <1>1, AttachedStep, TypeCorrect, PTL DEF Spec

\* Only Plan.Destroy moves a run's place in the list of removals.
LEMMA OnlyRemoveAdvances ==
  ASSUME TypeOK, [Next]_vars, NEW r \in Runs, td'[r] # td[r]
  PROVE  \E t \in Thread : Remove(r, t)
<1> USE DEF TypeOK, runVars, cleanVars, tearVars, hostVars, destroyVars
<1>1. ASSUME NEW q \in Runs, NEW t \in Thread, Remove(q, t)
      PROVE  \E x \in Thread : Remove(r, x)
  <2>1. q = r
    BY <1>1 DEF Remove
  <2>2. QED
    BY <1>1, <2>1
<1>2. ASSUME NEW q \in Runs, Main(q) PROVE UNCHANGED td
  BY <1>2 DEF Main, MakeSeedDir, Notify, RegisterSeed, RegisterBroker,
       RegisterBox, Register, CreateSeed, BuildPlan, VerifyPlan, StartExecute,
       Branch, StartBroker, PrintPlan, AfterExecute, WriteReceipt, Provision
<1>3. ASSUME NEW q \in Runs, NEW t \in Thread,
             RunCleanups(q, t) \/ (Teardown(q, t) /\ ~Remove(q, t))
      PROVE  UNCHANGED td
  BY <1>3 DEF RunCleanups, StartCleanups, CleanHost, EndCleanups, Leave,
       Teardown, StartTeardown, EndTeardown, SkipTeardown
<1>4. ASSUME NEW q \in Runs, Signal(q) \/ Straggler(q) PROVE UNCHANGED td
  BY <1>4 DEF Signal, Straggler
<1>5. ASSUME Destroy \/ UNCHANGED vars PROVE UNCHANGED td
  BY <1>5 DEF Destroy, vars
<1>6. QED
  BY <1>1, <1>2, <1>3, <1>4, <1>5 DEF Next, RunStep, Terminated

\* However many runs provision beside it, a teardown or a `runclave destroy`
\* that ends without an error has left nothing under the name.
THEOREM CleanTeardown == Spec => CleanTeardownLeavesNothing
<1>1. ASSUME TypeOK, Attached, [Next]_vars, NEW r \in Runs,
             td[r] # "end", td'[r] = "end", ~terr'[r]
      PROVE  docker' = Empty
  <2>1. PICK t \in Thread : Remove(r, t)
    BY <1>1, OnlyRemoveAdvances
  <2>2. td[r] = "rmNet"
    BY <1>1, <2>1 DEF Remove, NextRemoval, TypeOK, Removing
  <2>3. Succeeds(td[r], r, docker, docker')
    BY <1>1, <2>1 DEF Remove, TypeOK
  <2>4. QED
    BY <1>1, <2>2, <2>3, LastRemovalEmpties, CommandTypes
<1>2. ASSUME TypeOK, Attached, [Next]_vars, dpc # "end", dpc' = "end", ~derr'
      PROVE  docker' = Empty
  <2>1. Destroy
    <3>1. ASSUME NEW q \in Runs, RunStep(q) \/ Signal(q) \/ Straggler(q)
          PROVE  UNCHANGED dpc
      BY <3>1 DEF RunStep, Main, MakeSeedDir, Notify, RegisterSeed,
           RegisterBroker, RegisterBox, Register, CreateSeed, BuildPlan,
           VerifyPlan, StartExecute, Branch, StartBroker, PrintPlan,
           AfterExecute, WriteReceipt, Provision, RunCleanups, StartCleanups,
           CleanHost, EndCleanups, Leave, Teardown, StartTeardown, Remove,
           EndTeardown, SkipTeardown, Signal, Straggler, destroyVars
    <3>2. QED
      BY <1>2, <3>1 DEF Next, Terminated, vars
  <2>2. dpc = "rmNet"
    BY <1>2, <2>1 DEF Destroy, NextRemoval, TypeOK, Removing
  <2>3. Succeeds(dpc, Nobody, docker, docker')
    BY <1>2, <2>1 DEF Destroy
  <2>4. QED
    BY <1>2, <2>2, <2>3, LastRemovalEmpties, CommandTypes
<1>3. TypeOK /\ Attached /\ [Next]_vars =>
        [/\ \A r \in Runs : td[r] # "end" /\ td'[r] = "end" /\ ~terr'[r]
                            => docker' = Empty
         /\ dpc # "end" /\ dpc' = "end" /\ ~derr' => docker' = Empty]_vars
  BY <1>1, <1>2
<1>4. QED
  BY <1>3, TypeCorrect, AttachedAlways, PTL DEF Spec, CleanTeardownLeavesNothing

-----------------------------------------------------------------------------
(* Whose step it is.                                                       *)

\* What belongs to run r alone.
Local(r) ==
  <<opt[r], mpc[r], hpc[r], cleanups[r], cleanupOnce[r], ci[r], snap[r],
    boxTornDown[r], td[r], terr[r], seedDir[r], daemon[r], disposition[r],
    receipt[r], exit[r]>>

\* A step of another run, or of `runclave destroy`, leaves it alone.
LEMMA Elsewhere ==
  ASSUME TypeOK, NEW r \in Runs, NEW q \in Runs \ {r},
         RunStep(q) \/ Signal(q) \/ Straggler(q)
  PROVE  UNCHANGED Local(r)
<1> USE DEF TypeOK, Local, runVars, cleanVars, tearVars, hostVars, destroyVars, Goto
<1>1. CASE Signal(q) \/ Straggler(q)
  BY <1>1 DEF Signal, Straggler
<1>2. CASE MakeSeedDir(q) \/ Notify(q)
  BY <1>2 DEF MakeSeedDir, Notify
<1>3. ASSUME NEW pc, NEW c, NEW next, Register(q, pc, c, next)
      PROVE  UNCHANGED Local(r)
  BY <1>3 DEF Register
<1>4. ASSUME NEW pc, NEW targets, Branch(q, pc, targets)
      PROVE  UNCHANGED Local(r)
  BY <1>4 DEF Branch
<1>5. CASE StartBroker(q) \/ PrintPlan(q) \/ AfterExecute(q) \/ WriteReceipt(q)
  BY <1>5 DEF StartBroker, PrintPlan, AfterExecute, Decide, WriteReceipt
<1>6. CASE Provision(q)
  BY <1>6 DEF Provision
<1>7. CASE Main(q)
  BY <1>2, <1>3, <1>4, <1>5, <1>6, <1>7
     DEF Main, RegisterSeed, RegisterBroker, RegisterBox, CreateSeed, BuildPlan,
         VerifyPlan, StartExecute
<1>8. ASSUME NEW t \in Thread, RunCleanups(q, t) PROVE UNCHANGED Local(r)
  BY <1>8 DEF RunCleanups, StartCleanups, CleanHost, EndCleanups, Leave
<1>9. ASSUME NEW t \in Thread, Teardown(q, t) PROVE UNCHANGED Local(r)
  BY <1>9 DEF Teardown, StartTeardown, Remove, EndTeardown, SkipTeardown,
              TeardownReturns, Decide
<1>10. QED
  BY <1>1, <1>7, <1>8, <1>9 DEF RunStep

LEMMA OutsideTheRun ==
  ASSUME NEW r \in Runs, Destroy \/ Terminated \/ UNCHANGED vars
  PROVE  UNCHANGED Local(r)
BY DEF Destroy, Terminated, vars, Local, runVars, cleanVars, tearVars, hostVars

-----------------------------------------------------------------------------
(* Cleanups.  What a cleanup undoes is made before it is registered and    *)
(* never again, so once it has run its work stays done; and a loop that    *)
(* main starts has every cleanup the run will ever have.                   *)

Registered(r) == {cleanups[r][i] : i \in 1..Len(cleanups[r])}

Undone(r, cleanup) ==
  /\ cleanup = "seed"   => ~seedDir[r]
  /\ cleanup = "broker" => ~daemon[r]
  /\ cleanup = "box"    => boxTornDown[r].phase = "done"

\* What main has made and registered where it is.
MadeSoFar(r) ==
  /\ mpc[r] \in {"mktemp", "notify"} => hpc[r] = "off" /\ cleanups[r] = <<>>
  /\ mpc[r] = "mktemp" => ~seedDir[r]
  /\ mpc[r] \in {"mktemp", "notify", "registerSeed", "seed", "broker"} => ~daemon[r]
  /\ mpc[r] \in {"mktemp", "notify", "registerSeed", "seed", "broker",
                 "registerBroker"} => "broker" \notin Registered(r)
  /\ daemon[r] => mpc[r] = "registerBroker" \/ "broker" \in Registered(r)
  /\ mpc[r] \notin {"mktemp", "notify", "registerSeed", "exited"} =>
       "seed" \in Registered(r)

\* Where the loop over the cleanups is, and who runs it.
LoopPlace(r) ==
  /\ ci[r] <= snap[r] /\ snap[r] <= Len(cleanups[r])
  /\ cleanupOnce[r].phase = "free" => snap[r] = 0
  /\ cleanupOnce[r].phase = "done" => ci[r] = 0
  /\ \A i \in (ci[r] + 1)..snap[r] : Undone(r, cleanups[r][i])
  /\ cleanupOnce[r].phase # "free" /\ cleanupOnce[r].by = "handler" =>
       hpc[r] = "cleaning"
  /\ cleanupOnce[r].phase # "free" /\ cleanupOnce[r].by = "main" =>
       /\ mpc[r] \in {"return", "exited"} /\ snap[r] = Len(cleanups[r])
       /\ "seed" \in Registered(r)

\* How a run has ended.
EndPlace(r) ==
  /\ exit[r] \in {"ok", "error"} => mpc[r] = "exited"
  /\ exit[r] = "interrupted" => hpc[r] = "cleaning"
  /\ exit[r] \in {"ok", "error", "interrupted"} =>
       \/ cleanupOnce[r].phase = "done"
       \/ snap[r] = 0 /\ hpc[r] = "off" /\ ~seedDir[r] /\ ~daemon[r]

CleanupInv(r) == MadeSoFar(r) /\ LoopPlace(r) /\ EndPlace(r)

\* What append adds to the list of cleanups.
LEMMA Registering ==
  ASSUME TypeOK, NEW r \in Runs, NEW c \in Cleanup,
         cleanups' = [cleanups EXCEPT ![r] = Append(@, c)]
  PROVE  /\ Len(cleanups[r]) \in Nat /\ Len(cleanups'[r]) = Len(cleanups[r]) + 1
         /\ \A i \in 1..Len(cleanups[r]) : cleanups'[r][i] = cleanups[r][i]
         /\ Registered(r)' = Registered(r) \cup {c}
<1>1. cleanups[r] \in Seq(Cleanup) /\ cleanups'[r] = Append(cleanups[r], c)
  BY DEF TypeOK
<1>2. /\ Len(cleanups[r]) \in Nat /\ Len(cleanups'[r]) = Len(cleanups[r]) + 1
      /\ \A i \in 1..Len(cleanups[r]) : cleanups'[r][i] = cleanups[r][i]
      /\ cleanups'[r][Len(cleanups[r]) + 1] = c
  BY <1>1
<1>3. \A i \in 1..Len(cleanups'[r]) :
        i \in 1..Len(cleanups[r]) \/ i = Len(cleanups[r]) + 1
  BY <1>2
<1>4. \A i \in 1..Len(cleanups[r]) : i \in 1..Len(cleanups'[r])
  BY <1>2
<1>5. Len(cleanups[r]) + 1 \in 1..Len(cleanups'[r])
  BY <1>2
<1>6. Registered(r)' = Registered(r) \cup {c}
  BY <1>2, <1>3, <1>4, <1>5 DEF Registered
<1>7. QED
  BY <1>2, <1>6

LEMMA CleanupInit == ASSUME Init, NEW r \in Runs PROVE CleanupInv(r)
<1>1. /\ mpc[r] = "mktemp" /\ hpc[r] = "off" /\ cleanups[r] = <<>>
      /\ cleanupOnce[r].phase = "free" /\ ci[r] = 0 /\ snap[r] = 0
      /\ ~seedDir[r] /\ ~daemon[r] /\ exit[r] = "running"
  BY DEF Init, Fresh
<1>2. Registered(r) = {} /\ Len(cleanups[r]) = 0
  BY <1>1 DEF Registered
<1>3. QED
  BY <1>1, <1>2 DEF CleanupInv, MadeSoFar, LoopPlace, EndPlace

\* A step that leaves the loop and what it undoes alone keeps its place.
LEMMA LoopStays ==
  ASSUME TypeOK, NEW r \in Runs, CleanupInv(r),
         UNCHANGED <<cleanups[r], cleanupOnce[r], ci[r], snap[r]>>,
         hpc'[r] = hpc[r] \/ hpc'[r] = "cleaning",
         mpc'[r] = mpc[r] \/ mpc[r] \notin {"return", "exited"},
         seedDir'[r] => seedDir[r], daemon'[r] => daemon[r],
         boxTornDown'[r] = boxTornDown[r] \/ boxTornDown[r].phase # "done"
  PROVE  LoopPlace(r)'
<1>1. \A c : Undone(r, c) => Undone(r, c)'
  BY DEF Undone
<1>2. Registered(r)' = Registered(r)
  BY DEF Registered
<1>3. QED
  BY <1>1, <1>2 DEF CleanupInv, LoopPlace

\* The main goroutine's steps.
LEMMA CleanupMain ==
  ASSUME TypeOK, NEW r \in Runs, CleanupInv(r), Main(r)
  PROVE  CleanupInv(r)'
<1> USE DEF TypeOK, runVars, cleanVars, tearVars, hostVars, destroyVars, Goto, At
<1>1. exit[r] = "running"
  BY DEF Main, MakeSeedDir, Notify, RegisterSeed, RegisterBroker, RegisterBox,
         Register, CreateSeed, BuildPlan, VerifyPlan, StartExecute, Branch,
         StartBroker, PrintPlan, AfterExecute, WriteReceipt, Provision
<1>2. ASSUME exit'[r] = "running" PROVE EndPlace(r)'
  BY <1>2 DEF EndPlace
<1>3. ASSUME UNCHANGED <<cleanups, cleanupOnce, ci, snap, seedDir, daemon, hpc,
                         exit, boxTornDown>>,
             NEW pc, mpc' = [mpc EXCEPT ![r] = pc],
             mpc[r] \notin {"mktemp", "notify", "registerSeed", "registerBroker",
                            "return", "exited"},
             pc \in {"mktemp", "notify", "registerSeed", "seed", "broker",
                     "registerBroker"} => mpc[r] = "seed" /\ pc = "broker"
      PROVE  CleanupInv(r)'
  <2>1. Registered(r)' = Registered(r)
    BY <1>3 DEF Registered
  <2>2. MadeSoFar(r)'
    BY <1>3, <2>1 DEF CleanupInv, MadeSoFar
  <2>3. LoopPlace(r)'
    BY <1>3, LoopStays
  <2>4. QED
    BY <1>1, <1>2, <1>3, <2>2, <2>3 DEF CleanupInv
<1>4. CASE MakeSeedDir(r)
  <2>1. /\ mpc[r] = "mktemp" /\ UNCHANGED <<hpc, cleanVars, tearVars, daemon>>
        /\ cleanups[r] = <<>> /\ hpc[r] = "off" /\ ~seedDir[r] /\ ~daemon[r]
        /\ "broker" \notin Registered(r)
    BY <1>4 DEF MakeSeedDir, CleanupInv, MadeSoFar
  <2>2. snap[r] = 0 /\ ci[r] = 0 /\ cleanupOnce[r].phase = "free"
    <3>1. Len(cleanups[r]) = 0 /\ snap[r] = 0 /\ ci[r] = 0
      BY <2>1 DEF CleanupInv, LoopPlace
    <3>2. cleanupOnce[r].phase = "free"
      BY <2>1 DEF CleanupInv, LoopPlace, Once, Thread
    <3>3. QED
      BY <3>1, <3>2
  <2>3. LoopPlace(r)'
    BY <2>1, <2>2 DEF LoopPlace
  <2>4. Registered(r)' = Registered(r)
    BY <2>1 DEF Registered
  <2>5. CASE /\ Goto(r, "notify") /\ UNCHANGED exit
             /\ seedDir' = [seedDir EXCEPT ![r] = TRUE]
    BY <1>1, <1>2, <2>1, <2>3, <2>4, <2>5 DEF CleanupInv, MadeSoFar
  <2>6. CASE Goto(r, "exited") /\ UNCHANGED seedDir
    <3>1. MadeSoFar(r)'
      BY <2>1, <2>4, <2>6 DEF MadeSoFar
    <3>2. EndPlace(r)'
      BY <1>4, <2>1, <2>2, <2>6 DEF EndPlace, MakeSeedDir
    <3>3. QED
      BY <2>3, <3>1, <3>2 DEF CleanupInv
  <2>7. QED
    BY <1>4, <2>5, <2>6 DEF MakeSeedDir
<1>5. CASE Notify(r)
  <2>1. /\ mpc[r] = "notify" /\ mpc'[r] = "registerSeed" /\ hpc'[r] = "waiting"
        /\ UNCHANGED <<cleanVars, tearVars, hostVars, exit>>
        /\ hpc[r] = "off" /\ cleanups[r] = <<>>
    BY <1>5 DEF Notify, CleanupInv, MadeSoFar
  <2>2. Registered(r)' = Registered(r)
    BY <2>1 DEF Registered
  <2>3. MadeSoFar(r)'
    BY <2>1, <2>2 DEF CleanupInv, MadeSoFar
  <2>4. LoopPlace(r)'
    <3>1. cleanupOnce[r].phase = "free" \/ cleanupOnce[r].by \notin {"main", "handler"}
      BY <2>1 DEF CleanupInv, LoopPlace
    <3>2. \A c : Undone(r, c)' <=> Undone(r, c)
      BY <2>1 DEF Undone
    <3>3. QED
      BY <2>1, <2>2, <3>1, <3>2 DEF CleanupInv, LoopPlace, Once, Thread
  <2>5. QED
    BY <1>1, <1>2, <2>1, <2>3, <2>4 DEF CleanupInv
<1>6. ASSUME NEW c \in Cleanup, NEW pc, NEW next, Register(r, pc, c, next),
             pc \notin {"mktemp", "notify", "return", "exited"},
             next \notin {"mktemp", "notify", "registerSeed", "registerBroker"},
             pc = "registerSeed" => c = "seed" /\ next = "seed",
             pc # "registerSeed" => next \notin {"seed", "broker"},
             c = "broker" <=> pc = "registerBroker"
      PROVE  CleanupInv(r)'
  <2>1. /\ mpc[r] = pc /\ mpc'[r] = next
        /\ UNCHANGED <<hpc, exit, hostVars, cleanupOnce, ci, snap, boxTornDown>>
        /\ cleanups' = [cleanups EXCEPT ![r] = Append(@, c)]
    BY <1>6 DEF Register
  <2>2. /\ Len(cleanups[r]) \in Nat /\ Len(cleanups'[r]) = Len(cleanups[r]) + 1
        /\ \A i \in 1..Len(cleanups[r]) : cleanups'[r][i] = cleanups[r][i]
        /\ Registered(r)' = Registered(r) \cup {c}
    BY <2>1, Registering
  <2>3. MadeSoFar(r)'
    BY <1>6, <2>1, <2>2 DEF CleanupInv, MadeSoFar
  <2>4. LoopPlace(r)'
    <3>1. \A x : Undone(r, x)' <=> Undone(r, x)
      BY <2>1 DEF Undone
    <3>2. ~(cleanupOnce[r].phase # "free" /\ cleanupOnce[r].by = "main")
      BY <1>6, <2>1 DEF CleanupInv, LoopPlace
    <3>3. \A i \in (ci[r] + 1)..snap[r] : i \in 1..Len(cleanups[r])
      BY <2>2 DEF CleanupInv, LoopPlace
    <3>4. QED
      BY <2>1, <2>2, <3>1, <3>2, <3>3 DEF CleanupInv, LoopPlace
  <2>5. QED
    BY <1>1, <1>2, <2>1, <2>3, <2>4 DEF CleanupInv
<1>7. CASE RegisterSeed(r) \/ RegisterBroker(r)
  BY <1>6, <1>7 DEF RegisterSeed, RegisterBroker, Cleanup
<1>8. CASE RegisterBox(r)
  <2>1. CASE Register(r, "registerBox", "box", "verify")
    BY <1>6, <2>1 DEF Cleanup
  <2>2. CASE Branch(r, "registerBox", {"verify"})
    <3>1. /\ mpc[r] = "registerBox" /\ mpc' = [mpc EXCEPT ![r] = "verify"]
          /\ UNCHANGED <<cleanups, cleanupOnce, ci, snap, seedDir, daemon, hpc, exit,
                         boxTornDown>>
      BY <2>2 DEF Branch
    <3>2. QED
      BY <1>3, <3>1
  <2>3. QED
    BY <1>8, <2>1, <2>2 DEF RegisterBox
<1>9. ASSUME NEW pc \in {"seed", "plan", "verify", "mode"}, NEW targets,
             Branch(r, pc, targets),
             targets \cap {"mktemp", "notify", "registerSeed", "seed",
                           "registerBroker"} = {},
             "broker" \in targets => pc = "seed"
      PROVE  CleanupInv(r)'
  <2>1. PICK next \in targets : mpc' = [mpc EXCEPT ![r] = next]
    BY <1>9 DEF Branch
  <2>2. /\ mpc[r] = pc
        /\ UNCHANGED <<cleanups, cleanupOnce, ci, snap, seedDir, daemon, hpc, exit,
                       boxTornDown>>
    BY <1>9 DEF Branch
  <2>3. next \notin {"mktemp", "notify", "registerSeed", "seed", "registerBroker"}
    BY <1>9
  <2>4. QED
    BY <1>3, <1>9, <2>1, <2>2, <2>3
<1>10. CASE CreateSeed(r) \/ BuildPlan(r) \/ VerifyPlan(r) \/ StartExecute(r)
  BY <1>9, <1>10 DEF CreateSeed, BuildPlan, VerifyPlan, StartExecute, FirstStep
<1>11. CASE StartBroker(r)
  <2>1. /\ mpc[r] = "broker" /\ mpc'[r] \in {"registerBroker", "plan"}
        /\ UNCHANGED <<hpc, exit, seedDir, cleanVars, tearVars>>
    BY <1>11 DEF StartBroker
  <2>2. ~daemon[r] /\ "broker" \notin Registered(r) /\ Registered(r)' = Registered(r)
    BY <2>1 DEF CleanupInv, MadeSoFar, Registered
  <2>3. daemon'[r] => mpc'[r] = "registerBroker"
    BY <1>11, <2>2 DEF StartBroker
  <2>4. MadeSoFar(r)'
    BY <2>1, <2>2, <2>3 DEF CleanupInv, MadeSoFar
  <2>5. LoopPlace(r)'
    <3>1. \A i \in (ci[r] + 1)..snap[r] : cleanups[r][i] # "broker"
      BY <2>2 DEF CleanupInv, LoopPlace, Registered
    <3>2. \A x : x # "broker" => (Undone(r, x)' <=> Undone(r, x))
      BY <2>1 DEF Undone
    <3>3. QED
      BY <2>1, <2>2, <3>1, <3>2 DEF CleanupInv, LoopPlace
  <2>6. QED
    BY <1>1, <1>2, <2>1, <2>4, <2>5 DEF CleanupInv
<1>12. CASE PrintPlan(r) \/ WriteReceipt(r) \/ AfterExecute(r)
  <2>1. PICK pc \in {"receipt", "return", "rm"} : mpc' = [mpc EXCEPT ![r] = pc]
    BY <1>12 DEF PrintPlan, WriteReceipt, AfterExecute, Decide
  <2>2. /\ mpc[r] \in {"mode", "receipt", "executed"}
        /\ UNCHANGED <<cleanups, cleanupOnce, ci, snap, seedDir, daemon, hpc, exit,
                       boxTornDown>>
    BY <1>12 DEF PrintPlan, WriteReceipt, AfterExecute
  <2>3. QED
    BY <1>3, <2>1, <2>2
<1>13. CASE Provision(r)
  <2>1. PICK pc : /\ mpc' = [mpc EXCEPT ![r] = pc]
                  /\ pc \in Provisioning \cup {"executed", "executeFailed"}
    BY <1>13, NextStepType DEF Provision, AfterError
  <2>2. /\ mpc[r] \in Provisioning
        /\ UNCHANGED <<cleanups, cleanupOnce, ci, snap, seedDir, daemon, hpc, exit,
                       boxTornDown>>
    BY <1>13 DEF Provision
  <2>3. QED
    BY <1>3, <2>1, <2>2 DEF Provisioning, Creating, InBox
<1>14. QED
  BY <1>4, <1>5, <1>7, <1>8, <1>10, <1>11, <1>12, <1>13 DEF Main

\* A cleanup that has run counts as undone.
LEMMA LoopAdvances ==
  ASSUME TypeOK, NEW r \in Runs, CleanupInv(r),
         ci[r] > 0, ci' = [ci EXCEPT ![r] = @ - 1],
         cleanupOnce[r].phase = "running",
         UNCHANGED <<cleanups[r], cleanupOnce[r], snap[r], hpc[r], mpc[r]>>,
         seedDir'[r] => seedDir[r], daemon'[r] => daemon[r],
         boxTornDown'[r] = boxTornDown[r] \/ boxTornDown[r].phase # "done",
         NEW c, cleanups[r][ci[r]] = c, Undone(r, c)'
  PROVE  LoopPlace(r)'
<1>1. \A x : Undone(r, x) => Undone(r, x)'
  BY DEF Undone
<1>2. Registered(r)' = Registered(r)
  BY DEF Registered
<1>3. ci'[r] = ci[r] - 1 /\ ci[r] \in Nat /\ snap[r] \in Nat
  BY DEF TypeOK
<1>4. \A i \in (ci'[r] + 1)..snap[r] : i \in (ci[r] + 1)..snap[r] \/ i = ci[r]
  BY <1>3
<1>5. \A i \in (ci'[r] + 1)..snap[r] : \A x : x = cleanups[r][i] => Undone(r, x)'
  BY <1>1, <1>4 DEF CleanupInv, LoopPlace
<1>6. QED
  BY <1>1, <1>2, <1>3, <1>5 DEF CleanupInv, LoopPlace

LEMMA CleanupLoop ==
  ASSUME TypeOK, NEW r \in Runs, CleanupInv(r), NEW t \in Thread, RunCleanups(r, t)
  PROVE  CleanupInv(r)'
<1> USE DEF TypeOK, runVars, cleanVars, tearVars, hostVars, destroyVars, Goto
<1>1. exit[r] = "running" /\ AtCleanups(r, t)
  BY DEF RunCleanups, StartCleanups, CleanHost, EndCleanups, Leave, Cleaning,
         AtCleanups
<1>2. CASE StartCleanups(r, t)
  <2>1. /\ cleanupOnce[r].phase = "free" /\ Len(cleanups[r]) \in Nat
        /\ cleanupOnce'[r] = [phase |-> "running", by |-> t]
        /\ ci'[r] = Len(cleanups[r]) /\ snap'[r] = Len(cleanups[r])
        /\ UNCHANGED <<mpc, hpc, exit, cleanups, seedDir, daemon, boxTornDown>>
    BY <1>2 DEF StartCleanups
  <2>2. Registered(r)' = Registered(r)
    BY <2>1 DEF Registered
  <2>3. MadeSoFar(r)'
    BY <2>1, <2>2 DEF CleanupInv, MadeSoFar
  <2>4. LoopPlace(r)'
    <3>1. t = "handler" => hpc[r] = "cleaning"
      BY <1>1 DEF AtCleanups
    <3>2. t = "main" => mpc[r] = "return" /\ "seed" \in Registered(r)
      BY <1>1 DEF AtCleanups, CleanupInv, MadeSoFar
    <3>3. (ci'[r] + 1)..snap'[r] = {}
      BY <2>1
    <3>4. QED
      BY <2>1, <2>2, <3>1, <3>2, <3>3 DEF LoopPlace
  <2>5. QED
    BY <1>1, <2>1, <2>3, <2>4 DEF CleanupInv, EndPlace
<1>3. CASE CleanHost(r, t)
  <2>1. /\ cleanupOnce[r].phase = "running" /\ ci[r] > 0
        /\ ci' = [ci EXCEPT ![r] = @ - 1]
        /\ UNCHANGED <<mpc, hpc, exit, cleanups, cleanupOnce, snap, boxTornDown>>
    BY <1>3 DEF CleanHost, Cleaning
  <2>2. /\ seedDir'[r] => seedDir[r]
        /\ daemon'[r] => daemon[r]
    BY <1>3 DEF CleanHost
  <2>3. PICK c : c = cleanups[r][ci[r]]
    OBVIOUS
  <2>4. Undone(r, c)'
    BY <1>3, <2>1, <2>3 DEF CleanHost, Undone
  <2>5. LoopPlace(r)'
    BY <2>1, <2>2, <2>3, <2>4, LoopAdvances
  <2>6. Registered(r)' = Registered(r)
    BY <2>1 DEF Registered
  <2>7. MadeSoFar(r)'
    BY <2>1, <2>2, <2>6 DEF CleanupInv, MadeSoFar
  <2>8. QED
    BY <1>1, <2>1, <2>5, <2>7 DEF CleanupInv, EndPlace
<1>4. CASE EndCleanups(r, t)
  <2>1. /\ cleanupOnce[r].phase = "running" /\ ci[r] = 0
        /\ cleanupOnce'[r].phase = "done" /\ cleanupOnce'[r].by = cleanupOnce[r].by
        /\ UNCHANGED <<mpc, hpc, exit, cleanups, ci, snap, seedDir, daemon,
                       boxTornDown>>
    BY <1>4 DEF EndCleanups, Cleaning, Once
  <2>2. Registered(r)' = Registered(r) /\ \A c : Undone(r, c)' <=> Undone(r, c)
    BY <2>1 DEF Registered, Undone
  <2>3. QED
    BY <1>1, <2>1, <2>2 DEF CleanupInv, MadeSoFar, LoopPlace, EndPlace
<1>5. CASE Leave(r, t)
  <2>1. /\ cleanupOnce[r].phase = "done"
        /\ UNCHANGED <<hpc, cleanups, cleanupOnce, ci, snap, seedDir, daemon,
                       boxTornDown>>
    BY <1>5 DEF Leave
  <2>2. Registered(r)' = Registered(r) /\ \A c : Undone(r, c)' <=> Undone(r, c)
    BY <2>1 DEF Registered, Undone
  <2>3. CASE t = "main"
    <3>1. mpc[r] = "return" /\ mpc'[r] = "exited" /\ exit'[r] \in {"ok", "error"}
      BY <1>1, <1>5, <2>3 DEF AtCleanups, Leave, ExitCode
    <3>2. QED
      BY <2>1, <2>2, <3>1 DEF CleanupInv, MadeSoFar, LoopPlace, EndPlace
  <2>4. CASE t = "handler"
    <3>1. mpc' = mpc /\ exit'[r] = "interrupted" /\ hpc[r] = "cleaning"
      BY <1>1, <1>5, <2>4 DEF AtCleanups, Leave
    <3>2. QED
      BY <2>1, <2>2, <3>1 DEF CleanupInv, MadeSoFar, LoopPlace, EndPlace
  <2>5. QED
    BY <2>3, <2>4 DEF Thread
<1>6. QED
  BY <1>2, <1>3, <1>4, <1>5 DEF RunCleanups

LEMMA CleanupTeardown ==
  ASSUME TypeOK, NEW r \in Runs, CleanupInv(r), NEW t \in Thread, Teardown(r, t)
  PROVE  CleanupInv(r)'
<1> USE DEF TypeOK, runVars, cleanVars, tearVars, hostVars, destroyVars, Goto
<1>1. /\ exit[r] = "running" /\ CallsTeardown(r, t)
      /\ UNCHANGED <<cleanups, cleanupOnce, snap, seedDir, daemon, hpc, exit>>
  BY DEF Teardown, StartTeardown, Remove, EndTeardown, SkipTeardown, CallsTeardown
<1>2. Registered(r)' = Registered(r)
  BY <1>1 DEF Registered
<1>3. EndPlace(r)'
  BY <1>1 DEF EndPlace
<1>4. CASE StartTeardown(r, t) \/ Remove(r, t)
  <2>1. /\ UNCHANGED <<mpc, ci>>
        /\ boxTornDown' = boxTornDown \/ boxTornDown[r].phase = "free"
    BY <1>4 DEF StartTeardown, Remove
  <2>2. LoopPlace(r)'
    BY <1>1, <2>1, LoopStays
  <2>3. QED
    BY <1>1, <1>2, <1>3, <2>1, <2>2 DEF CleanupInv, MadeSoFar
<1>5. ASSUME NEW err, TeardownReturns(r, t, err), boxTornDown'[r].phase = "done",
             boxTornDown'[r] = boxTornDown[r] \/ boxTornDown[r].phase # "done"
      PROVE  CleanupInv(r)'
  <2>1. CASE t = "main" /\ mpc[r] \in {"executeFailed", "rm"}
    <3>1. ci' = ci /\ mpc' = [mpc EXCEPT ![r] = "receipt"]
      BY <1>5, <2>1 DEF TeardownReturns, Decide
    <3>2. LoopPlace(r)'
      BY <1>1, <1>5, <2>1, <3>1, LoopStays
    <3>3. MadeSoFar(r)'
      BY <1>1, <1>2, <2>1, <3>1 DEF CleanupInv, MadeSoFar
    <3>4. QED
      BY <1>3, <3>2, <3>3 DEF CleanupInv
  <2>2. CASE ~(t = "main" /\ mpc[r] \in {"executeFailed", "rm"})
    <3>1. /\ ci' = [ci EXCEPT ![r] = @ - 1] /\ mpc' = mpc
          /\ ci[r] > 0 /\ cleanups[r][ci[r]] = "box"
          /\ cleanupOnce[r].phase = "running"
      BY <1>1, <1>5, <2>2 DEF TeardownReturns, CallsTeardown, Cleaning
    <3>2. Undone(r, "box")'
      BY <1>5 DEF Undone
    <3>3. LoopPlace(r)'
      BY <1>1, <1>5, <3>1, <3>2, LoopAdvances
    <3>4. MadeSoFar(r)'
      BY <1>1, <1>2, <3>1 DEF CleanupInv, MadeSoFar
    <3>5. QED
      BY <1>3, <3>3, <3>4 DEF CleanupInv
  <2>3. QED
    BY <2>1, <2>2
<1>6. CASE EndTeardown(r, t)
  <2>1. boxTornDown[r].phase = "running" /\ boxTornDown'[r].phase = "done"
    BY <1>6 DEF EndTeardown, Once
  <2>2. QED
    BY <1>5, <1>6, <2>1 DEF EndTeardown
<1>7. CASE SkipTeardown(r, t)
  <2>1. boxTornDown[r].phase = "done" /\ boxTornDown' = boxTornDown
    BY <1>7 DEF SkipTeardown
  <2>2. QED
    BY <1>5, <1>7, <2>1 DEF SkipTeardown
<1>8. QED
  BY <1>4, <1>6, <1>7 DEF Teardown

LEMMA CleanupStep ==
  ASSUME TypeOK, NEW r \in Runs, CleanupInv(r), [Next]_vars
  PROVE  CleanupInv(r)'
<1> USE DEF TypeOK, runVars, cleanVars, tearVars, hostVars, destroyVars, Goto
<1>1. ASSUME UNCHANGED Local(r) PROVE CleanupInv(r)'
  <2>1. Registered(r)' = Registered(r) /\ \A c : Undone(r, c)' <=> Undone(r, c)
    BY <1>1 DEF Local, Registered, Undone
  <2>2. MadeSoFar(r)' /\ EndPlace(r)'
    BY <1>1, <2>1 DEF Local, CleanupInv, MadeSoFar, EndPlace
  <2>3. LoopPlace(r)'
    BY <1>1, <2>1 DEF Local, CleanupInv, LoopPlace
  <2>4. QED
    BY <2>2, <2>3 DEF CleanupInv
<1>2. CASE Signal(r)
  <2>1. /\ UNCHANGED <<mpc, cleanVars, tearVars, hostVars>>
        /\ \/ hpc[r] = "off" /\ exit'[r] = "killed" /\ hpc' = hpc
           \/ hpc[r] = "waiting" /\ hpc'[r] = "cleaning" /\ exit' = exit
    BY <1>2 DEF Signal
  <2>2. LoopPlace(r)'
    BY <2>1, LoopStays
  <2>3. Registered(r)' = Registered(r)
    BY <2>1 DEF Registered
  <2>4. MadeSoFar(r)'
    BY <2>1, <2>3 DEF CleanupInv, MadeSoFar
  <2>5. EndPlace(r)'
    BY <1>2, <2>1 DEF CleanupInv, EndPlace, Signal
  <2>6. QED
    BY <2>2, <2>4, <2>5 DEF CleanupInv
<1>3. CASE Straggler(r)
  <2>1. /\ UNCHANGED <<hpc, exit, cleanVars, tearVars, hostVars>>
        /\ mpc[r] \in Provisioning \cup {"executeFailed", "rm"}
        /\ mpc'[r] = "exited" /\ exit[r] = "interrupted"
    BY <1>3 DEF Straggler
  <2>2. LoopPlace(r)'
    BY <2>1, LoopStays DEF Provisioning, Creating, InBox
  <2>3. Registered(r)' = Registered(r)
    BY <2>1 DEF Registered
  <2>4. MadeSoFar(r)'
    BY <2>1, <2>3 DEF CleanupInv, MadeSoFar, Provisioning, Creating, InBox
  <2>5. EndPlace(r)'
    BY <2>1 DEF CleanupInv, EndPlace
  <2>6. QED
    BY <2>2, <2>4, <2>5 DEF CleanupInv
<1>4. CASE RunStep(r)
  BY <1>4, CleanupMain, CleanupLoop, CleanupTeardown DEF RunStep
<1>5. ASSUME NEW q \in Runs, RunStep(q) \/ Signal(q) \/ Straggler(q)
      PROVE  CleanupInv(r)'
  <2>1. CASE q = r
    BY <1>2, <1>3, <1>4, <1>5, <2>1
  <2>2. CASE q # r
    BY <1>1, <1>5, <2>2, Elsewhere
  <2>3. QED
    BY <2>1, <2>2
<1>6. ASSUME Destroy \/ Terminated \/ UNCHANGED vars PROVE CleanupInv(r)'
  BY <1>1, <1>6, OutsideTheRun
<1>7. QED
  BY <1>5, <1>6 DEF Next

LEMMA CleanupAlways == Spec => [](\A r \in Runs : CleanupInv(r))
<1>1. Init => \A r \in Runs : CleanupInv(r)
  BY CleanupInit
<1>2. TypeOK /\ (\A r \in Runs : CleanupInv(r)) /\ [Next]_vars =>
        (\A r \in Runs : CleanupInv(r))'
  BY CleanupStep
<1>3. QED
  BY <1>1, <1>2, TypeCorrect, PTL DEF Spec

\* Every exit but a kill has run each cleanup that was registered when the
\* loop began, and an exit without a signal leaves nothing on the host,
\* whatever the run's flags and wherever a signal meets it.
THEOREM CleanupsAreHonoured == Spec => []CleanupsHonoured
<1>1. ASSUME TypeOK, NEW r \in Runs, CleanupInv(r),
             exit[r] \in {"ok", "error", "interrupted"}
      PROVE  LET ran == {cleanups[r][i] : i \in 1..snap[r]}
             IN /\ "seed" \in ran \/ hpc[r] # "cleaning" => ~seedDir[r]
                /\ "broker" \in ran \/ hpc[r] # "cleaning" => ~daemon[r]
                /\ "box" \in ran => boxTornDown[r].phase = "done"
  <2> DEFINE ran == {cleanups[r][i] : i \in 1..snap[r]}
  <2>1. CASE cleanupOnce[r].phase = "done"
    <3>1. ci[r] = 0 /\ \A c \in ran : Undone(r, c)
      BY <1>1, <2>1 DEF CleanupInv, LoopPlace
    <3>2. ASSUME hpc[r] # "cleaning" PROVE ~seedDir[r] /\ ~daemon[r]
      <4>1. cleanupOnce[r].by = "main"
        BY <1>1, <2>1, <3>2 DEF TypeOK, Once, Thread, CleanupInv, LoopPlace
      <4>2. /\ ran = Registered(r) /\ "seed" \in Registered(r)
            /\ mpc[r] \in {"return", "exited"}
        BY <1>1, <2>1, <4>1 DEF CleanupInv, LoopPlace, Registered
      <4>3. daemon[r] => "broker" \in Registered(r)
        BY <1>1, <4>2 DEF CleanupInv, MadeSoFar
      <4>4. QED
        BY <3>1, <4>2, <4>3 DEF Undone
    <3>3. QED
      BY <3>1, <3>2 DEF Undone
  <2>2. CASE snap[r] = 0 /\ hpc[r] = "off" /\ ~seedDir[r] /\ ~daemon[r]
    BY <2>2
  <2>3. QED
    BY <1>1, <2>1, <2>2 DEF CleanupInv, EndPlace
<1>2. TypeOK /\ (\A r \in Runs : CleanupInv(r)) => CleanupsHonoured
  BY <1>1 DEF CleanupsHonoured
<1>3. QED
  BY <1>2, TypeCorrect, CleanupAlways, PTL

-----------------------------------------------------------------------------
(* The engine while run r is alone on the name.                            *)

Removed == {"failed", "destroyed", "destroyFailed"}

\* Who may tear down, and what main has decided where it is.
DecidedSoFar(r) ==
  /\ "box" \in Registered(r) => opt[r].rm
  /\ boxTornDown[r].phase # "free" /\ boxTornDown[r].by = "handler" => opt[r].rm
  /\ disposition[r] # "none" => mpc[r] \in {"receipt", "return", "exited"}
  /\ disposition[r] = "persisted" => ~opt[r].rm /\ boxTornDown[r].phase = "free"
  /\ disposition[r] \in Removed => boxTornDown[r].phase = "done"
  /\ receipt[r] \in {"none", disposition[r]}

LEMMA DecidedInit == ASSUME Init, NEW r \in Runs PROVE DecidedSoFar(r)
<1>1. /\ Registered(r) = {} /\ boxTornDown[r].phase = "free"
      /\ disposition[r] = "none" /\ receipt[r] = "none"
  BY DEF Init, Fresh, Registered
<1>2. QED
  BY <1>1 DEF DecidedSoFar, Removed

\* Only a run with --rm has its signal handler tear the box down.
LEMMA HandlerTearsForRm ==
  ASSUME TypeOK, NEW r \in Runs, CleanupInv(r), DecidedSoFar(r),
         NEW t \in Thread, CallsTeardown(r, t),
         ~(t = "main" /\ mpc[r] \in {"executeFailed", "rm"})
  PROVE  opt[r].rm
<1>1. ci[r] > 0 /\ cleanups[r][ci[r]] = "box"
  BY DEF CallsTeardown
<1>2. ci[r] \in 1..Len(cleanups[r])
  BY <1>1 DEF TypeOK, CleanupInv, LoopPlace
<1>3. QED
  BY <1>1, <1>2 DEF DecidedSoFar, Registered

LEMMA DecidedMain ==
  ASSUME TypeOK, NEW r \in Runs, TeardownInv(r), DecidedSoFar(r), Main(r)
  PROVE  DecidedSoFar(r)'
<1> USE DEF TypeOK, runVars, cleanVars, tearVars, hostVars, destroyVars, Goto, At
<1>1. ASSUME UNCHANGED <<opt, cleanups, boxTornDown, disposition, receipt>>,
             mpc[r] \notin {"receipt", "return", "exited"}
      PROVE  DecidedSoFar(r)'
  BY <1>1 DEF DecidedSoFar, Registered
<1>2. CASE MakeSeedDir(r) \/ Notify(r) \/ StartBroker(r)
  BY <1>1, <1>2 DEF MakeSeedDir, Notify, StartBroker
<1>3. ASSUME NEW c \in Cleanup, NEW pc, NEW next, Register(r, pc, c, next),
             pc \notin {"receipt", "return", "exited"}, c = "box" => opt[r].rm
      PROVE  DecidedSoFar(r)'
  <2>1. /\ mpc[r] = pc /\ UNCHANGED <<opt, boxTornDown, disposition, receipt>>
        /\ cleanups' = [cleanups EXCEPT ![r] = Append(@, c)]
    BY <1>3 DEF Register
  <2>2. Registered(r)' = Registered(r) \cup {c}
    BY <2>1, Registering
  <2>3. QED
    BY <1>3, <2>1, <2>2 DEF DecidedSoFar
<1>4. ASSUME NEW pc \in {"seed", "plan", "registerBox", "verify", "mode"},
             NEW targets, Branch(r, pc, targets)
      PROVE  DecidedSoFar(r)'
  BY <1>1, <1>4 DEF Branch
<1>5. CASE RegisterSeed(r) \/ RegisterBroker(r)
  BY <1>3, <1>5 DEF RegisterSeed, RegisterBroker, Cleanup
<1>6. CASE RegisterBox(r)
  <2>1. CASE opt[r].rm /\ Register(r, "registerBox", "box", "verify")
    BY <1>3, <2>1 DEF Cleanup
  <2>2. CASE Branch(r, "registerBox", {"verify"})
    BY <1>4, <2>2
  <2>3. QED
    BY <1>6, <2>1, <2>2 DEF RegisterBox
<1>7. CASE CreateSeed(r) \/ BuildPlan(r) \/ VerifyPlan(r) \/ StartExecute(r)
  <2>1. \E pc \in {"seed", "plan", "verify", "mode"} : \E targets : Branch(r, pc, targets)
    BY <1>7 DEF CreateSeed, BuildPlan, VerifyPlan, StartExecute
  <2>2. QED
    BY <1>4, <2>1
<1>8. CASE Provision(r)
  BY <1>1, <1>8 DEF Provision, Provisioning, Creating, InBox
<1>9. ASSUME NEW d \in {"planned", "persisted"}, Decide(r, d, "receipt"),
             UNCHANGED <<opt, cleanups, boxTornDown, receipt>>,
             mpc[r] \in {"mode", "executed"},
             d = "persisted" => ~opt[r].rm
      PROVE  DecidedSoFar(r)'
  <2>1. disposition'[r] = d /\ mpc'[r] = "receipt" /\ disposition[r] = "none"
    BY <1>9 DEF Decide, DecidedSoFar
  <2>2. ~opt[r].rm => boxTornDown[r].phase = "free"
    BY <1>9 DEF DecidedSoFar, TeardownInv, TornByMain, Once, Thread
  <2>3. Registered(r)' = Registered(r)
    BY <1>9 DEF Registered
  <2>4. QED
    BY <1>9, <2>1, <2>2, <2>3 DEF DecidedSoFar, Removed
<1>10. CASE PrintPlan(r)
  BY <1>9, <1>10 DEF PrintPlan
<1>11. CASE AfterExecute(r)
  BY <1>1, <1>9, <1>11 DEF AfterExecute
<1>12. CASE WriteReceipt(r)
  BY <1>12 DEF WriteReceipt, DecidedSoFar, Registered
<1>13. QED
  BY <1>2, <1>5, <1>6, <1>7, <1>8, <1>10, <1>11, <1>12 DEF Main

LEMMA DecidedTeardown ==
  ASSUME TypeOK, NEW r \in Runs, CleanupInv(r), DecidedSoFar(r), NEW t \in Thread,
         Teardown(r, t)
  PROVE  DecidedSoFar(r)'
<1> USE DEF TypeOK, runVars, cleanVars, tearVars, hostVars, destroyVars, Goto
<1>1. /\ CallsTeardown(r, t)
      /\ UNCHANGED <<opt, cleanups, receipt>> /\ Registered(r)' = Registered(r)
  BY DEF Teardown, StartTeardown, Remove, EndTeardown, SkipTeardown, Registered
<1>2. CASE Remove(r, t)
  BY <1>1, <1>2 DEF Remove, DecidedSoFar
<1>3. CASE StartTeardown(r, t)
  <2>1. /\ boxTornDown[r].phase = "free" /\ UNCHANGED <<mpc, disposition>>
        /\ boxTornDown'[r] = [phase |-> "running", by |-> t]
    BY <1>3 DEF StartTeardown
  <2>2. \/ opt[r].rm
        \/ t = "main" /\ mpc[r] \in {"executeFailed", "rm"}
    BY <1>1, HandlerTearsForRm
  <2>3. QED
    BY <1>1, <2>1, <2>2 DEF DecidedSoFar
<1>4. ASSUME NEW err, TeardownReturns(r, t, err), boxTornDown'[r].phase = "done",
             boxTornDown'[r].by = boxTornDown[r].by, boxTornDown[r].phase # "free"
      PROVE  DecidedSoFar(r)'
  <2>1. CASE t = "main" /\ mpc[r] \in {"executeFailed", "rm"}
    <3>1. disposition'[r] \in Removed /\ mpc'[r] = "receipt"
      BY <1>4, <2>1 DEF TeardownReturns, Decide, Removed
    <3>2. disposition[r] = "none"
      BY <2>1 DEF DecidedSoFar
    <3>3. QED
      BY <1>1, <1>4, <3>1, <3>2 DEF DecidedSoFar, Removed
  <2>2. CASE ~(t = "main" /\ mpc[r] \in {"executeFailed", "rm"})
    <3>1. UNCHANGED <<mpc, disposition>>
      BY <1>4, <2>2 DEF TeardownReturns
    <3>2. QED
      BY <1>1, <1>4, <3>1 DEF DecidedSoFar
  <2>3. QED
    BY <2>1, <2>2
<1>5. CASE EndTeardown(r, t)
  <2>1. /\ boxTornDown[r].phase = "running" /\ boxTornDown'[r].phase = "done"
        /\ boxTornDown'[r].by = boxTornDown[r].by
    BY <1>5 DEF EndTeardown, Once
  <2>2. QED
    BY <1>4, <1>5, <2>1 DEF EndTeardown
<1>6. CASE SkipTeardown(r, t)
  <2>1. boxTornDown[r].phase = "done" /\ boxTornDown' = boxTornDown
    BY <1>6 DEF SkipTeardown
  <2>2. QED
    BY <1>4, <1>6, <2>1 DEF SkipTeardown
<1>7. QED
  BY <1>2, <1>3, <1>5, <1>6 DEF Teardown

LEMMA DecidedStep ==
  ASSUME TypeOK, NEW r \in Runs, CleanupInv(r), TeardownInv(r), DecidedSoFar(r),
         [Next]_vars
  PROVE  DecidedSoFar(r)'
<1>1. ASSUME UNCHANGED Local(r) PROVE DecidedSoFar(r)'
  BY <1>1 DEF Local, DecidedSoFar, Registered
<1>2. ASSUME NEW t \in Thread, RunCleanups(r, t) PROVE DecidedSoFar(r)'
  <2>1. /\ UNCHANGED <<opt, cleanups, boxTornDown, disposition, receipt>>
        /\ mpc'[r] = mpc[r] \/ mpc'[r] = "exited"
    BY <1>2 DEF RunCleanups, StartCleanups, CleanHost, EndCleanups, Leave, Goto,
                TypeOK, runVars, cleanVars, tearVars
  <2>2. QED
    BY <2>1 DEF DecidedSoFar, Registered
<1>3. ASSUME Signal(r) \/ Straggler(r) PROVE DecidedSoFar(r)'
  <2>1. /\ UNCHANGED <<opt, cleanups, boxTornDown, disposition, receipt>>
        /\ mpc'[r] = mpc[r] \/ mpc'[r] = "exited"
    BY <1>3 DEF Signal, Straggler, Goto, TypeOK, runVars, cleanVars, tearVars
  <2>2. QED
    BY <2>1 DEF DecidedSoFar, Registered
<1>4. CASE RunStep(r)
  BY <1>2, <1>4, DecidedMain, DecidedTeardown DEF RunStep
<1>5. ASSUME NEW q \in Runs, RunStep(q) \/ Signal(q) \/ Straggler(q)
      PROVE  DecidedSoFar(r)'
  <2>1. CASE q = r
    BY <1>3, <1>4, <1>5, <2>1
  <2>2. CASE q # r
    BY <1>1, <1>5, <2>2, Elsewhere
  <2>3. QED
    BY <2>1, <2>2
<1>6. ASSUME Destroy \/ Terminated \/ UNCHANGED vars PROVE DecidedSoFar(r)'
  BY <1>1, <1>6, OutsideTheRun
<1>7. QED
  BY <1>5, <1>6 DEF Next

-----------------------------------------------------------------------------
(* What the engine holds while run r is alone on the name.                 *)

Early == {"mktemp", "notify", "registerSeed", "seed", "broker", "registerBroker",
          "plan", "registerBox", "verify", "mode", "createNet"}

\* What is there after each of the commands that create the box.
NetUp(r)         == [net |-> r, gw |-> Nobody, linked |-> FALSE, box |-> Nobody]
GatewayUp(r)     == [net |-> r, gw |-> r, linked |-> FALSE, box |-> Nobody]
GatewayLinked(r) == [net |-> r, gw |-> r, linked |-> TRUE, box |-> Nobody]

\* What Plan.Execute has made when nobody removes anything.
BuiltSoFar(r) ==
  /\ mpc[r] \in Early => docker = Empty
  /\ mpc[r] = "runGateway" => docker = NetUp(r)
  /\ mpc[r] = "connectGateway" => docker = GatewayUp(r)
  /\ mpc[r] = "runBox" => docker = GatewayLinked(r)
  /\ mpc[r] \in {"seedBox", "execAgent", "executed", "rm"} => docker = Whole(r)
  /\ disposition[r] = "persisted" => docker = Whole(r)
  /\ mpc[r] = "executeFailed" /\ ~fault => docker.net = r

\* What main's own teardown has left when no docker command failed by itself.
LeftSoFar(r) ==
  /\ mpc[r] \in {"executeFailed", "rm"} =>
       /\ ~terr[r]
       /\ td[r] # "end" => docker.net = r
       /\ td[r] # "rmBox" => docker.box = Nobody
       /\ td[r] \notin {"rmBox", "rmGateway"} => docker.gw = Nobody
       /\ td[r] = "end" => docker = Empty
  /\ disposition[r] \in Removed => ~terr[r] /\ docker = Empty

EngineInv(r) ==
  Alone(r) =>
    /\ boxTornDown[r].phase = "free" => BuiltSoFar(r)
    /\ ~fault /\ TornByMain(r) => LeftSoFar(r)

UnaskedDestroy == ~WithDestroy => dpc = "end"

\* Who else has not begun does nothing to the engine without beginning.
LEMMA OthersWait ==
  ASSUME TypeOK, NEW o \in Runs, CleanupInv(o), mpc'[o] = "mktemp",
         RunStep(o) \/ Signal(o) \/ Straggler(o)
  PROVE  mpc[o] = "mktemp" /\ UNCHANGED <<docker, fault, dpc>>
<1> USE DEF TypeOK, runVars, cleanVars, tearVars, hostVars, destroyVars, Goto, At
<1>1. ASSUME Main(o) PROVE FALSE
  <2>1. ASSUME NEW pc, mpc' = [mpc EXCEPT ![o] = pc], pc # "mktemp" PROVE FALSE
    BY <2>1
  <2>2. ASSUME MakeSeedDir(o) \/ Notify(o) \/ StartBroker(o) PROVE FALSE
    BY <2>2 DEF MakeSeedDir, Notify, StartBroker
  <2>3. ASSUME NEW pc, NEW c, NEW next, next # "mktemp", Register(o, pc, c, next)
        PROVE FALSE
    BY <2>1, <2>3 DEF Register
  <2>4. ASSUME NEW pc, NEW targets, "mktemp" \notin targets, Branch(o, pc, targets)
        PROVE  FALSE
    BY <2>1, <2>4 DEF Branch
  <2>5. ASSUME PrintPlan(o) \/ AfterExecute(o) \/ WriteReceipt(o) PROVE FALSE
    BY <2>5 DEF PrintPlan, AfterExecute, WriteReceipt, Decide
  <2>6. ASSUME Provision(o) PROVE FALSE
    <3>1. PICK pc : /\ mpc' = [mpc EXCEPT ![o] = pc]
                    /\ pc \in Provisioning \cup {"executed", "executeFailed"}
      BY <2>6, NextStepType DEF Provision, AfterError
    <3>2. QED
      BY <2>1, <3>1 DEF Provisioning, Creating, InBox
  <2>7. ASSUME RegisterBox(o) PROVE FALSE
    BY <2>3, <2>4, <2>7 DEF RegisterBox
  <2>8. QED
    BY <1>1, <2>2, <2>3, <2>4, <2>5, <2>6, <2>7
       DEF Main, RegisterSeed, RegisterBroker, CreateSeed, BuildPlan, VerifyPlan,
           StartExecute, FirstStep
<1>2. ASSUME NEW t \in Thread, RunCleanups(o, t)
      PROVE  mpc[o] = "mktemp" /\ UNCHANGED <<docker, fault, dpc>>
  BY <1>2 DEF RunCleanups, StartCleanups, CleanHost, EndCleanups, Leave
<1>3. ASSUME NEW t \in Thread, Teardown(o, t) PROVE FALSE
  <2>1. CallsTeardown(o, t)
    BY <1>3 DEF Teardown, StartTeardown, Remove, EndTeardown, SkipTeardown
  <2>2. mpc'[o] = mpc[o] \/ mpc'[o] = "receipt"
    BY <1>3 DEF Teardown, StartTeardown, Remove, EndTeardown, SkipTeardown,
                TeardownReturns, Decide
  <2>3. mpc[o] = "mktemp" /\ hpc[o] = "off"
    BY <2>2 DEF CleanupInv, MadeSoFar
  <2>4. QED
    BY <2>1, <2>3 DEF CallsTeardown, Cleaning, AtCleanups, Thread
<1>4. ASSUME Signal(o) PROVE mpc[o] = "mktemp" /\ UNCHANGED <<docker, fault, dpc>>
  BY <1>4 DEF Signal
<1>5. ASSUME Straggler(o) PROVE FALSE
  BY <1>5 DEF Straggler
<1>6. QED
  BY <1>1, <1>2, <1>3, <1>4, <1>5 DEF RunStep

\* A run's own steps leave `runclave destroy` where it is.
LEMMA OwnStep ==
  ASSUME NEW q \in Runs, RunStep(q) \/ Signal(q) \/ Straggler(q)
  PROVE  UNCHANGED dpc
BY DEF RunStep, Main, MakeSeedDir, Notify, RegisterSeed, RegisterBroker,
       RegisterBox, Register, CreateSeed, BuildPlan, VerifyPlan, StartExecute,
       Branch, StartBroker, PrintPlan, AfterExecute, WriteReceipt, Provision,
       RunCleanups, StartCleanups, CleanHost, EndCleanups, Leave, Teardown,
       StartTeardown, Remove, EndTeardown, SkipTeardown, Signal, Straggler,
       destroyVars

\* Who is alone after a step was so before, and it was its own step or none
\* of the engine's.
LEMMA AloneBefore ==
  ASSUME TypeOK, \A o \in Runs : CleanupInv(o), UnaskedDestroy, [Next]_vars,
         NEW r \in Runs, Alone(r)'
  PROVE  /\ Alone(r)
         /\ \/ RunStep(r) \/ Signal(r) \/ Straggler(r)
            \/ UNCHANGED <<docker, fault, Local(r)>>
<1>1. CASE Terminated \/ UNCHANGED vars
  BY <1>1, OutsideTheRun DEF Terminated, vars, Alone
<1>2. CASE Destroy
  <2>1. dpc \in Removing /\ dpc' = NextRemoval[dpc]
    BY <1>2 DEF Destroy, TypeOK
  <2>2. dpc' # FirstRemoval
    BY <2>1 DEF NextRemoval, Removing, FirstRemoval
  <2>3. ~WithDestroy /\ dpc = "end"
    BY <2>2 DEF Alone, UnaskedDestroy
  <2>4. QED
    BY <2>1, <2>3 DEF Removing
<1>3. ASSUME NEW q \in Runs, RunStep(q) \/ Signal(q) \/ Straggler(q)
      PROVE  /\ Alone(r)
             /\ \/ RunStep(r) \/ Signal(r) \/ Straggler(r)
                \/ UNCHANGED <<docker, fault, Local(r)>>
  <2>1. dpc' = dpc
    BY <1>3, OwnStep
  <2>2. \A o \in Runs \ {q} : mpc'[o] = mpc[o]
    <3>1. ASSUME NEW o \in Runs \ {q} PROVE UNCHANGED Local(o)
      BY <1>3, Elsewhere
    <3>2. QED
      BY <3>1 DEF Local
  <2>3. CASE q = r
    BY <1>3, <2>1, <2>2, <2>3 DEF Alone
  <2>4. CASE q # r
    <3>1. mpc'[q] = "mktemp"
      BY <2>4 DEF Alone
    <3>2. mpc[q] = "mktemp" /\ UNCHANGED <<docker, fault, dpc>>
      BY <1>3, <3>1, OthersWait
    <3>3. UNCHANGED Local(r)
      BY <1>3, <2>4, Elsewhere
    <3>4. QED
      BY <2>1, <2>2, <3>2, <3>3 DEF Alone
  <2>5. QED
    BY <2>3, <2>4
<1>4. QED
  BY <1>1, <1>2, <1>3 DEF Next

\* The commands of Plan.Execute, each from what the one before has made.
LEMMA EffectBuilds ==
  ASSUME NEW r \in Runs
  PROVE  /\ Accepts("createNet", Empty)
         /\ Effect("createNet", r, Empty) = NetUp(r)
         /\ Effect("runGateway", r, NetUp(r)) = GatewayUp(r)
         /\ Effect("connectGateway", r, GatewayUp(r)) = GatewayLinked(r)
         /\ Effect("runBox", r, GatewayLinked(r)) = Whole(r)
         /\ \A c \in InBox : \A d : Effect(c, r, d) = d
<1>1. Accepts("createNet", Empty)
  BY DEF Accepts, Empty, InBox
<1>2. \A d : /\ Effect("createNet", r, d) = [d EXCEPT !.net = r]
            /\ Effect("runGateway", r, d) = [d EXCEPT !.gw = r, !.linked = FALSE]
            /\ Effect("connectGateway", r, d) = [d EXCEPT !.linked = TRUE]
            /\ Effect("runBox", r, d) = [d EXCEPT !.box = r]
  BY DEF Effect, InBox
<1>3. \A c \in InBox : \A d : Effect(c, r, d) = d
  BY DEF Effect, InBox
<1>4. /\ Empty \in DockerState /\ NetUp(r) \in DockerState
      /\ GatewayUp(r) \in DockerState /\ GatewayLinked(r) \in DockerState
      /\ Whole(r) \in DockerState
  BY DEF DockerState, Owner, Empty, NetUp, GatewayUp, GatewayLinked, Whole
<1>5. \A d, e \in DockerState :
        d.net = e.net /\ d.gw = e.gw /\ d.linked = e.linked /\ d.box = e.box
        => d = e
  BY DEF DockerState
<1>6. [Empty EXCEPT !.net = r] = NetUp(r)
  <2> DEFINE e == [Empty EXCEPT !.net = r]
  <2>1. e \in DockerState
    BY <1>4 DEF DockerState, Owner
  <2>2. e.net = r /\ e.gw = Nobody /\ e.linked = FALSE /\ e.box = Nobody
    BY DEF Empty
  <2>3. QED
    BY <1>4, <1>5, <2>1, <2>2 DEF NetUp
<1>7. [NetUp(r) EXCEPT !.gw = r, !.linked = FALSE] = GatewayUp(r)
  <2> DEFINE e == [NetUp(r) EXCEPT !.gw = r, !.linked = FALSE]
  <2>1. e \in DockerState
    BY <1>4 DEF DockerState, Owner
  <2>2. e.net = r /\ e.gw = r /\ e.linked = FALSE /\ e.box = Nobody
    BY DEF NetUp
  <2>3. QED
    BY <1>4, <1>5, <2>1, <2>2 DEF GatewayUp
<1>8. [GatewayUp(r) EXCEPT !.linked = TRUE] = GatewayLinked(r)
  <2> DEFINE e == [GatewayUp(r) EXCEPT !.linked = TRUE]
  <2>1. e \in DockerState
    BY <1>4 DEF DockerState, Owner
  <2>2. e.net = r /\ e.gw = r /\ e.linked = TRUE /\ e.box = Nobody
    BY DEF GatewayUp
  <2>3. QED
    BY <1>4, <1>5, <2>1, <2>2 DEF GatewayLinked
<1>9. [GatewayLinked(r) EXCEPT !.box = r] = Whole(r)
  <2> DEFINE e == [GatewayLinked(r) EXCEPT !.box = r]
  <2>1. e \in DockerState
    BY <1>4 DEF DockerState, Owner
  <2>2. e.net = r /\ e.gw = r /\ e.linked = TRUE /\ e.box = r
    BY DEF GatewayLinked
  <2>3. QED
    BY <1>4, <1>5, <2>1, <2>2 DEF Whole
<1>10. QED
  BY <1>1, <1>2, <1>3, <1>6, <1>7, <1>8, <1>9

LEMMA BuiltProvision ==
  ASSUME TypeOK, NEW r \in Runs, DecidedSoFar(r), BuiltSoFar(r), Provision(r)
  PROVE  BuiltSoFar(r)'
<1> USE DEF TypeOK, Goto
<1>1. /\ mpc[r] \in Provisioning /\ disposition' = disposition
      /\ disposition[r] = "none"
  BY DEF Provision, DecidedSoFar, Provisioning, Creating, InBox
<1>2. \/ mpc[r] = "createNet" /\ docker = Empty
      \/ mpc[r] = "runGateway" /\ docker = NetUp(r)
      \/ mpc[r] = "connectGateway" /\ docker = GatewayUp(r)
      \/ mpc[r] = "runBox" /\ docker = GatewayLinked(r)
      \/ mpc[r] \in InBox /\ docker = Whole(r)
  BY <1>1 DEF BuiltSoFar, Early, Provisioning, Creating, InBox
<1>3. CASE Succeeds(mpc[r], r, docker, docker') /\ Goto(r, NextStep[mpc[r]])
  <2>1. docker' = Effect(mpc[r], r, docker) /\ mpc'[r] = NextStep[mpc[r]]
    BY <1>3 DEF Succeeds
  <2>2. CASE mpc[r] = "createNet"
    <3>1. mpc'[r] = "runGateway" /\ docker' = NetUp(r)
      BY <1>2, <2>1, <2>2, EffectBuilds DEF NextStep, Provisioning, Creating, InBox
    <3>2. QED
      BY <1>1, <3>1 DEF BuiltSoFar, Early
  <2>3. CASE mpc[r] = "runGateway"
    <3>1. mpc'[r] = "connectGateway" /\ docker' = GatewayUp(r)
      BY <1>2, <2>1, <2>3, EffectBuilds DEF NextStep, Provisioning, Creating, InBox
    <3>2. QED
      BY <1>1, <3>1 DEF BuiltSoFar, Early
  <2>4. CASE mpc[r] = "connectGateway"
    <3>1. mpc'[r] = "runBox" /\ docker' = GatewayLinked(r)
      BY <1>2, <2>1, <2>4, EffectBuilds DEF NextStep, Provisioning, Creating, InBox
    <3>2. QED
      BY <1>1, <3>1 DEF BuiltSoFar, Early
  <2>5. CASE mpc[r] = "runBox"
    <3>1. mpc'[r] = "seedBox" /\ docker' = Whole(r)
      BY <1>2, <2>1, <2>5, EffectBuilds DEF NextStep, Provisioning, Creating, InBox
    <3>2. QED
      BY <1>1, <3>1 DEF BuiltSoFar, Early
  <2>6. CASE mpc[r] \in InBox
    <3>1. mpc'[r] \in {"execAgent", "executed"} /\ docker' = Whole(r)
      BY <1>2, <2>1, <2>6, EffectBuilds DEF NextStep, Provisioning, Creating, InBox
    <3>2. QED
      BY <1>1, <3>1 DEF BuiltSoFar, Early
  <2>7. QED
    BY <1>2, <2>2, <2>3, <2>4, <2>5, <2>6
<1>4. ASSUME docker' = docker, mpc[r] # "createNet", Goto(r, AfterError(r))
      PROVE  BuiltSoFar(r)'
  <2>1. docker.net = r
    <3>1. \/ docker = NetUp(r)
          \/ docker = GatewayUp(r)
          \/ docker = GatewayLinked(r)
          \/ docker = Whole(r)
      BY <1>2, <1>4
    <3>2. /\ NetUp(r).net = r
          /\ GatewayUp(r).net = r
          /\ GatewayLinked(r).net = r
          /\ Whole(r).net = r
      BY DEF NetUp, GatewayUp, GatewayLinked, Whole
    <3>3. QED
      BY <3>1, <3>2
  <2>2. CASE mpc'[r] = "executeFailed"
    BY <1>1, <1>4, <2>1, <2>2 DEF BuiltSoFar, Early
  <2>3. CASE mpc'[r] = "executed" /\ mpc[r] = "execAgent"
    BY <1>1, <1>2, <1>4, <2>3 DEF BuiltSoFar, Early
  <2>4. QED
    BY <1>4, <2>2, <2>3 DEF AfterError
<1>5. CASE Refused(mpc[r], docker, docker') /\ Goto(r, AfterError(r))
  <2>1. docker' = docker /\ ~Accepts(mpc[r], docker)
    BY <1>5 DEF Refused
  <2>2. mpc[r] # "createNet"
    <3>1. SUFFICES ASSUME mpc[r] = "createNet" PROVE FALSE
      OBVIOUS
    <3>2. docker = Empty
      BY <1>2, <3>1 DEF InBox
    <3>3. QED
      BY <2>1, <3>1, <3>2, EffectBuilds
  <2>3. QED
    BY <1>4, <1>5, <2>1, <2>2
<1>6. CASE mpc[r] = "execAgent" /\ Goto(r, AfterError(r)) /\ UNCHANGED <<docker, fault>>
  BY <1>4, <1>6
<1>7. ASSUME Faults(mpc[r], r, docker, docker'), fault',
             NEW next \in {AfterError(r), "executeFailed"}, Goto(r, next)
      PROVE  BuiltSoFar(r)'
  <2>1. CASE next = "executeFailed"
    BY <1>1, <1>7, <2>1 DEF BuiltSoFar, Early
  <2>2. CASE next # "executeFailed"
    <3>1. mpc[r] = "execAgent" /\ next = "executed"
      BY <1>7, <2>2 DEF AfterError
    <3>2. docker' = Whole(r)
      BY <1>2, <1>7, <3>1, EffectBuilds DEF Faults, InBox
    <3>3. QED
      BY <1>1, <1>7, <3>1, <3>2 DEF BuiltSoFar, Early
  <2>3. QED
    BY <2>1, <2>2
<1>8. QED
  BY <1>3, <1>5, <1>6, <1>7 DEF Provision

\* Main's other steps while nobody tears down.
LEMMA BuiltMain ==
  ASSUME TypeOK, NEW r \in Runs, DecidedSoFar(r), BuiltSoFar(r), Main(r)
  PROVE  BuiltSoFar(r)'
<1> USE DEF TypeOK, Goto, At
<1>1. ASSUME UNCHANGED <<docker, fault, disposition>>, mpc[r] \in Early,
             NEW pc \in Early \cup {"return", "exited"},
             mpc' = [mpc EXCEPT ![r] = pc]
      PROVE  BuiltSoFar(r)'
  <2>1. docker = Empty /\ mpc'[r] = pc
    BY <1>1 DEF BuiltSoFar
  <2>2. QED
    BY <1>1, <2>1 DEF BuiltSoFar, Early
<1>2. CASE MakeSeedDir(r) \/ Notify(r) \/ StartBroker(r)
  BY <1>1, <1>2 DEF MakeSeedDir, Notify, StartBroker, Early
<1>3. ASSUME NEW pc \in Early, NEW c, NEW next \in Early, Register(r, pc, c, next)
      PROVE  BuiltSoFar(r)'
  BY <1>1, <1>3 DEF Register
<1>4. ASSUME NEW pc \in Early, NEW targets \in SUBSET (Early \cup {"return"}),
             Branch(r, pc, targets)
      PROVE  BuiltSoFar(r)'
  BY <1>1, <1>4 DEF Branch
<1>5. CASE RegisterSeed(r) \/ RegisterBroker(r) \/ RegisterBox(r)
  BY <1>3, <1>4, <1>5 DEF RegisterSeed, RegisterBroker, RegisterBox, Early
<1>6. CASE CreateSeed(r) \/ BuildPlan(r) \/ VerifyPlan(r) \/ StartExecute(r)
  BY <1>4, <1>6
     DEF CreateSeed, BuildPlan, VerifyPlan, StartExecute, FirstStep, Early
<1>7. CASE PrintPlan(r)
  BY <1>7 DEF PrintPlan, Decide, BuiltSoFar, Early
<1>8. CASE AfterExecute(r)
  <2>1. docker = Whole(r) /\ docker' = docker
    BY <1>8 DEF AfterExecute, BuiltSoFar
  <2>2. mpc'[r] \in {"rm", "receipt"}
    BY <1>8 DEF AfterExecute, Decide
  <2>3. QED
    BY <2>1, <2>2 DEF BuiltSoFar, Early
<1>9. CASE WriteReceipt(r)
  BY <1>9 DEF WriteReceipt, BuiltSoFar, Early
<1>10. QED
  BY <1>2, <1>5, <1>6, <1>7, <1>8, <1>9, BuiltProvision DEF Main

\* A step that leaves the engine and the teardown alone, and main where it is
\* or on its way out.
LEMMA EngineStays ==
  ASSUME NEW r \in Runs, Alone(r), EngineInv(r),
         UNCHANGED <<docker, fault, boxTornDown[r], td[r], terr[r], disposition[r]>>,
         mpc'[r] = mpc[r] \/ mpc'[r] \in {"return", "exited"}
  PROVE  EngineInv(r)'
<1>1. BuiltSoFar(r) => BuiltSoFar(r)'
  BY DEF BuiltSoFar, Early
<1>2. LeftSoFar(r) => LeftSoFar(r)'
  BY DEF LeftSoFar
<1>3. TornByMain(r)' = TornByMain(r)
  BY DEF TornByMain
<1>4. QED
  BY <1>1, <1>2, <1>3 DEF EngineInv

LEMMA EngineMain ==
  ASSUME TypeOK, NEW r \in Runs, TeardownInv(r), DecidedSoFar(r), Alone(r),
         EngineInv(r), Main(r)
  PROVE  EngineInv(r)'
<1>1. UNCHANGED <<boxTornDown, td, terr>>
  BY DEF Main, MakeSeedDir, Notify, RegisterSeed, RegisterBroker, RegisterBox,
         Register, CreateSeed, BuildPlan, VerifyPlan, StartExecute, Branch,
         StartBroker, PrintPlan, AfterExecute, WriteReceipt, Provision, tearVars
<1>2. CASE boxTornDown[r].phase = "free"
  <2>1. BuiltSoFar(r)'
    BY <1>2, BuiltMain DEF EngineInv
  <2>2. QED
    BY <1>1, <1>2, <2>1 DEF EngineInv, TornByMain
<1>3. CASE TornByMain(r)
  <2>1. mpc[r] \in {"executeFailed", "rm", "receipt", "return", "exited"}
    BY <1>3 DEF TeardownInv
  <2>2. WriteReceipt(r)
    BY <2>1 DEF Main, MakeSeedDir, Notify, RegisterSeed, RegisterBroker,
         RegisterBox, Register, CreateSeed, BuildPlan, VerifyPlan, StartExecute,
         Branch, StartBroker, PrintPlan, AfterExecute, Provision, Provisioning,
         Creating, InBox, At
  <2>3. mpc'[r] = "return" /\ UNCHANGED <<docker, fault, disposition>>
    BY <2>2 DEF WriteReceipt, Goto, TypeOK
  <2>4. QED
    BY <1>1, <2>3, EngineStays
<1>4. CASE boxTornDown[r].phase # "free" /\ ~TornByMain(r)
  BY <1>1, <1>4 DEF EngineInv, TornByMain
<1>5. QED
  BY <1>2, <1>3, <1>4

\* Plan.Destroy, called by main, with nobody else on the name.
LEMMA LeftRemove ==
  ASSUME TypeOK, Attached, NEW r \in Runs, DecidedSoFar(r), LeftSoFar(r), ~fault',
         Remove(r, "main")
  PROVE  LeftSoFar(r)'
<1> USE DEF TypeOK
<1>1. /\ td[r] \in Removing /\ td'[r] = NextRemoval[td[r]] /\ mpc' = mpc
      /\ disposition' = disposition /\ boxTornDown[r].phase = "running"
  BY DEF Remove, runVars
<1>2. disposition'[r] \notin Removed
  BY <1>1 DEF DecidedSoFar
<1>3. ASSUME mpc[r] \in {"executeFailed", "rm"}
      PROVE  /\ ~terr'[r]
             /\ td'[r] # "end" => docker'.net = r
             /\ docker'.box = Nobody
             /\ td'[r] # "rmGateway" => docker'.gw = Nobody
             /\ td'[r] = "end" => docker' = Empty
             /\ td'[r] # "rmBox"
  <2>1. /\ ~terr[r] /\ docker.net = r
        /\ td[r] # "rmBox" => docker.box = Nobody
        /\ td[r] = "rmNet" => docker.gw = Nobody
    BY <1>1, <1>3 DEF LeftSoFar, Removing
  <2>2. Accepts(td[r], docker)
    BY <1>1, <2>1, NobodyIsNoRun DEF Accepts, Removing, InBox
  <2>3. Succeeds(td[r], r, docker, docker') /\ UNCHANGED terr
    BY <2>2 DEF Remove, Refused
  <2>4. CASE td[r] = "rmBox"
    <3>1. docker' = [docker EXCEPT !.box = Nobody]
      BY <2>3, <2>4 DEF Succeeds, Effect, InBox
    <3>2. docker'.net = r /\ docker'.box = Nobody
      BY <2>1, <3>1 DEF DockerState
    <3>3. td'[r] = "rmGateway"
      BY <1>1, <2>4 DEF NextRemoval, Removing
    <3>4. QED
      BY <2>1, <2>3, <3>2, <3>3
  <2>5. CASE td[r] = "rmGateway"
    <3>1. docker' = [docker EXCEPT !.gw = Nobody, !.linked = FALSE]
      BY <2>3, <2>5 DEF Succeeds, Effect, InBox
    <3>2. docker'.net = r /\ docker'.box = Nobody /\ docker'.gw = Nobody
      BY <2>1, <2>5, <3>1 DEF DockerState
    <3>3. td'[r] = "rmNet"
      BY <1>1, <2>5 DEF NextRemoval, Removing
    <3>4. QED
      BY <2>1, <2>3, <3>2, <3>3
  <2>6. CASE td[r] = "rmNet"
    <3>1. docker' = Empty
      BY <2>3, <2>6, LastRemovalEmpties, CommandTypes
    <3>2. td'[r] = "end"
      BY <1>1, <2>6 DEF NextRemoval, Removing
    <3>3. QED
      BY <2>1, <2>3, <3>1, <3>2 DEF Empty
  <2>7. QED
    BY <1>1, <2>4, <2>5, <2>6 DEF Removing
<1>4. QED
  BY <1>1, <1>2, <1>3 DEF LeftSoFar

LEMMA EngineTeardown ==
  ASSUME TypeOK, Attached, NEW r \in Runs, TeardownInv(r), DecidedSoFar(r),
         Alone(r), EngineInv(r), NEW t \in Thread, Teardown(r, t)
  PROVE  EngineInv(r)'
<1> USE DEF TypeOK, tearVars
<1>1. SUFFICES ASSUME TornByMain(r)' \/ boxTornDown'[r].phase = "free"
      PROVE  /\ boxTornDown'[r].phase = "free" => BuiltSoFar(r)'
             /\ ~fault' /\ TornByMain(r)' => LeftSoFar(r)'
  BY DEF EngineInv
<1>2. StartTeardown(r, t) => boxTornDown'[r].phase # "free"
  BY DEF StartTeardown
<1>3. ASSUME Remove(r, t) \/ EndTeardown(r, t) \/ SkipTeardown(r, t)
      PROVE  /\ boxTornDown[r].phase # "free" /\ boxTornDown'[r].phase # "free"
             /\ boxTornDown'[r].by = boxTornDown[r].by
  <2>1. CASE Remove(r, t)
    BY <2>1 DEF Remove
  <2>2. CASE EndTeardown(r, t)
    BY <2>2 DEF EndTeardown, Once
  <2>3. CASE SkipTeardown(r, t)
    BY <2>3 DEF SkipTeardown
  <2>4. QED
    BY <1>3, <2>1, <2>2, <2>3
<1>4. boxTornDown'[r].phase # "free" /\ boxTornDown'[r].by = "main"
  <2>1. boxTornDown'[r].phase # "free"
    BY <1>2, <1>3 DEF Teardown
  <2>2. QED
    BY <1>1, <2>1 DEF TornByMain
<1>5. SUFFICES ASSUME ~fault' PROVE LeftSoFar(r)'
  BY <1>4
<1>6. CASE StartTeardown(r, t)
  <2>1. /\ boxTornDown[r].phase = "free"
        /\ UNCHANGED <<docker, fault, mpc, disposition, td, terr>>
    BY <1>6 DEF StartTeardown, runVars
  <2>2. td[r] = "rmBox" /\ ~terr[r] /\ disposition[r] \notin Removed
    BY <2>1 DEF TeardownInv, DecidedSoFar, FirstRemoval
  <2>3. mpc[r] \in {"executeFailed", "rm"} => docker.net = r
    BY <1>5, <2>1 DEF EngineInv, BuiltSoFar, Whole
  <2>4. QED
    BY <2>1, <2>2, <2>3 DEF LeftSoFar
<1>7. ASSUME ~StartTeardown(r, t), ~fault PROVE TornByMain(r) /\ LeftSoFar(r)
  <2>1. TornByMain(r)
    BY <1>4, <1>3, <1>7 DEF Teardown, TornByMain
  <2>2. QED
    BY <1>7, <2>1 DEF EngineInv
<1>8. CASE Remove(r, t)
  <2>1. t = "main" /\ ~fault /\ ~StartTeardown(r, t)
    BY <1>4, <1>5, <1>8 DEF Remove, StartTeardown
  <2>2. QED
    BY <1>5, <1>7, <1>8, <2>1, LeftRemove
<1>9. CASE EndTeardown(r, t)
  <2>1. /\ boxTornDown[r] = [phase |-> "running", by |-> t] /\ td[r] = "end"
        /\ UNCHANGED <<docker, fault, td, terr>>
        /\ TeardownReturns(r, t, terr[r])
    BY <1>9 DEF EndTeardown
  <2>2. LeftSoFar(r) /\ t = "main"
    <3>1. ~StartTeardown(r, t) /\ ~fault
      BY <1>5, <2>1 DEF StartTeardown
    <3>2. QED
      BY <1>4, <1>7, <1>9, <2>1, <3>1 DEF EndTeardown
  <2>3. CASE mpc[r] \in {"executeFailed", "rm"}
    <3>1. ~terr[r] /\ docker = Empty
      BY <2>1, <2>2, <2>3 DEF LeftSoFar
    <3>2. mpc'[r] = "receipt"
      BY <2>1, <2>2, <2>3 DEF TeardownReturns, Decide, Goto
    <3>3. QED
      BY <2>1, <3>1, <3>2 DEF LeftSoFar
  <2>4. CASE mpc[r] \notin {"executeFailed", "rm"}
    <3>1. UNCHANGED <<mpc, disposition>>
      BY <2>1, <2>4 DEF TeardownReturns
    <3>2. disposition[r] \notin Removed
      BY <2>1 DEF DecidedSoFar
    <3>3. QED
      BY <2>4, <3>1, <3>2 DEF LeftSoFar
  <2>5. QED
    BY <2>3, <2>4
<1>10. CASE SkipTeardown(r, t)
  <2>1. /\ boxTornDown[r].phase = "done"
        /\ UNCHANGED <<docker, fault, boxTornDown, td, terr>>
        /\ TeardownReturns(r, t, FALSE)
    BY <1>10 DEF SkipTeardown
  <2>2. LeftSoFar(r) /\ TornByMain(r)
    <3>1. ~StartTeardown(r, t) /\ ~fault
      BY <1>5, <2>1 DEF StartTeardown
    <3>2. QED
      BY <1>7, <3>1
  <2>3. mpc[r] \notin {"executeFailed", "rm"}
    BY <2>1, <2>2 DEF TeardownInv
  <2>4. UNCHANGED <<mpc, disposition>>
    BY <2>1, <2>3 DEF TeardownReturns
  <2>5. QED
    BY <2>1, <2>2, <2>4 DEF LeftSoFar
<1>11. QED
  BY <1>6, <1>8, <1>9, <1>10 DEF Teardown

LEMMA EngineStep ==
  ASSUME TypeOK, Attached, \A o \in Runs : CleanupInv(o), UnaskedDestroy,
         NEW r \in Runs, TeardownInv(r), DecidedSoFar(r), EngineInv(r),
         [Next]_vars
  PROVE  EngineInv(r)'
<1>1. SUFFICES ASSUME Alone(r)' PROVE EngineInv(r)'
  BY DEF EngineInv
<1>2. /\ Alone(r)
      /\ \/ RunStep(r) \/ Signal(r) \/ Straggler(r)
         \/ UNCHANGED <<docker, fault, Local(r)>>
  BY <1>1, AloneBefore
<1>3. CASE UNCHANGED <<docker, fault, Local(r)>>
  BY <1>2, <1>3, EngineStays DEF Local
<1>4. ASSUME NEW t \in Thread, RunCleanups(r, t) PROVE EngineInv(r)'
  <2>1. /\ UNCHANGED <<docker, fault, boxTornDown, td, terr, disposition>>
        /\ mpc'[r] = mpc[r] \/ mpc'[r] = "exited"
    BY <1>4 DEF RunCleanups, StartCleanups, CleanHost, EndCleanups, Leave, Goto,
                TypeOK, runVars, tearVars
  <2>2. QED
    BY <1>2, <2>1, EngineStays
<1>5. CASE Signal(r)
  <2>1. UNCHANGED <<docker, fault, boxTornDown, td, terr, disposition, mpc>>
    BY <1>5 DEF Signal, tearVars
  <2>2. QED
    BY <1>2, <2>1, EngineStays
<1>6. CASE Straggler(r)
  <2>1. mpc'[r] = "exited" /\ disposition'[r] = disposition[r]
    BY <1>6 DEF Straggler, Goto, TypeOK
  <2>2. disposition[r] = "none"
    BY <1>6 DEF Straggler, DecidedSoFar, Provisioning, Creating, InBox
  <2>3. BuiltSoFar(r)' /\ LeftSoFar(r)'
    BY <2>1, <2>2 DEF BuiltSoFar, LeftSoFar, Early, Removed
  <2>4. QED
    BY <2>3 DEF EngineInv
<1>7. CASE RunStep(r)
  BY <1>2, <1>4, <1>7, EngineMain, EngineTeardown DEF RunStep
<1>8. QED
  BY <1>2, <1>3, <1>5, <1>6, <1>7

\* Whoever is alone on the name has the engine to itself.
AloneInv ==
  /\ UnaskedDestroy
  /\ \A r \in Runs : DecidedSoFar(r) /\ EngineInv(r)

LEMMA AloneAlways == Spec => []AloneInv
<1>1. Init => AloneInv
  <2> SUFFICES ASSUME Init PROVE AloneInv
    OBVIOUS
  <2>1. UnaskedDestroy
    BY DEF Init, UnaskedDestroy
  <2>2. ASSUME NEW r \in Runs PROVE DecidedSoFar(r) /\ EngineInv(r)
    <3>1. /\ mpc[r] = "mktemp" /\ docker = Empty /\ disposition[r] = "none"
          /\ boxTornDown[r].phase = "free"
      BY DEF Init, Fresh
    <3>2. EngineInv(r)
      BY <3>1 DEF EngineInv, BuiltSoFar, TornByMain, Early
    <3>3. QED
      BY <3>2, DecidedInit
  <2>3. QED
    BY <2>1, <2>2 DEF AloneInv
<1>2. TypeOK /\ Attached /\ (\A r \in Runs : CleanupInv(r)) /\ Inv /\ AloneInv
      /\ [Next]_vars => AloneInv'
  <2> SUFFICES ASSUME TypeOK, Attached, \A r \in Runs : CleanupInv(r), Inv,
                      AloneInv, [Next]_vars
               PROVE  AloneInv'
    OBVIOUS
  <2>1. UnaskedDestroy'
    <3>1. UnaskedDestroy
      BY DEF AloneInv
    <3>2. ASSUME NEW q \in Runs, RunStep(q) \/ Signal(q) \/ Straggler(q)
          PROVE  UNCHANGED dpc
      BY <3>2, OwnStep
    <3>3. CASE Destroy
      BY <3>1, <3>3 DEF Destroy, UnaskedDestroy
    <3>4. CASE UNCHANGED dpc
      BY <3>1, <3>4 DEF UnaskedDestroy
    <3>5. QED
      BY <3>2, <3>3, <3>4 DEF Next, Terminated, vars
  <2>2. ASSUME NEW r \in Runs PROVE DecidedSoFar(r)' /\ EngineInv(r)'
    <3>1. DecidedSoFar(r) /\ EngineInv(r) /\ TeardownInv(r) /\ UnaskedDestroy
      BY DEF AloneInv, Inv
    <3>2. QED
      BY <3>1, DecidedStep, EngineStep
  <2>3. QED
    BY <2>1, <2>2 DEF AloneInv
<1>3. QED
  BY <1>1, <1>2, TypeCorrect, AttachedAlways, CleanupAlways, InvAlways, PTL DEF Spec

\* A receipt that says "persisted" is true while nobody else works on the
\* name, whatever signals and docker faults the run has met.
THEOREM PersistedIsHonest == Spec => []PersistedReceiptHonest
<1>1. AloneInv => PersistedReceiptHonest
  <2> SUFFICES ASSUME AloneInv, NEW r \in Runs, Alone(r), receipt[r] = "persisted"
               PROVE  docker = Whole(r)
    BY DEF PersistedReceiptHonest
  <2>1. disposition[r] = "persisted" /\ boxTornDown[r].phase = "free"
    BY DEF AloneInv, DecidedSoFar
  <2>2. QED
    BY <2>1 DEF AloneInv, EngineInv, BuiltSoFar
<1>2. QED
  BY <1>1, AloneAlways, PTL

\* A teardown that main runs after Plan.Execute has begun, with nobody else on
\* the name and no docker fault, meets no error and removes everything: the
\* order of Plan.DestroySteps is right.
THEOREM TeardownRemovesAll == Spec => []TeardownCompletes
<1>1. AloneInv => TeardownCompletes
  <2> SUFFICES ASSUME AloneInv, NEW r \in Runs, Alone(r), ~fault,
                      disposition[r] \in Removed, TornByMain(r)
               PROVE  ~terr[r] /\ docker = Empty
    BY DEF TeardownCompletes, Removed, TornByMain
  <2>1. LeftSoFar(r)
    BY DEF AloneInv, EngineInv
  <2>2. QED
    BY <2>1 DEF LeftSoFar
<1>2. QED
  BY <1>1, AloneAlways, PTL

-----------------------------------------------------------------------------
(* Who leaves the engine alone for good.                                   *)

\* A dry run never comes to Plan.Execute nor past it.
DryPlace(r) ==
  opt[r].dry => mpc[r] \notin Provisioning \cup {"executeFailed", "executed", "rm"}

LEMMA DryStep ==
  ASSUME TypeOK, NEW r \in Runs, DryPlace(r), [Next]_vars
  PROVE  DryPlace(r)'
<1> USE DEF TypeOK, runVars, cleanVars, tearVars, hostVars, destroyVars, Goto, At
<1>1. ASSUME UNCHANGED Local(r) PROVE DryPlace(r)'
  BY <1>1 DEF Local, DryPlace
<1>2. ASSUME UNCHANGED opt, NEW pc, mpc' = [mpc EXCEPT ![r] = pc],
             pc \notin Provisioning \cup {"executeFailed", "executed", "rm"}
      PROVE  DryPlace(r)'
  BY <1>2 DEF DryPlace
<1>3. ASSUME UNCHANGED <<opt, mpc>> PROVE DryPlace(r)'
  BY <1>3 DEF DryPlace
<1> USE DEF Provisioning, Creating, InBox
<1>4. CASE Main(r)
  <2>1. CASE MakeSeedDir(r) \/ Notify(r) \/ StartBroker(r)
    BY <1>2, <2>1 DEF MakeSeedDir, Notify, StartBroker
  <2>2. CASE RegisterSeed(r) \/ RegisterBroker(r) \/ RegisterBox(r)
    BY <1>2, <2>2 DEF RegisterSeed, RegisterBroker, RegisterBox, Register, Branch
  <2>3. CASE CreateSeed(r) \/ BuildPlan(r) \/ VerifyPlan(r)
    BY <1>2, <2>3 DEF CreateSeed, BuildPlan, VerifyPlan, Branch
  <2>4. CASE PrintPlan(r) \/ WriteReceipt(r)
    BY <1>2, <2>4 DEF PrintPlan, Decide, WriteReceipt
  <2>5. CASE StartExecute(r) \/ Provision(r) \/ AfterExecute(r)
    <3>1. ~opt[r].dry /\ opt' = opt
      BY <2>5 DEF StartExecute, Branch, Provision, AfterExecute, DryPlace
    <3>2. QED
      BY <3>1 DEF DryPlace
  <2>6. QED
    BY <1>4, <2>1, <2>2, <2>3, <2>4, <2>5 DEF Main
<1>5. ASSUME NEW t \in Thread, RunCleanups(r, t) PROVE DryPlace(r)'
  <2>1. CASE Leave(r, t)
    BY <1>2, <1>3, <2>1 DEF Leave
  <2>2. CASE ~Leave(r, t)
    BY <1>3, <1>5, <2>2 DEF RunCleanups, StartCleanups, CleanHost, EndCleanups
  <2>3. QED
    BY <2>1, <2>2
<1>6. ASSUME NEW t \in Thread, Teardown(r, t) PROVE DryPlace(r)'
  BY <1>2, <1>3, <1>6
     DEF Teardown, StartTeardown, Remove, EndTeardown, SkipTeardown,
         TeardownReturns, Decide
<1>7. CASE Signal(r)
  BY <1>3, <1>7 DEF Signal
<1>8. CASE Straggler(r)
  BY <1>2, <1>8 DEF Straggler
<1>9. ASSUME NEW q \in Runs, RunStep(q) \/ Signal(q) \/ Straggler(q)
      PROVE  DryPlace(r)'
  <2>1. CASE q = r
    BY <1>4, <1>5, <1>6, <1>7, <1>8, <1>9, <2>1 DEF RunStep
  <2>2. CASE q # r
    BY <1>1, <1>9, <2>2, Elsewhere
  <2>3. QED
    BY <2>1, <2>2
<1>10. ASSUME Destroy \/ Terminated \/ UNCHANGED vars PROVE DryPlace(r)'
  BY <1>1, <1>10, OutsideTheRun
<1>11. QED
  BY <1>9, <1>10 DEF Next

LEMMA DryAlways == Spec => [](\A r \in Runs : DryPlace(r))
<1>1. Init => \A r \in Runs : DryPlace(r)
  BY DEF Init, DryPlace, Provisioning, Creating, InBox
<1>2. TypeOK /\ (\A r \in Runs : DryPlace(r)) /\ [Next]_vars =>
        (\A r \in Runs : DryPlace(r))'
  <2> SUFFICES ASSUME TypeOK, \A r \in Runs : DryPlace(r), [Next]_vars,
                      NEW r \in Runs
               PROVE  DryPlace(r)'
    OBVIOUS
  <2>1. DryPlace(r)
    OBVIOUS
  <2>2. QED
    BY <2>1, DryStep
<1>3. QED
  BY <1>1, <1>2, TypeCorrect, PTL DEF Spec

\* A dry run without --rm; a run whose box is to persist.
Settled(r) == (opt[r].dry /\ ~opt[r].rm) \/ disposition[r] = "persisted"

SettledRunsLeaveDocker ==
  [][\A r \in Runs :
       Settled(r) /\ (RunStep(r) \/ Straggler(r)) => UNCHANGED docker]_vars

\* Such a run calls no docker command that changes anything, whatever signals
\* it gets: without --rm "without touching Docker" is true of a dry run, and a
\* persistent box is not taken away by the run that made it.
THEOREM SettledRuns == Spec => SettledRunsLeaveDocker
<1>1. ASSUME TypeOK, NEW r \in Runs, CleanupInv(r), DecidedSoFar(r), DryPlace(r),
             Settled(r), RunStep(r) \/ Straggler(r)
      PROVE  UNCHANGED docker
  <2>1. ~opt[r].rm /\ mpc[r] \notin Provisioning \cup {"executeFailed", "rm"}
    BY <1>1 DEF Settled, DryPlace, DecidedSoFar, Provisioning, Creating, InBox
  <2>2. ASSUME NEW t \in Thread, Teardown(r, t) PROVE FALSE
    <3>1. CallsTeardown(r, t)
      BY <2>2 DEF Teardown, StartTeardown, Remove, EndTeardown, SkipTeardown
    <3>2. opt[r].rm
      BY <1>1, <2>1, <3>1, HandlerTearsForRm
    <3>3. QED
      BY <2>1, <3>2
  <2>3. CASE Main(r)
    BY <2>1, <2>3
       DEF Main, MakeSeedDir, Notify, RegisterSeed, RegisterBroker, RegisterBox,
           Register, CreateSeed, BuildPlan, VerifyPlan, StartExecute, Branch,
           StartBroker, PrintPlan, AfterExecute, WriteReceipt, Provision
  <2>4. ASSUME NEW t \in Thread, RunCleanups(r, t) PROVE UNCHANGED docker
    BY <2>4 DEF RunCleanups, StartCleanups, CleanHost, EndCleanups, Leave
  <2>5. CASE Straggler(r)
    BY <2>1, <2>5 DEF Straggler
  <2>6. QED
    BY <1>1, <2>2, <2>3, <2>4, <2>5 DEF RunStep
<1>2. TypeOK /\ (\A r \in Runs : CleanupInv(r)) /\ AloneInv
      /\ (\A r \in Runs : DryPlace(r)) /\ [Next]_vars =>
        [\A r \in Runs :
           Settled(r) /\ (RunStep(r) \/ Straggler(r)) => UNCHANGED docker]_vars
  BY <1>1 DEF AloneInv
<1>3. QED
  BY <1>2, TypeCorrect, CleanupAlways, AloneAlways, DryAlways, PTL
     DEF Spec, SettledRunsLeaveDocker

-----------------------------------------------------------------------------
(* The two Onces.  Who runs the function of a Once is at work in it, and    *)
(* waits for no Once that the other goroutine has.                         *)

HoldersWork(r) ==
  exit[r] = "running" =>
    /\ boxTornDown[r].phase = "running" => CallsTeardown(r, boxTornDown[r].by)
    /\ cleanupOnce[r].phase = "running" => AtCleanups(r, cleanupOnce[r].by)

LEMMA HoldersStep ==
  ASSUME TypeOK, NEW r \in Runs, CleanupInv(r), HoldersWork(r), [Next]_vars
  PROVE  HoldersWork(r)'
<1> USE DEF TypeOK, runVars, cleanVars, tearVars, hostVars, destroyVars, Goto, At,
            HoldersWork, CallsTeardown, Cleaning, AtCleanups
<1>1. ASSUME UNCHANGED Local(r) PROVE HoldersWork(r)'
  BY <1>1 DEF Local
<1>2. CASE Main(r)
  <2>1. /\ exit[r] = "running" /\ mpc[r] \notin {"executeFailed", "rm", "return"}
        /\ UNCHANGED <<boxTornDown, cleanupOnce, ci>>
    BY <1>2 DEF Main, MakeSeedDir, Notify, RegisterSeed, RegisterBroker, RegisterBox,
         Register, CreateSeed, BuildPlan, VerifyPlan, StartExecute, Branch,
         StartBroker, PrintPlan, AfterExecute, WriteReceipt, Provision,
         Provisioning, Creating, InBox
  <2>2. hpc[r] = "cleaning" => hpc'[r] = "cleaning"
    <3>1. CASE Notify(r)
      BY <3>1 DEF Notify, CleanupInv, MadeSoFar
    <3>2. CASE ~Notify(r)
      BY <1>2, <3>2
         DEF Main, MakeSeedDir, RegisterSeed, RegisterBroker, RegisterBox,
             Register, CreateSeed, BuildPlan, VerifyPlan, StartExecute, Branch,
             StartBroker, PrintPlan, AfterExecute, WriteReceipt, Provision
    <3>3. QED
      BY <3>1, <3>2
  <2>3. ci[r] > 0 => cleanups'[r][ci[r]] = cleanups[r][ci[r]]
    <3>1. ci[r] > 0 => ci[r] \in 1..Len(cleanups[r])
      BY DEF CleanupInv, LoopPlace
    <3>2. ASSUME NEW c \in Cleanup, NEW pc, NEW next, Register(r, pc, c, next)
          PROVE  \A i \in 1..Len(cleanups[r]) : cleanups'[r][i] = cleanups[r][i]
      BY <3>2, Registering DEF Register
    <3>3. CASE RegisterSeed(r) \/ RegisterBroker(r) \/ RegisterBox(r)
      <4>1. CASE cleanups' = cleanups
        BY <4>1
      <4>2. CASE cleanups' # cleanups
        BY <3>1, <3>2, <3>3, <4>2
           DEF RegisterSeed, RegisterBroker, RegisterBox, Branch, Cleanup
      <4>3. QED
        BY <4>1, <4>2
    <3>4. CASE ~(RegisterSeed(r) \/ RegisterBroker(r) \/ RegisterBox(r))
      BY <1>2, <3>4
         DEF Main, MakeSeedDir, Notify, CreateSeed, BuildPlan, VerifyPlan,
             StartExecute, Branch, StartBroker, PrintPlan, AfterExecute,
             WriteReceipt, Provision
    <3>5. QED
      BY <3>3, <3>4
  <2>4. boxTornDown[r].by \in Thread /\ cleanupOnce[r].by \in Thread
    BY DEF Once
  <2>5. QED
    BY <2>1, <2>2, <2>3, <2>4 DEF Thread
<1>3. ASSUME NEW t \in Thread, RunCleanups(r, t) PROVE HoldersWork(r)'
  <2>1. CASE StartCleanups(r, t)
    BY <2>1 DEF StartCleanups
  <2>2. CASE CleanHost(r, t)
    BY <2>2 DEF CleanHost
  <2>3. CASE EndCleanups(r, t)
    BY <2>3 DEF EndCleanups
  <2>4. CASE Leave(r, t)
    BY <2>4 DEF Leave
  <2>5. QED
    BY <1>3, <2>1, <2>2, <2>3, <2>4 DEF RunCleanups
<1>4. ASSUME NEW t \in Thread, Teardown(r, t) PROVE HoldersWork(r)'
  <2>1. CASE StartTeardown(r, t)
    BY <2>1 DEF StartTeardown
  <2>2. CASE Remove(r, t)
    BY <2>2 DEF Remove
  <2>3. ASSUME NEW err, TeardownReturns(r, t, err), CallsTeardown(r, t),
               boxTornDown'[r].phase = "done", UNCHANGED <<exit, hpc, cleanupOnce>>
        PROVE  HoldersWork(r)'
    <3>1. mpc'[r] = mpc[r] \/ mpc[r] \in {"executeFailed", "rm"}
      BY <2>3 DEF TeardownReturns
    <3>2. QED
      BY <2>3, <3>1
  <2>4. CASE EndTeardown(r, t)
    BY <2>3, <2>4 DEF EndTeardown, Once
  <2>5. CASE SkipTeardown(r, t)
    BY <2>3, <2>5 DEF SkipTeardown
  <2>6. QED
    BY <1>4, <2>1, <2>2, <2>4, <2>5 DEF Teardown
<1>5. CASE Signal(r)
  BY <1>5 DEF Signal
<1>6. CASE Straggler(r)
  BY <1>6 DEF Straggler
<1>7. ASSUME NEW q \in Runs, RunStep(q) \/ Signal(q) \/ Straggler(q)
      PROVE  HoldersWork(r)'
  <2>1. CASE q = r
    BY <1>2, <1>3, <1>4, <1>5, <1>6, <1>7, <2>1 DEF RunStep
  <2>2. CASE q # r
    BY <1>1, <1>7, <2>2, Elsewhere
  <2>3. QED
    BY <2>1, <2>2
<1>8. ASSUME Destroy \/ Terminated \/ UNCHANGED vars PROVE HoldersWork(r)'
  BY <1>1, <1>8, OutsideTheRun
<1>9. QED
  BY <1>7, <1>8 DEF Next

LEMMA HoldersAlways == Spec => [](\A r \in Runs : HoldersWork(r))
<1>1. Init => \A r \in Runs : HoldersWork(r)
  BY DEF Init, HoldersWork, Fresh
<1>2. TypeOK /\ (\A r \in Runs : CleanupInv(r)) /\ (\A r \in Runs : HoldersWork(r))
      /\ [Next]_vars => (\A r \in Runs : HoldersWork(r))'
  <2> SUFFICES ASSUME TypeOK, \A r \in Runs : CleanupInv(r),
                      \A r \in Runs : HoldersWork(r), [Next]_vars, NEW r \in Runs
               PROVE  HoldersWork(r)'
    OBVIOUS
  <2>1. CleanupInv(r) /\ HoldersWork(r)
    OBVIOUS
  <2>2. QED
    BY <2>1, HoldersStep
<1>3. QED
  BY <1>1, <1>2, TypeCorrect, CleanupAlways, PTL DEF Spec

\* Goroutine t waits in sync.Once.Do for the other one.
Waits(r, t) ==
  \/ /\ CallsTeardown(r, t)
     /\ boxTornDown[r].phase = "running" /\ boxTornDown[r].by # t
  \/ /\ AtCleanups(r, t)
     /\ cleanupOnce[r].phase = "running" /\ cleanupOnce[r].by # t

OneGoesOn ==
  \A r \in Runs : \A t \in Thread :
    Waits(r, t) =>
      \E u \in Thread :
        (CallsTeardown(r, u) \/ AtCleanups(r, u)) /\ ~Waits(r, u)

\* Main and the signal handler never wait for each other: when one is blocked
\* in a Once the other is in runCleanups or teardownBox and is not.  It is the
\* safety half of SignalEndsRun.
THEOREM OncesDoNotDeadlock == Spec => []OneGoesOn
<1>1. TypeOK /\ (\A r \in Runs : HoldersWork(r)) => OneGoesOn
  <2> SUFFICES ASSUME TypeOK, NEW r \in Runs, HoldersWork(r), NEW t \in Thread,
                      Waits(r, t)
               PROVE  \E u \in Thread :
                        (CallsTeardown(r, u) \/ AtCleanups(r, u)) /\ ~Waits(r, u)
    BY DEF OneGoesOn
  <2> USE DEF TypeOK, HoldersWork, CallsTeardown, Cleaning, AtCleanups
  <2>1. /\ exit[r] = "running"
        /\ boxTornDown[r].by \in Thread /\ cleanupOnce[r].by \in Thread
    BY DEF Waits, Once
  <2>2. CASE boxTornDown[r].phase = "running" /\ boxTornDown[r].by # t
    <3> DEFINE u == boxTornDown[r].by
    <3>1. CallsTeardown(r, u)
      BY <2>1, <2>2
    <3>2. ~Waits(r, u)
      BY <2>1, <2>2, <3>1 DEF Waits
    <3>3. QED
      BY <2>1, <3>1, <3>2
  <2>3. CASE /\ ~(boxTornDown[r].phase = "running" /\ boxTornDown[r].by # t)
             /\ AtCleanups(r, t)
             /\ cleanupOnce[r].phase = "running" /\ cleanupOnce[r].by # t
    <3> DEFINE u == cleanupOnce[r].by
    <3>1. AtCleanups(r, u)
      BY <2>1, <2>3
    <3>2. ~(boxTornDown[r].phase = "running")
      <4>1. SUFFICES ASSUME boxTornDown[r].phase = "running", boxTornDown[r].by = t
                     PROVE  FALSE
        BY <2>3
      <4>2. CallsTeardown(r, t)
        BY <2>1, <4>1
      <4>3. QED
        BY <2>3, <4>2
    <3>3. ~Waits(r, u)
      BY <3>2 DEF Waits
    <3>4. QED
      BY <2>1, <3>1, <3>3
  <2>4. QED
    BY <2>2, <2>3 DEF Waits
<1>2. QED
  BY <1>1, TypeCorrect, HoldersAlways, PTL
=============================================================================
