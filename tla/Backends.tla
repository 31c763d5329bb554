------------------------------ MODULE Backends ------------------------------
(***************************************************************************)
(* Which backend a run gets (backend.Detect, Select), and the run on the   *)
(* Apple one, which the source calls unverified: BuildApplePlan makes its  *)
(* plan, VerifyAppleInvariants accepts or refuses it, Execute carries it   *)
(* out.  There is no internal net: what confines the box is the firewall   *)
(* that `runclave lockdown` sets up in it.  Docker's plan is in BoxPlan.   *)
(*                                                                         *)
(* The guard looks for words in a step's command line, and the last one    *)
(* has the user's task in it: a step is what it does and what it says.     *)
(***************************************************************************)
EXTENDS Naturals, Sequences

CONSTANT MaxSeeds  \* how many commands the seed may take in the box

Driver == {"apple-container", "docker"}
Strength(d) == IF d = "apple-container" THEN 2 ELSE 1

Word == {"lockdown", "proxy", "escape"}
Deed == {"createNet", "runGateway", "runBox", "lockdown", "copy", "seed", "probe", "agent"}
Step == [does : Deed, says : SUBSET Word, inBox : BOOLEAN,
         allow : {"none", "pack", "longer"}, bestEffort : BOOLEAN]

\* What cmdHere has for the builder: whether there is a broker socket, login
\* mounts, a domain in the pack; how many files are copied into the box and how
\* many commands unpack them there; the words in the task.
Request == [sock : BOOLEAN, logins : BOOLEAN, allow : {"none", "pack"},
            copies : 0..3, seeds : 0..MaxSeeds, task : SUBSET Word]

VARIABLES
  os,        \* runtime.GOOS is darwin
  up,        \* the drivers whose command line tool answers
  want,      \* --backend, or ""
  driver,    \* the one that was selected
  req,
  plan,
  phase,     \* "select", "build", "verify", "run", "done", "failed", "refused", "docker"
  next,      \* the step Execute comes to next
  locked,    \* the box's firewall is set up
  open,      \* a command has run in the box without it
  gateway,   \* the allowlist of the gateway that runs
  agentRan

vars == <<os, up, want, driver, req, plan, phase, next, locked, open, gateway, agentRan>>

-----------------------------------------------------------------------------
(* Selection.                                                              *)

Candidates == IF os = "darwin" THEN Driver ELSE {"docker"}
Detect     == Candidates \cap up

\* The first in the sorted list.
Strongest(D) == CHOOSE d \in D : \A e \in D : Strength(d) >= Strength(e)

-----------------------------------------------------------------------------
(* The plan.                                                               *)

Buildable(r) == ~r.sock /\ ~r.logins /\ r.allow # "none"

HostStep(deed) == [does |-> deed, says |-> {}, inBox |-> FALSE, allow |-> "none",
                   bestEffort |-> FALSE]
BoxStep(deed)  == [HostStep(deed) EXCEPT !.inBox = TRUE]

CreateNet     == HostStep("createNet")
RunGateway(r) == [HostStep("runGateway") EXCEPT !.says = {"proxy"}, !.allow = r.allow]
RunBox        == HostStep("runBox")
Lockdown      == [BoxStep("lockdown") EXCEPT !.says = {"lockdown"}]
Copy          == HostStep("copy")
Seed          == BoxStep("seed")
Probe         == [BoxStep("probe") EXCEPT !.bestEffort = TRUE]
ExecAgent(r)  == [BoxStep("agent") EXCEPT !.says = r.task]

Size(r) == r.copies + r.seeds + 6

BuildApplePlan(r) ==
  [i \in 1..Size(r) |->
     CASE i = 1 -> CreateNet
       [] i = 2 -> RunGateway(r)
       [] i = 3 -> RunBox
       [] i = 4 -> Lockdown
       [] i \in 5..(r.copies + 4) -> Copy
       [] i \in (r.copies + 5)..(Size(r) - 2) -> Seed
       [] i = Size(r) - 1 -> Probe
       [] i = Size(r) -> ExecAgent(r)]

\* The allowlist is looked for as text: one that only begins with the pack's
\* is found too.
VerifyAppleInvariants(p) ==
  /\ \A i \in 1..Len(p) : "escape" \in p[i].says => p[i].inBox
  /\ \E i \in 1..Len(p) : p[i].inBox /\ "lockdown" \in p[i].says
  /\ \E i \in 1..Len(p) : "proxy" \in p[i].says /\ p[i].allow \in {"pack", "longer"}
  /\ \E i \in 1..Len(p) : p[i].does = "agent"

-----------------------------------------------------------------------------
Init ==
  /\ os \in {"darwin", "other"}
  /\ up \in SUBSET Driver
  /\ want \in Driver \cup {"", "unknown"}
  /\ driver = "none"
  /\ req \in Request
  /\ plan = <<>>
  /\ phase = "select"
  /\ next = 1
  /\ locked = FALSE
  /\ open = FALSE
  /\ gateway = "none"
  /\ agentRan = FALSE

boxVars == <<next, locked, open, gateway, agentRan>>

Refuse == phase' = "refused" /\ UNCHANGED <<driver, plan>>

Select ==
  /\ phase = "select"
  /\ \/ /\ Detect = {} \/ want \notin Detect \cup {""}
        /\ Refuse
     \/ /\ Detect # {} /\ want \in Detect \cup {""}
        /\ driver' = IF want = "" THEN Strongest(Detect) ELSE want
        /\ phase' = IF driver' = "docker" THEN "docker" ELSE "build"
        /\ UNCHANGED plan
  /\ UNCHANGED <<os, up, want, req, boxVars>>

Build ==
  /\ phase = "build"
  /\ \/ ~Buildable(req) /\ Refuse
     \/ /\ Buildable(req)
        /\ plan' = BuildApplePlan(req)
        /\ phase' = "verify"
        /\ UNCHANGED driver
  /\ UNCHANGED <<os, up, want, req, boxVars>>

Verify ==
  /\ phase = "verify"
  /\ phase' = IF VerifyAppleInvariants(plan) THEN "run" ELSE "refused"
  /\ UNCHANGED <<os, up, want, driver, req, plan, boxVars>>

\* A step succeeds, or it fails and ends the run unless it is best effort.
Execute ==
  /\ phase = "run"
  /\ next <= Len(plan)
  /\ LET s == plan[next]
     IN \/ /\ next' = next + 1
           /\ locked' = (locked \/ s.does = "lockdown")
           /\ gateway' = IF s.does = "runGateway" THEN s.allow ELSE gateway
           /\ agentRan' = (agentRan \/ s.does = "agent")
           /\ open' = (open \/ (s.inBox /\ s.does # "lockdown" /\ ~locked))
           /\ UNCHANGED phase
        \/ /\ s.bestEffort
           /\ next' = next + 1
           /\ UNCHANGED <<locked, gateway, agentRan, open, phase>>
        \/ /\ ~s.bestEffort
           /\ phase' = "failed"
           /\ UNCHANGED boxVars
  /\ UNCHANGED <<os, up, want, driver, req, plan>>

Finish ==
  /\ phase = "run"
  /\ next > Len(plan)
  /\ phase' = "done"
  /\ UNCHANGED <<os, up, want, driver, req, plan, boxVars>>

Next == Select \/ Build \/ Verify \/ Execute \/ Finish

Spec == Init /\ [][Next]_vars

-----------------------------------------------------------------------------
(* Properties.                                                             *)

\* "Fail loudly, never silently degrade": what was asked for, or nothing; and
\* unasked, nothing weaker than what is there.
NeverDegraded ==
  driver # "none" =>
    /\ driver \in Detect
    /\ want # "" => driver = want
    /\ want = "" => \A d \in Detect : Strength(d) <= Strength(driver)

\* The guard refuses no plan of the builder's, whatever the task says.
BuiltPlanAccepted == phase = "refused" => plan = <<>>

\* Every command in the box but the firewall's own comes after the firewall;
\* the agent runs only behind it, with a gateway that has the pack's allowlist.
AgentLockedIn ==
  /\ ~open
  /\ agentRan => locked /\ gateway = "pack"
=============================================================================
