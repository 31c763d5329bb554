--------------------------- MODULE BackendsProofs ---------------------------
(***************************************************************************)
(* Proofs about Backends: the selection degrades nothing, and a run on the *)
(* Apple backend keeps every command in its box behind the firewall, for   *)
(* every request, every task and every number of seed steps.               *)
(***************************************************************************)
EXTENDS Backends, TLAPS

\* The selection, on its own.
SelectInv ==
  /\ phase = "select" => driver = "none"
  /\ NeverDegraded

\* A plan is the builder's, and none is there before it is built.
PlanInv ==
  /\ req \in Request
  /\ phase \in {"select", "build", "refused", "docker"} => plan = <<>>
  /\ phase \in {"verify", "run", "done", "failed"} =>
       Buildable(req) /\ plan = BuildApplePlan(req)

\* Execute passes the third and the fourth step before any other of the box.
RunInv ==
  /\ next \in Nat \ {0}
  /\ phase \in {"select", "build", "verify"} => next = 1
  /\ locked <=> next > 4
  /\ gateway = IF next > 2 THEN "pack" ELSE "none"
  /\ ~open
  /\ agentRan => next > 4

BackendInv == PlanInv /\ RunInv

LEMMA StrongestIsOne ==
  ASSUME NEW D \in SUBSET Driver, D # {}
  PROVE  Strongest(D) \in D /\ \A e \in D : Strength(Strongest(D)) >= Strength(e)
<1>1. \E d \in D : \A e \in D : Strength(d) >= Strength(e)
  <2>1. CASE "apple-container" \in D
    BY <2>1 DEF Strength, Driver
  <2>2. CASE "apple-container" \notin D
    <3>1. D = {"docker"}
      BY <2>2 DEF Driver
    <3>2. QED
      BY <3>1 DEF Strength
  <2>3. QED
    BY <2>1, <2>2
<1>2. QED
  BY <1>1 DEF Strongest

LEMMA DetectIsDriver == Detect \subseteq Driver
BY DEF Detect, Candidates, Driver

\* "Fail loudly, never silently degrade" (backend.Select).
THEOREM SelectionNeverDegrades == Spec => []NeverDegraded
<1>1. Init => SelectInv
  BY DEF Init, SelectInv, NeverDegraded
<1>2. SelectInv /\ [Next]_vars => SelectInv'
  <2> SUFFICES ASSUME SelectInv, [Next]_vars PROVE SelectInv'
    OBVIOUS
  <2> USE DEF SelectInv
  <2>1. CASE Select
    <3>1. UNCHANGED <<os, up, want>> /\ Detect' = Detect
      BY <2>1 DEF Select, Detect, Candidates
    <3>2. CASE Refuse
      BY <2>1, <3>1, <3>2 DEF Refuse, NeverDegraded, Select
    <3>3. CASE /\ Detect # {} /\ want \in Detect \cup {""}
               /\ driver' = IF want = "" THEN Strongest(Detect) ELSE want
               /\ phase' = IF driver' = "docker" THEN "docker" ELSE "build"
      <4>1. CASE want = ""
        <5>1. driver' \in Detect /\ \A e \in Detect : Strength(driver') >= Strength(e)
          BY <3>3, <4>1, StrongestIsOne, DetectIsDriver
        <5>2. \A d : Strength(d) \in Nat
          BY DEF Strength
        <5>3. \A e \in Detect : Strength(e) <= Strength(driver')
          BY <5>1, <5>2
        <5>4. NeverDegraded'
          BY <3>1, <4>1, <5>1, <5>3 DEF NeverDegraded, Strength
        <5>5. QED
          BY <3>3, <5>4
      <4>2. CASE want # ""
        BY <3>1, <3>3, <4>2 DEF NeverDegraded
      <4>3. QED
        BY <4>1, <4>2
    <3>4. QED
      BY <2>1, <3>2, <3>3 DEF Select
  <2>2. CASE Build
    BY <2>2 DEF Build, Refuse, NeverDegraded, Detect, Candidates, Strength
  <2>3. CASE Verify
    BY <2>3 DEF Verify, NeverDegraded, Detect, Candidates, Strength
  <2>4. CASE Execute
    <3>1. UNCHANGED <<os, up, want, driver>> /\ phase' # "select"
      BY <2>4 DEF Execute
    <3>2. QED
      BY <3>1 DEF NeverDegraded, Detect, Candidates, Strength
  <2>5. CASE Finish
    BY <2>5 DEF Finish, NeverDegraded, Detect, Candidates, Strength
  <2>6. CASE UNCHANGED vars
    BY <2>6 DEF vars, NeverDegraded, Detect, Candidates, Strength
  <2>7. QED
    BY <2>1, <2>2, <2>3, <2>4, <2>5, <2>6 DEF Next
<1>3. QED
  BY <1>1, <1>2, PTL DEF Spec, SelectInv

-----------------------------------------------------------------------------
(* The run on the Apple backend.                                           *)

LEMMA SizeType ==
  ASSUME MaxSeeds \in Nat, NEW r \in Request, Buildable(r)
  PROVE  /\ r.copies \in Nat /\ r.seeds \in Nat /\ r.allow = "pack"
         /\ Size(r) \in Nat /\ Size(r) >= r.copies + 6
         /\ Len(BuildApplePlan(r)) = Size(r)
<1>1. r.copies \in Nat /\ r.seeds \in Nat /\ r.allow = "pack"
  BY DEF Request, Buildable
<1>2. Size(r) \in Nat /\ Size(r) >= r.copies + 6
  BY <1>1 DEF Size
<1>3. QED
  BY <1>1, <1>2 DEF BuildApplePlan

LEMMA PlanShape ==
  ASSUME MaxSeeds \in Nat, NEW r \in Request, Buildable(r), NEW i \in 1..Size(r)
  PROVE  LET p == BuildApplePlan(r)
         IN /\ p[i].inBox /\ p[i].does # "lockdown" => i > 4
            /\ p[i].does = "lockdown" <=> i = 4
            /\ p[i].does = "runGateway" <=> i = 2
            /\ i = 2 => p[i].allow = "pack"
            /\ p[i].does = "agent" <=> i = Size(r)
            /\ p[i].bestEffort <=> i = Size(r) - 1
            /\ "escape" \in p[i].says => p[i].inBox
<1> DEFINE p == BuildApplePlan(r)
<1> USE DEF CreateNet, RunGateway, RunBox, Lockdown, Copy, Seed, Probe, ExecAgent, HostStep, BoxStep
<1>1. /\ r.copies \in Nat /\ r.allow = "pack"
      /\ Size(r) \in Nat /\ Size(r) >= r.copies + 6
  BY SizeType
<1>2. p[i] = CASE i = 1 -> CreateNet
               [] i = 2 -> RunGateway(r)
               [] i = 3 -> RunBox
               [] i = 4 -> Lockdown
               [] i \in 5..(r.copies + 4) -> Copy
               [] i \in (r.copies + 5)..(Size(r) - 2) -> Seed
               [] i = Size(r) - 1 -> Probe
               [] i = Size(r) -> ExecAgent(r)
  BY DEF BuildApplePlan
<1>3. CASE i = 1
  BY <1>1, <1>2, <1>3
<1>4. CASE i = 2
  BY <1>1, <1>2, <1>4
<1>5. CASE i = 3
  BY <1>1, <1>2, <1>5
<1>6. CASE i = 4
  BY <1>1, <1>2, <1>6
<1>7. CASE i \in 5..(r.copies + 4)
  BY <1>1, <1>2, <1>7
<1>8. CASE i \in (r.copies + 5)..(Size(r) - 2)
  BY <1>1, <1>2, <1>8
<1>9. CASE i = Size(r) - 1
  <2>1. p[i] = Probe
    BY <1>1, <1>2, <1>9
  <2>2. QED
    BY <1>1, <1>9, <2>1
<1>10. CASE i = Size(r)
  <2>1. p[i] = ExecAgent(r)
    BY <1>1, <1>2, <1>10
  <2>2. ExecAgent(r).inBox /\ ExecAgent(r).does = "agent" /\ ~ExecAgent(r).bestEffort
    OBVIOUS
  <2>3. QED
    BY <1>1, <1>10, <2>1, <2>2
<1>11. QED
  BY <1>1, <1>3, <1>4, <1>5, <1>6, <1>7, <1>8, <1>9, <1>10

\* Whatever the task says, the guard finds what it looks for.
LEMMA PlanAccepted ==
  ASSUME MaxSeeds \in Nat, NEW r \in Request, Buildable(r)
  PROVE  VerifyAppleInvariants(BuildApplePlan(r))
<1> DEFINE p == BuildApplePlan(r)
<1>1. /\ r.copies \in Nat /\ r.allow = "pack"
      /\ Size(r) \in Nat /\ Size(r) >= r.copies + 6 /\ Len(p) = Size(r)
  BY SizeType
<1>2. p[2] = RunGateway(r) /\ p[4] = Lockdown /\ 2 \in 1..Len(p) /\ 4 \in 1..Len(p)
  BY <1>1 DEF BuildApplePlan
<1>3. p[Size(r)].does = "agent" /\ Size(r) \in 1..Len(p)
  <2>1. Size(r) \in 1..Size(r)
    BY <1>1
  <2>2. p[Size(r)].does = "agent"
    BY <2>1, PlanShape
  <2>3. QED
    BY <1>1, <2>1, <2>2
<1>4. ASSUME NEW i \in 1..Len(p), "escape" \in p[i].says PROVE p[i].inBox
  <2>1. i \in 1..Size(r)
    BY <1>1
  <2>2. QED
    BY <1>4, <2>1, PlanShape
<1>5. p[4].inBox /\ "lockdown" \in p[4].says
  BY <1>2 DEF Lockdown, BoxStep, HostStep
<1>6. "proxy" \in p[2].says /\ p[2].allow = "pack"
  BY <1>1, <1>2 DEF RunGateway, HostStep
<1> HIDE DEF p
<1>7. VerifyAppleInvariants(p)
  BY <1>2, <1>3, <1>4, <1>5, <1>6 DEF VerifyAppleInvariants
<1>8. QED
  BY <1>7 DEF p

LEMMA BackendStep ==
  ASSUME MaxSeeds \in Nat
  PROVE  /\ Init => BackendInv
         /\ BackendInv /\ [Next]_vars => BackendInv'
<1>1. Init => BackendInv
  <2> SUFFICES ASSUME Init PROVE BackendInv
    OBVIOUS
  <2>1. ~locked /\ ~open /\ ~agentRan
    BY Zenon DEF Init
  <2>2. PlanInv /\ next = 1 /\ gateway = "none"
    BY DEF Init, PlanInv
  <2>3. QED
    BY <2>1, <2>2 DEF BackendInv, RunInv
<1>2. BackendInv /\ [Next]_vars => BackendInv'
  <2> SUFFICES ASSUME BackendInv, [Next]_vars PROVE BackendInv'
    OBVIOUS
  <2> USE DEF BackendInv, PlanInv, RunInv
  <2>1. CASE Select
    BY <2>1 DEF Select, Refuse, boxVars
  <2>2. CASE Build
    BY <2>2 DEF Build, Refuse, boxVars
  <2>3. CASE Verify
    BY <2>3, PlanAccepted DEF Verify, boxVars
  <2>4. CASE Execute
    <3> DEFINE s == plan[next]
    <3>1. /\ phase = "run" /\ next \in 1..Len(plan)
          /\ UNCHANGED <<req, plan>>
      BY <2>4 DEF Execute
    <3>2. /\ s.inBox /\ s.does # "lockdown" => next > 4
          /\ s.does = "lockdown" <=> next = 4
          /\ s.does = "runGateway" <=> next = 2
          /\ next = 2 => s.allow = "pack"
          /\ s.does = "agent" => next > 4
          /\ s.bestEffort => next > 4
      <4>1. next \in 1..Size(req) /\ Size(req) \in Nat /\ Size(req) >= 6
        BY <3>1, SizeType
      <4>2. QED
        BY <3>1, <4>1, PlanShape
    <3> HIDE DEF s
    <3>3. CASE /\ next' = next + 1
               /\ locked' = (locked \/ s.does = "lockdown")
               /\ gateway' = IF s.does = "runGateway" THEN s.allow ELSE gateway
               /\ agentRan' = (agentRan \/ s.does = "agent")
               /\ open' = (open \/ (s.inBox /\ s.does # "lockdown" /\ ~locked))
               /\ UNCHANGED phase
      <4>1. PlanInv'
        BY <3>1, <3>3
      <4>6. /\ locked' <=> locked \/ s.does = "lockdown"
            /\ agentRan' <=> agentRan \/ s.does = "agent"
            /\ open' <=> open \/ (s.inBox /\ s.does # "lockdown" /\ ~locked)
        BY <3>3, Zenon
      <4>2. next' \in Nat \ {0} /\ (locked' <=> next' > 4)
        <5>1. next' = next + 1
          BY <3>3
        <5>2. QED
          BY <3>1, <3>2, <4>6, <5>1
      <4>3. gateway' = IF next' > 2 THEN "pack" ELSE "none"
        BY <3>1, <3>2, <3>3
      <4>4. ~open' /\ (agentRan' => next' > 4)
        <5>1. next' = next + 1
          BY <3>3
        <5>2. QED
          BY <3>1, <3>2, <4>6, <5>1
      <4>5. QED
        BY <3>1, <3>3, <4>1, <4>2, <4>3, <4>4
    <3>4. CASE s.bestEffort /\ next' = next + 1 /\ UNCHANGED <<locked, gateway, agentRan, open, phase>>
      BY <3>1, <3>2, <3>4
    <3>5. CASE phase' = "failed" /\ UNCHANGED boxVars
      BY <3>1, <3>5 DEF boxVars
    <3>6. QED
      BY <2>4, <3>3, <3>4, <3>5 DEF Execute, s
  <2>5. CASE Finish
    BY <2>5 DEF Finish, boxVars
  <2>6. CASE UNCHANGED vars
    BY <2>6 DEF vars
  <2>7. QED
    BY <2>1, <2>2, <2>3, <2>4, <2>5, <2>6 DEF Next
<1>3. QED
  BY <1>1, <1>2

\* The guard refuses nothing that BuildApplePlan makes: a request that can be
\* built is run.
THEOREM BuiltAppleRuns ==
  ASSUME MaxSeeds \in Nat
  PROVE  Spec => []BuiltPlanAccepted
<1>1. BackendInv => BuiltPlanAccepted
  BY DEF BackendInv, PlanInv, BuiltPlanAccepted
<1>2. QED
  BY <1>1, BackendStep, PTL DEF Spec

\* No command of the seed and no agent runs in the box before its firewall is
\* up, and the agent's gateway has the pack's allowlist.
THEOREM AgentIsLockedIn ==
  ASSUME MaxSeeds \in Nat
  PROVE  Spec => []AgentLockedIn
<1>1. BackendInv => AgentLockedIn
  BY DEF BackendInv, PlanInv, RunInv, AgentLockedIn
<1>2. QED
  BY <1>1, BackendStep, PTL DEF Spec

\* That order is the builder's doing, and the guard's only in part: it accepts
\* a plan whose one command about the lockdown is the agent's own, in the words
\* of its task, behind a gateway that permits more than the pack.
THEOREM GuardMissesTheOrder ==
  ASSUME NEW r \in Request, r.task = {"lockdown"}
  PROVE  VerifyAppleInvariants(<<[RunGateway(r) EXCEPT !.allow = "longer"], ExecAgent(r)>>)
<1> DEFINE g == [RunGateway(r) EXCEPT !.allow = "longer"]
           a == ExecAgent(r)
           p == <<g, a>>
<1>1. "proxy" \in g.says /\ g.allow = "longer" /\ "escape" \notin g.says
  BY DEF RunGateway, HostStep
<1>2. a.inBox /\ a.says = {"lockdown"} /\ a.does = "agent"
  BY DEF ExecAgent, BoxStep, HostStep
<1> HIDE DEF g, a
<1>3. Len(p) = 2 /\ p[1] = g /\ p[2] = a
  OBVIOUS
<1> HIDE DEF p
<1>4. VerifyAppleInvariants(p)
  <2>1. \A i \in 1..Len(p) : i = 1 \/ i = 2
    BY <1>3
  <2>2. 1 \in 1..Len(p) /\ 2 \in 1..Len(p)
    BY <1>3
  <2>3. QED
    BY <1>1, <1>2, <1>3, <2>1, <2>2 DEF VerifyAppleInvariants
<1>5. QED
  BY <1>4 DEF p, g, a
=============================================================================
