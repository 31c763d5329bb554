------------------------------ MODULE BoxPlan ------------------------------
(***************************************************************************)
(* The plan of a run: box.BuildPlan makes it, Plan.VerifyEgressInvariants  *)
(* accepts or refuses it, Plan.Execute carries it out.  The guard is there *)
(* to catch regressions of our own plan, so between building and checking  *)
(* the plan may be edited: a step lost, repeated, moved, or one of its     *)
(* flags changed.                                                          *)
(*                                                                         *)
(* A step is what the guard and the engine read from its command line.     *)
(* Docker is external; what a command asks for is taken from the comments  *)
(* in internal/box.                                                        *)
(***************************************************************************)
EXTENDS Naturals, Sequences, FiniteSets

CONSTANT MaxEdits  \* how many edits a plan may have had

ASSUME EditsAssumption == MaxEdits \in Nat

Net       == {"sandbox", "bridge", "host"}  \* p.Net, p.OutboundNet, host
Container == {"box", "gateway", "other"}
Cap       == {"ALL", "NET_ADMIN", "SYS_ADMIN"}
Allowlist == {"empty", "pack", "wider"}

\* What a command line hands to a container from the host: the session's
\* broker socket, a login path under the user's home, one outside it, or
\* anything else HasHostEscape knows (-v, --device, --privileged, ...).
Grant == {"broker", "login", "outsideLogin", "escape"}

Step == [do : {"createNet", "run", "connect", "cp", "exec"}, inBox : BOOLEAN,
         on : Container, nets : SUBSET Net, internal : BOOLEAN,
         drop : SUBSET Cap, add : SUBSET Cap, grants : SUBSET Grant,
         proxy : BOOLEAN, allow : Allowlist, agent : BOOLEAN, says : BOOLEAN]

\* `says`: somewhere in its text is docker.sock (or --network host).
Bare == [do |-> "cp", inBox |-> FALSE, on |-> "box", nets |-> {},
         internal |-> FALSE, drop |-> {}, add |-> {}, grants |-> {},
         proxy |-> FALSE, allow |-> "empty", agent |-> FALSE, says |-> FALSE]

\* What BuildPlan is given: the broker's socket, the login mounts, the root
\* that confines them (buildLoginMounts gives one only with mounts), the pack's
\* allowlist, and where docker.sock is said or a flag of docker's is: nowhere, in
\* the task's text, in a login path, or in the name that the repository's
\* directory gives to everything.
Request ==
  {r \in [sock : {"none", "owned", "foreign"},
          logins : SUBSET {"login", "outsideLogin"}, root : BOOLEAN,
          allow : {"empty", "pack"}, says : {"nothing", "task", "login", "name"}] :
     r.logins = {} => ~r.root /\ r.says # "login"}

VARIABLES
  req,       \* the request
  plan,      \* the plan's steps
  edits,     \* how many edits it has had
  phase,     \* "build", "edit", "run", "done", "failed", "refused", "noPlan"
  next,      \* the step Execute comes to next
  sandbox,   \* the sandbox net: "absent", "internal" or "routed"
  conts,     \* the containers that exist, with what they were given
  agentRan   \* the agent has been started

vars == <<req, plan, edits, phase, next, sandbox, conts, agentRan>>

-----------------------------------------------------------------------------
(* BuildPlan.                                                              *)

ValidBrokerSock(sock) == sock = "owned"
ValidLogin(r, m)      == r.root /\ m = "login"

\* The fail-closed checks at the top of BuildPlan.
Buildable(r) ==
  /\ r.sock # "none" => ValidBrokerSock(r.sock)
  /\ \A m \in r.logins : ValidLogin(r, m)

\* What every command on the host has: the name.
Named(r) == [Bare EXCEPT !.says = (r.says = "name")]

CreateNet(r) == [Named(r) EXCEPT !.do = "createNet", !.nets = {"sandbox"},
                                 !.internal = TRUE]
RunGateway(r) == [Named(r) EXCEPT !.do = "run", !.on = "gateway",
                    !.nets = {"sandbox"}, !.drop = {"ALL"}, !.proxy = TRUE,
                    !.allow = r.allow]
ConnectGateway(r) == [Named(r) EXCEPT !.do = "connect", !.on = "gateway",
                                      !.nets = {"bridge"}]
RunBox(r) == [Bare EXCEPT !.do = "run", !.nets = {"sandbox"}, !.drop = {"ALL"},
                !.grants = r.logins \cup (IF r.sock = "none" THEN {} ELSE {"broker"}),
                !.says = (r.says \in {"login", "name"})]
\* Mutant: the seed is mounted, not copied.
MountSeed(r) == [Bare EXCEPT !.do = "mount", !.grants = {"escape"}]
CopySeed(r) == Named(r)
SeedBox  == [Bare EXCEPT !.do = "exec", !.inBox = TRUE]
ExecAgent(r) == [SeedBox EXCEPT !.agent = TRUE,
                   !.grants = IF r.says = "task" THEN {"escape"} ELSE {},
                   !.says = (r.says = "task")]

\* Mutant: the gateway is connected before it is there.
BuildConnectFirst(r) ==
  <<CreateNet(r), ConnectGateway(r), RunGateway(r), RunBox(r), CopySeed(r),
    SeedBox, ExecAgent(r)>>

\* The copies of the seed are one step here, and so are the commands in the
\* box before the agent.
BuildPlan(r) ==
  <<CreateNet(r), RunGateway(r), ConnectGateway(r), RunBox(r), CopySeed(r),
    SeedBox, ExecAgent(r)>>

-----------------------------------------------------------------------------
(* Plan.VerifyEgressInvariants.                                            *)

IsContainerCreate(s) == s.do = "run"

\* The two exceptions, stripped from the box's own create command only.
Sanctioned(r) ==
  (IF ValidBrokerSock(r.sock) THEN {"broker"} ELSE {})
  \cup {m \in r.logins : ValidLogin(r, m)}
Remaining(r, s) ==
  IF IsContainerCreate(s) /\ s.on = "box" THEN s.grants \ Sanctioned(r)
  ELSE s.grants

\* Mutant: a re-added capability is overlooked.
DropsNetAdminOnly(s) == s.drop \cap {"ALL", "NET_ADMIN"} # {}

DropsNetAdmin(s) ==
  /\ s.drop \cap {"ALL", "NET_ADMIN"} # {}
  /\ s.add \cap {"ALL", "NET_ADMIN"} = {}

HasHostEscape(r, s) ==
  Remaining(r, s) # {} \/ s.add \cap {"ALL", "SYS_ADMIN"} # {}

CreatesSandbox(s) == s.do = "createNet" /\ s.nets = {"sandbox"}

\* The text is looked for in the whole command, the two exceptions included.
StepAccepted(r, s) ==
  /\ ~s.inBox => ~HasHostEscape(r, s) /\ ~s.says
  /\ IsContainerCreate(s) /\ ~s.inBox => "host" \notin s.nets
  /\ IsContainerCreate(s) => s.nets = {"sandbox"} /\ DropsNetAdmin(s)
  /\ CreatesSandbox(s) => s.internal
  /\ s.do = "connect" /\ s.on = "gateway" => s.nets = {"bridge"}
  /\ ~(s.do = "connect" /\ s.on = "other")

Connects(p, c) == {i \in 1..Len(p) : p[i].do = "connect" /\ p[i].on = c}
Gateways(p) == {i \in 1..Len(p) : IsContainerCreate(p[i]) /\ p[i].on = "gateway"}

\* Mutant: any allowlist will do.
AnyAllowlistAccepted(r, p) ==
  /\ Cardinality(Connects(p, "gateway")) = 1
  /\ \A i \in Gateways(p) : r.allow # "empty" /\ p[i].allow # "empty"
  /\ \E i \in Gateways(p) : p[i].proxy /\ \A j \in Gateways(p) : j <= i

\* The whole plan: of several gateways the last decides about the command,
\* every one must have the allowlist.
GatewayAccepted(r, p) ==
  /\ Cardinality(Connects(p, "gateway")) = 1
  /\ \A i \in Gateways(p) : r.allow # "empty" /\ p[i].allow = r.allow
  /\ \E i \in Gateways(p) : p[i].proxy /\ \A j \in Gateways(p) : j <= i

VerifyEgressInvariants(r, p) ==
  /\ \A i \in 1..Len(p) : StepAccepted(r, p[i])
  /\ \E i \in 1..Len(p) : CreatesSandbox(p[i])
  /\ Connects(p, "box") = {}
  /\ GatewayAccepted(r, p)

-----------------------------------------------------------------------------
(* Actions.                                                                *)

Init ==
  /\ req \in Request
  /\ plan = <<>>
  /\ edits = 0
  /\ phase = "build"
  /\ next = 1
  /\ sandbox = "absent"
  /\ conts = <<>>
  /\ agentRan = FALSE

engineVars == <<next, sandbox, conts, agentRan>>

Build ==
  /\ phase = "build"
  /\ IF Buildable(req) THEN phase' = "edit" /\ plan' = BuildPlan(req)
     ELSE phase' = "noPlan" /\ UNCHANGED plan
  /\ UNCHANGED <<req, edits, engineVars>>

\* One flag of a step changed.
Changed(s) ==
  {[s EXCEPT !.on = c] : c \in IF s.do \in {"run", "connect"} THEN Container ELSE {}}
  \cup {[s EXCEPT !.nets = {n}] : n \in IF s.do = "cp" \/ s.inBox THEN {} ELSE Net}
  \cup (IF s.do = "createNet" THEN {[s EXCEPT !.internal = FALSE]} ELSE {})
  \cup (IF s.do # "run" THEN {} ELSE
          {[s EXCEPT !.nets = N] : N \in {{}, {"sandbox", "bridge"}}}
          \cup {[s EXCEPT !.drop = D] : D \in {{}, {"NET_ADMIN"}, {"SYS_ADMIN"}}}
          \cup {[s EXCEPT !.add = @ \cup {c}] : c \in Cap}
          \cup {[s EXCEPT !.grants = @ \cup {g}] : g \in Grant}
          \cup {[s EXCEPT !.proxy = ~@]}
          \cup {[s EXCEPT !.allow = a] : a \in Allowlist})

Lost(p, i)     == SubSeq(p, 1, i - 1) \o SubSeq(p, i + 1, Len(p))
Repeated(p, i) == SubSeq(p, 1, i) \o SubSeq(p, i, Len(p))
Moved(p, i, j) == LET rest == Lost(p, i)
                  IN SubSeq(rest, 1, j - 1) \o <<p[i]>> \o SubSeq(rest, j, Len(rest))

Edit ==
  /\ phase = "edit"
  /\ edits < MaxEdits
  /\ edits' = edits + 1
  /\ \E i \in 1..Len(plan) :
       \/ plan' = Lost(plan, i)
       \/ plan' = Repeated(plan, i)
       \/ \E j \in 1..Len(plan) : plan' = Moved(plan, i, j)
       \/ \E s \in Changed(plan[i]) : plan' = [plan EXCEPT ![i] = s]
  /\ UNCHANGED <<req, phase, engineVars>>

Verify ==
  /\ phase = "edit"
  /\ phase' = IF VerifyEgressInvariants(req, plan) THEN "run" ELSE "refused"
  /\ UNCHANGED <<req, plan, edits, engineVars>>

\* Docker: a run without --network joins the bridge.
Joins(s) == IF s.nets = {} THEN {"bridge"} ELSE s.nets
Exists(c) == c \in DOMAIN conts

Accepts(s) ==
  CASE s.do = "createNet" -> s.nets = {"sandbox"} /\ sandbox = "absent"
    [] s.do = "run"       -> /\ ~Exists(s.on)
                             /\ "sandbox" \in s.nets => sandbox # "absent"
    [] s.do = "connect"   -> /\ Exists(s.on) /\ s.nets \cap conts[s.on].nets = {}
                             /\ "sandbox" \in s.nets => sandbox # "absent"
    [] OTHER              -> Exists("box")

\* NET_ADMIN is gone only if it was dropped and not added again.
HasNetAdmin(s) == s.drop \cap {"ALL", "NET_ADMIN"} = {}
                  \/ s.add \cap {"ALL", "NET_ADMIN"} # {}

\* What becomes of the containers.
Effect(s) ==
  CASE s.do = "run" ->
         [c \in DOMAIN conts \cup {s.on} |->
            IF c # s.on THEN conts[c]
            ELSE [nets |-> Joins(s), netAdmin |-> HasNetAdmin(s),
                  grants |-> s.grants, proxy |-> s.proxy, allow |-> s.allow]]
    [] s.do = "connect" -> [conts EXCEPT ![s.on].nets = @ \cup s.nets]
    [] OTHER -> conts

\* Plan.Execute: the next step, or the end at the first error.
Execute ==
  /\ phase = "run"
  /\ next <= Len(plan)
  /\ LET s == plan[next]
     IN IF Accepts(s)
        THEN /\ conts' = Effect(s)
             /\ sandbox' = IF s.do # "createNet" THEN sandbox
                           ELSE IF s.internal THEN "internal" ELSE "routed"
             /\ agentRan' = (agentRan \/ s.agent)
             /\ next' = next + 1
             /\ UNCHANGED phase
        ELSE phase' = "failed" /\ UNCHANGED engineVars
  /\ UNCHANGED <<req, plan, edits>>

Finish ==
  /\ phase = "run"
  /\ next > Len(plan)
  /\ phase' = "done"
  /\ UNCHANGED <<req, plan, edits, engineVars>>

Terminated == phase \in {"done", "failed", "refused", "noPlan"} /\ UNCHANGED vars

Next == Build \/ Edit \/ Verify \/ Execute \/ Finish \/ Terminated

Spec == Init /\ [][Next]_vars

-----------------------------------------------------------------------------
(* Properties.                                                             *)

Given == [nets : SUBSET Net, netAdmin : BOOLEAN, grants : SUBSET Grant,
          proxy : BOOLEAN, allow : Allowlist]

\* Types of the variables.
TypeOK ==
  /\ req \in Request
  /\ \A i \in DOMAIN plan : plan[i] \in Step
  /\ edits \in 0..MaxEdits
  /\ phase \in {"build", "edit", "run", "done", "failed", "refused", "noPlan"}
  /\ next \in 1..(Len(plan) + 1)
  /\ sandbox \in {"absent", "internal", "routed"}
  /\ DOMAIN conts \subseteq Container /\ \A c \in DOMAIN conts : conts[c] \in Given
  /\ agentRan \in BOOLEAN

Wanted(r) == r.allow # "empty" /\ r.says \notin {"login", "name"}

\* The plan BuildPlan makes is refused for two reasons only, whatever socket,
\* logins and task it is made for: the pack allows no host, or a login path or
\* the name says docker.sock (the task may).  Otherwise it is the plan the
\* guard wants, with its steps in an order in which Docker accepts every one.
BuiltPlanRuns ==
  edits = 0 =>
    /\ phase = "refused" => ~Wanted(req)
    /\ phase \in {"run", "done"} => Wanted(req)
    /\ phase # "failed"
    /\ phase = "done" => agentRan

\* However the plan was edited, a container of an accepted plan that is not
\* the gateway is on the internal net alone, cannot change its routes and has
\* nothing of the host but, for the box, the two exceptions.
BoxHasNoWayOut ==
  \A c \in DOMAIN conts \ {"gateway"} :
    /\ conts[c].nets = {"sandbox"} /\ sandbox = "internal"
    /\ ~conts[c].netAdmin
    /\ conts[c].grants \subseteq IF c = "box" THEN Sanctioned(req) ELSE {}

\* However the plan was edited, whatever joins the sandbox to the outside is
\* the proxy with the pack's own allowlist, without NET_ADMIN and with nothing
\* of the host: in an accepted plan with one gateway step.  Of several the guard
\* lets the last decide, and Execute may come to that one after the agent.
OnlyTheProxyLeadsOut ==
  (\A i, j \in Gateways(plan) : i = j) =>
    \A c \in DOMAIN conts :
      "bridge" \in conts[c].nets =>
        /\ c = "gateway" /\ conts[c].proxy /\ conts[c].allow = req.allow
        /\ ~conts[c].netAdmin /\ conts[c].grants = {}
=============================================================================
