--------------------------- MODULE BoxPlanProofs ---------------------------
(***************************************************************************)
(* What the guard makes sure of, for every plan that any number of edits   *)
(* makes of BuildPlan's.                                                   *)
(***************************************************************************)
EXTENDS BoxPlan, SequenceTheorems, FiniteSetTheorems, TLAPS

\* A command that runs in the box is none of docker's.
PlanStep == {s \in Step : s.inBox => s.do = "exec"}

-----------------------------------------------------------------------------
(* Edits of a plan are plans.                                              *)

LEMMA PiecesArePlans ==
  ASSUME NEW S, NEW p \in Seq(S), NEW m \in Nat \ {0}, NEW n \in 0..Len(p)
  PROVE  SubSeq(p, m, n) \in Seq(S)
<1>1. \A k \in m..n : p[k] \in S
  BY ElementOfSeq, LenProperties
<1>2. QED
  BY <1>1, SubSeqProperties, LenProperties

LEMMA LostIsPlan ==
  ASSUME NEW S, NEW p \in Seq(S), NEW i \in 1..Len(p)
  PROVE  Lost(p, i) \in Seq(S)
<1>1. Len(p) \in Nat
  BY LenProperties
<1>2. SubSeq(p, 1, i - 1) \in Seq(S) /\ SubSeq(p, i + 1, Len(p)) \in Seq(S)
  BY <1>1, PiecesArePlans
<1>3. QED
  BY <1>2, ConcatProperties DEF Lost

LEMMA RepeatedIsPlan ==
  ASSUME NEW S, NEW p \in Seq(S), NEW i \in 1..Len(p)
  PROVE  Repeated(p, i) \in Seq(S)
<1>1. Len(p) \in Nat
  BY LenProperties
<1>2. SubSeq(p, 1, i) \in Seq(S) /\ SubSeq(p, i, Len(p)) \in Seq(S)
  BY <1>1, PiecesArePlans
<1>3. QED
  BY <1>2, ConcatProperties DEF Repeated

LEMMA MovedIsPlan ==
  ASSUME NEW S, NEW p \in Seq(S), NEW i \in 1..Len(p), NEW j \in 1..Len(p)
  PROVE  Moved(p, i, j) \in Seq(S)
<1> DEFINE rest == Lost(p, i)
<1>1. Len(p) \in Nat /\ p[i] \in S
  BY LenProperties, ElementOfSeq
<1>2. rest \in Seq(S)
  BY LostIsPlan
<1>3. Len(rest) = Len(p) - 1
  <2>1. \A k \in 1..(i - 1) : p[k] \in S
    BY <1>1, ElementOfSeq
  <2>2. \A k \in (i + 1)..Len(p) : p[k] \in S
    BY <1>1, ElementOfSeq
  <2> DEFINE front == SubSeq(p, 1, i - 1)
             back  == SubSeq(p, i + 1, Len(p))
  <2>3. front \in Seq(S) /\ Len(front) = i - 1
    BY <1>1, <2>1, SubSeqProperties
  <2>4. back \in Seq(S) /\ Len(back) = Len(p) - i
    BY <1>1, <2>2, SubSeqProperties
  <2>5. rest = front \o back
    BY DEF Lost
  <2> HIDE DEF front, back, rest
  <2>6. Len(front \o back) = Len(front) + Len(back)
    BY <2>3, <2>4, ConcatProperties
  <2>7. QED
    BY <1>1, <2>3, <2>4, <2>5, <2>6
<1> HIDE DEF rest
<1>4. SubSeq(rest, 1, j - 1) \in Seq(S) /\ SubSeq(rest, j, Len(rest)) \in Seq(S)
  BY <1>1, <1>2, <1>3, PiecesArePlans
<1>5. <<p[i]>> \in Seq(S)
  BY <1>1
<1>6. QED
  BY <1>4, <1>5, ConcatProperties DEF Moved, rest

LEMMA ChangedIsStep ==
  ASSUME NEW s \in PlanStep
  PROVE  Changed(s) \subseteq PlanStep
<1> USE DEF PlanStep, Step
<1>1. \A c \in Container : [s EXCEPT !.on = c] \in PlanStep
  OBVIOUS
<1>2. \A N \in SUBSET Net : [s EXCEPT !.nets = N] \in PlanStep
  OBVIOUS
<1>3. [s EXCEPT !.internal = FALSE] \in PlanStep
  OBVIOUS
<1>4. \A D \in SUBSET Cap : [s EXCEPT !.drop = D] \in PlanStep
  OBVIOUS
<1>5. \A c \in Cap : [s EXCEPT !.add = @ \cup {c}] \in PlanStep
  OBVIOUS
<1>6. \A g \in Grant : [s EXCEPT !.grants = @ \cup {g}] \in PlanStep
  OBVIOUS
<1>7. [s EXCEPT !.proxy = ~@] \in PlanStep
  OBVIOUS
<1>8. \A a \in Allowlist : [s EXCEPT !.allow = a] \in PlanStep
  OBVIOUS
<1> HIDE DEF PlanStep, Step
<1>9. {{}, {"sandbox", "bridge"}} \subseteq SUBSET Net /\ \A n \in Net : {n} \in SUBSET Net
  BY DEF Net
<1>10. {{}, {"NET_ADMIN"}, {"SYS_ADMIN"}} \subseteq SUBSET Cap
  BY DEF Cap
<1>11. SUFFICES ASSUME NEW t \in Changed(s) PROVE t \in PlanStep
  OBVIOUS
<1>12. \/ \E c \in Container : t = [s EXCEPT !.on = c]
       \/ \E n \in Net : t = [s EXCEPT !.nets = {n}]
       \/ t = [s EXCEPT !.internal = FALSE]
       \/ \E N \in {{}, {"sandbox", "bridge"}} : t = [s EXCEPT !.nets = N]
       \/ \E D \in {{}, {"NET_ADMIN"}, {"SYS_ADMIN"}} : t = [s EXCEPT !.drop = D]
       \/ \E c \in Cap : t = [s EXCEPT !.add = @ \cup {c}]
       \/ \E g \in Grant : t = [s EXCEPT !.grants = @ \cup {g}]
       \/ t = [s EXCEPT !.proxy = ~@]
       \/ \E a \in Allowlist : t = [s EXCEPT !.allow = a]
  BY DEF Changed
<1>13. QED
  BY <1>1, <1>2, <1>3, <1>4, <1>5, <1>6, <1>7, <1>8, <1>9, <1>10, <1>12

-----------------------------------------------------------------------------
(* Types.                                                                  *)

\* The sequence is one of steps, and nothing is executed before it is fixed.
Typed ==
  /\ TypeOK
  /\ plan \in Seq(PlanStep)
  /\ phase \in {"build", "edit"} => next = 1

LEMMA BuiltPlanIsPlan ==
  ASSUME NEW r \in Request
  PROVE  BuildPlan(r) \in Seq(PlanStep)
<1> USE DEF PlanStep, Step, Bare, Request, Net, Cap, Container, Allowlist, Grant
<1>1. CreateNet(r) \in PlanStep /\ ConnectGateway(r) \in PlanStep
  BY DEF CreateNet, ConnectGateway, Named
<1>2. RunGateway(r) \in PlanStep
  BY DEF RunGateway, Named
<1>3. RunBox(r) \in PlanStep
  <2>1. /\ r.logins \cup (IF r.sock = "none" THEN {} ELSE {"broker"}) \in SUBSET Grant
        /\ (r.says \in {"login", "name"}) \in BOOLEAN
    OBVIOUS
  <2>2. QED
    BY <2>1 DEF RunBox
<1>4. CopySeed(r) \in PlanStep /\ SeedBox \in PlanStep
  BY DEF CopySeed, SeedBox, Named
<1>5. ExecAgent(r) \in PlanStep
  BY DEF ExecAgent, SeedBox
<1> HIDE DEF PlanStep
<1>6. QED
  BY <1>1, <1>2, <1>3, <1>4, <1>5 DEF BuildPlan

LEMMA EditIsPlan ==
  ASSUME plan \in Seq(PlanStep), Edit
  PROVE  plan' \in Seq(PlanStep)
<1>1. PICK i \in 1..Len(plan) :
        \/ plan' = Lost(plan, i)
        \/ plan' = Repeated(plan, i)
        \/ \E j \in 1..Len(plan) : plan' = Moved(plan, i, j)
        \/ \E s \in Changed(plan[i]) : plan' = [plan EXCEPT ![i] = s]
  BY DEF Edit
<1>2. CASE plan' = Lost(plan, i)
  BY <1>2, LostIsPlan
<1>3. CASE plan' = Repeated(plan, i)
  BY <1>3, RepeatedIsPlan
<1>4. CASE \E j \in 1..Len(plan) : plan' = Moved(plan, i, j)
  BY <1>4, MovedIsPlan
<1>5. CASE \E s \in Changed(plan[i]) : plan' = [plan EXCEPT ![i] = s]
  <2>1. plan[i] \in PlanStep
    BY ElementOfSeq
  <2>2. PICK s \in PlanStep : plan' = [plan EXCEPT ![i] = s]
    BY <1>5, <2>1, ChangedIsStep
  <2>3. QED
    BY <2>2, ExceptSeq
<1>6. QED
  BY <1>1, <1>2, <1>3, <1>4, <1>5

\* A step changes one container at most, and that one gets what it asks for.
LEMMA EffectTyped ==
  ASSUME DOMAIN conts \subseteq Container, \A c \in DOMAIN conts : conts[c] \in Given,
         NEW s \in PlanStep, Accepts(s)
  PROVE  /\ DOMAIN Effect(s) \subseteq Container
         /\ \A c \in DOMAIN Effect(s) : Effect(s)[c] \in Given
<1>1. CASE s.do = "run"
  <2>1. Effect(s) =
          [c \in DOMAIN conts \cup {s.on} |->
            IF c # s.on THEN conts[c]
            ELSE [nets |-> Joins(s), netAdmin |-> HasNetAdmin(s),
                  grants |-> s.grants, proxy |-> s.proxy, allow |-> s.allow]]
    BY <1>1 DEF Effect
  <2>2. [nets |-> Joins(s), netAdmin |-> HasNetAdmin(s), grants |-> s.grants,
         proxy |-> s.proxy, allow |-> s.allow] \in Given
    <3>1. Joins(s) \in SUBSET Net
      BY DEF PlanStep, Step, Joins, Net
    <3>2. HasNetAdmin(s) \in BOOLEAN
      BY DEF HasNetAdmin
    <3>3. s.grants \in SUBSET Grant /\ s.proxy \in BOOLEAN /\ s.allow \in Allowlist
      BY DEF PlanStep, Step
    <3>4. QED
      BY <3>1, <3>2, <3>3 DEF Given
  <2>3. s.on \in Container
    BY DEF PlanStep, Step
  <2>4. QED
    BY <2>1, <2>2, <2>3
<1>2. CASE s.do = "connect"
  <2>1. Effect(s) = [conts EXCEPT ![s.on].nets = @ \cup s.nets]
    BY <1>2 DEF Effect
  <2>2. s.nets \in SUBSET Net
    BY DEF PlanStep, Step
  <2>3. QED
    BY <2>1, <2>2 DEF Given
<1>3. CASE s.do \notin {"run", "connect"}
  BY <1>3 DEF Effect
<1>4. QED
  BY <1>1, <1>2, <1>3

LEMMA TypedInit == Init => Typed
<1> SUFFICES ASSUME Init PROVE Typed
  OBVIOUS
<1>1. plan \in Seq(PlanStep) /\ Len(plan) = 0 /\ DOMAIN plan = {}
  BY EmptySeq DEF Init
<1>2. DOMAIN conts = {}
  BY DEF Init
<1>3. next \in 1..(Len(plan) + 1) /\ edits \in 0..MaxEdits
  BY <1>1, EditsAssumption DEF Init
<1>4. /\ \A i \in DOMAIN plan : plan[i] \in Step
      /\ DOMAIN conts \subseteq Container /\ \A c \in DOMAIN conts : conts[c] \in Given
  BY <1>1, <1>2
<1>5. /\ req \in Request /\ next = 1 /\ agentRan \in BOOLEAN
      /\ phase \in {"build", "edit", "run", "done", "failed", "refused", "noPlan"}
      /\ sandbox \in {"absent", "internal", "routed"}
  BY DEF Init
<1>6. QED
  BY <1>1, <1>3, <1>4, <1>5 DEF Typed, TypeOK

LEMMA TypedStep == Typed /\ [Next]_vars => Typed'
<1> SUFFICES ASSUME Typed, [Next]_vars PROVE Typed'
  OBVIOUS
<1> USE EditsAssumption DEF Typed, TypeOK, engineVars
<1>1. ASSUME plan' \in Seq(PlanStep) PROVE \A i \in DOMAIN plan' : plan'[i] \in Step
  <2>1. DOMAIN plan' = 1..Len(plan')
    BY <1>1, LenProperties
  <2>2. QED
    BY <1>1, <2>1, ElementOfSeq DEF PlanStep
<1>2. CASE Build
  <2>1. plan' \in Seq(PlanStep)
    BY <1>2, BuiltPlanIsPlan DEF Build
  <2>2. Len(plan') \in Nat
    BY <2>1, LenProperties
  <2>3. QED
    BY <1>1, <1>2, <2>1, <2>2 DEF Build
<1>3. CASE Edit
  <2>1. plan' \in Seq(PlanStep)
    BY <1>3, EditIsPlan
  <2>2. Len(plan') \in Nat
    BY <2>1, LenProperties
  <2>3. QED
    BY <1>1, <1>3, <2>1, <2>2 DEF Edit
<1>4. CASE Verify
  BY <1>4 DEF Verify
<1>5. CASE Execute
  <2>1. Len(plan) \in Nat
    BY LenProperties
  <2>2. plan[next] \in PlanStep
    BY <1>5, <2>1, ElementOfSeq DEF Execute
  <2>3. CASE Accepts(plan[next])
    <3>1. DOMAIN conts' \subseteq Container /\ \A c \in DOMAIN conts' : conts'[c] \in Given
      BY <1>5, <2>2, <2>3, EffectTyped DEF Execute
    <3>2. agentRan' \in BOOLEAN
      BY <1>5, <2>2, <2>3 DEF Execute, PlanStep, Step
    <3>3. next' = next + 1 /\ phase' = "run" /\ UNCHANGED <<req, plan, edits>>
      BY <1>5, <2>3 DEF Execute
    <3>4. sandbox' \in {"absent", "internal", "routed"}
      BY <1>5, <2>3 DEF Execute
    <3>5. next' \in 1..(Len(plan') + 1)
      BY <1>5, <2>1, <3>3 DEF Execute
    <3>6. QED
      BY <3>1, <3>2, <3>3, <3>4, <3>5
  <2>4. CASE ~Accepts(plan[next])
    BY <1>5, <2>4 DEF Execute
  <2>5. QED
    BY <2>3, <2>4
<1>6. CASE Finish
  BY <1>6 DEF Finish
<1>7. CASE UNCHANGED vars
  BY <1>7 DEF vars
<1>8. QED
  BY <1>2, <1>3, <1>4, <1>5, <1>6, <1>7 DEF Next, Terminated

LEMMA TypedAlways == Spec => []Typed
BY TypedInit, TypedStep, PTL DEF Spec

\* Every variable keeps its type, however often the plan is edited.
THEOREM TypeCorrect == Spec => []TypeOK
<1>1. Typed => TypeOK
  BY DEF Typed
<1>2. QED
  BY <1>1, TypedAlways, PTL

-----------------------------------------------------------------------------
(* Isolation.  The two properties follow from what each container was made *)
(* with: a container that is not the gateway was made by an accepted step  *)
(* and never connected to anything, the gateway was made by one of the     *)
(* plan's gateway steps, and the plan they were accepted in is the one     *)
(* carried out.                                                            *)

Accepted ==
  phase \in {"run", "done", "failed"} => VerifyEgressInvariants(req, plan)

NothingYet ==
  phase \in {"build", "edit", "refused", "noPlan"} => DOMAIN conts = {}

GatewayFromPlan ==
  "gateway" \in DOMAIN conts =>
    /\ ~conts["gateway"].netAdmin /\ conts["gateway"].grants = {}
    /\ \E i \in Gateways(plan) :
         /\ conts["gateway"].proxy = plan[i].proxy
         /\ conts["gateway"].allow = plan[i].allow

Isolated ==
  /\ Accepted
  /\ NothingYet
  /\ sandbox \in {"absent", "internal"}
  /\ BoxHasNoWayOut
  /\ GatewayFromPlan

\* What an accepted command can make.
LEMMA AcceptedRun ==
  ASSUME NEW r, NEW s \in PlanStep, StepAccepted(r, s), s.do = "run"
  PROVE  /\ Joins(s) = {"sandbox"}
         /\ ~HasNetAdmin(s)
         /\ s.grants \subseteq IF s.on = "box" THEN Sanctioned(r) ELSE {}
<1>1. ~s.inBox /\ IsContainerCreate(s)
  BY DEF PlanStep, Step, IsContainerCreate
<1>2. s.nets = {"sandbox"} /\ DropsNetAdmin(s) /\ Remaining(r, s) = {}
  BY <1>1 DEF StepAccepted, HasHostEscape
<1>3. Joins(s) = {"sandbox"}
  BY <1>2 DEF Joins
<1>4. ~HasNetAdmin(s)
  BY <1>2 DEF DropsNetAdmin, HasNetAdmin
<1>5. s.grants \subseteq IF s.on = "box" THEN Sanctioned(r) ELSE {}
  BY <1>1, <1>2 DEF Remaining
<1>6. QED
  BY <1>3, <1>4, <1>5

LEMMA IsolatedInit == Init => Isolated
<1> SUFFICES ASSUME Init PROVE Isolated
  OBVIOUS
<1>1. DOMAIN conts = {}
  BY DEF Init
<1>2. phase = "build" /\ sandbox = "absent"
  BY DEF Init
<1>3. QED
  BY <1>1, <1>2
     DEF Isolated, Accepted, NothingYet, BoxHasNoWayOut, GatewayFromPlan

LEMMA ExecuteIsolated ==
  ASSUME Typed, Isolated, Execute
  PROVE  Isolated'
<1> DEFINE s == plan[next]
<1>1. /\ phase = "run" /\ UNCHANGED <<req, plan>>
      /\ phase' \in {"run", "failed"}
  BY DEF Execute
<1>2. /\ next \in 1..Len(plan) /\ s \in PlanStep
      /\ StepAccepted(req, s) /\ Connects(plan, "box") = {}
  <2>1. Len(plan) \in Nat /\ next \in 1..Len(plan)
    BY LenProperties DEF Typed, TypeOK, Execute
  <2>2. s \in PlanStep
    BY <2>1, ElementOfSeq DEF Typed
  <2>3. VerifyEgressInvariants(req, plan)
    BY <1>1 DEF Isolated, Accepted
  <2>4. QED
    BY <2>1, <2>2, <2>3 DEF VerifyEgressInvariants
<1>3. Accepted' /\ NothingYet'
  BY <1>1 DEF Isolated, Accepted, NothingYet, VerifyEgressInvariants,
              GatewayAccepted, Connects, Gateways
<1>4. CASE ~Accepts(s)
  <2>1. UNCHANGED <<sandbox, conts>>
    BY <1>4 DEF Execute, engineVars
  <2>2. QED
    BY <1>1, <1>3, <2>1 DEF Isolated, BoxHasNoWayOut, GatewayFromPlan, Gateways
<1>5. CASE Accepts(s)
  <2>1. conts' = Effect(s)
    BY <1>5 DEF Execute
  <2>2. sandbox' \in {"absent", "internal"} /\ (sandbox # "absent" => sandbox' = sandbox)
    <3>1. CASE s.do = "createNet"
      <4>1. CreatesSandbox(s) /\ sandbox = "absent"
        BY <1>5, <3>1 DEF Accepts, CreatesSandbox
      <4>2. s.internal
        BY <1>2, <4>1 DEF StepAccepted
      <4>3. QED
        BY <1>5, <3>1, <4>1, <4>2 DEF Execute
    <3>2. CASE s.do # "createNet"
      BY <1>5, <3>2 DEF Execute, Isolated
    <3>3. QED
      BY <3>1, <3>2
  <2>3. CASE s.do = "run"
    <3>1. /\ Joins(s) = {"sandbox"} /\ ~HasNetAdmin(s)
          /\ s.grants \subseteq IF s.on = "box" THEN Sanctioned(req) ELSE {}
      BY <1>2, <2>3, AcceptedRun
    <3>2. "sandbox" \in s.nets
      BY <3>1 DEF Joins
    <3>3. sandbox' = "internal"
      BY <1>5, <2>2, <2>3, <3>2 DEF Accepts
    <3>4. /\ DOMAIN conts' = DOMAIN conts \cup {s.on}
          /\ \A c \in DOMAIN conts : c # s.on => conts'[c] = conts[c]
          /\ conts'[s.on] =
               [nets |-> Joins(s), netAdmin |-> HasNetAdmin(s),
                grants |-> s.grants, proxy |-> s.proxy, allow |-> s.allow]
      BY <2>1, <2>3 DEF Effect
    <3>5. BoxHasNoWayOut'
      <4>1. ASSUME NEW c \in DOMAIN conts' \ {"gateway"}
            PROVE  /\ conts'[c].nets = {"sandbox"} /\ ~conts'[c].netAdmin
                   /\ conts'[c].grants \subseteq
                        IF c = "box" THEN Sanctioned(req) ELSE {}
        <5>1. CASE c = s.on
          BY <3>1, <3>4, <5>1
        <5>2. CASE c # s.on
          BY <3>4, <4>1, <5>2 DEF Isolated, BoxHasNoWayOut
        <5>3. QED
          BY <5>1, <5>2
      <4>2. QED
        BY <1>1, <3>3, <4>1 DEF BoxHasNoWayOut, Sanctioned, ValidBrokerSock, ValidLogin
    <3>6. GatewayFromPlan'
      <4>1. CASE s.on = "gateway"
        <5>1. next \in Gateways(plan)
          BY <1>2, <2>3, <4>1 DEF Gateways, IsContainerCreate
        <5>2. conts'["gateway"].grants = {} /\ ~conts'["gateway"].netAdmin
          BY <3>1, <3>4, <4>1
        <5>3. /\ conts'["gateway"].proxy = plan[next].proxy
              /\ conts'["gateway"].allow = plan[next].allow
          BY <3>4, <4>1
        <5>4. QED
          BY <1>1, <5>1, <5>2, <5>3 DEF GatewayFromPlan, Gateways
      <4>2. CASE s.on # "gateway"
        BY <1>1, <3>4, <4>2 DEF Isolated, GatewayFromPlan, Gateways
      <4>3. QED
        BY <4>1, <4>2
    <3>7. QED
      BY <1>3, <2>2, <3>5, <3>6 DEF Isolated
  <2>4. CASE s.do = "connect"
    <3>1. s.on = "gateway"
      BY <1>2, <2>4 DEF StepAccepted, Connects, PlanStep, Step, Container
    <3>2. conts' = [conts EXCEPT !["gateway"].nets = @ \cup s.nets]
      BY <2>1, <2>4, <3>1 DEF Effect
    <3>3. sandbox' = sandbox
      BY <1>5, <2>4 DEF Execute
    <3>4. BoxHasNoWayOut'
      BY <1>1, <3>2, <3>3
         DEF Isolated, BoxHasNoWayOut, Sanctioned, ValidBrokerSock, ValidLogin
    <3>5. GatewayFromPlan'
      <4>1. CASE "gateway" \in DOMAIN conts
        <5>1. conts["gateway"] \in Given
          BY <4>1 DEF Typed, TypeOK
        <5>2. /\ conts'["gateway"].netAdmin = conts["gateway"].netAdmin
              /\ conts'["gateway"].grants = conts["gateway"].grants
              /\ conts'["gateway"].proxy = conts["gateway"].proxy
              /\ conts'["gateway"].allow = conts["gateway"].allow
          BY <3>2, <4>1, <5>1 DEF Given
        <5>3. QED
          BY <1>1, <4>1, <5>2 DEF Isolated, GatewayFromPlan, Gateways
      <4>2. CASE "gateway" \notin DOMAIN conts
        BY <3>2, <4>2 DEF GatewayFromPlan
      <4>3. QED
        BY <4>1, <4>2
    <3>6. QED
      BY <1>3, <2>2, <3>4, <3>5 DEF Isolated
  <2>5. CASE s.do \notin {"run", "connect"}
    <3>1. conts' = conts
      BY <2>1, <2>5 DEF Effect
    <3>2. QED
      BY <1>1, <1>3, <2>2, <3>1
         DEF Isolated, BoxHasNoWayOut, GatewayFromPlan, Gateways, Sanctioned,
             ValidBrokerSock, ValidLogin
  <2>6. QED
    BY <2>3, <2>4, <2>5
<1>6. QED
  BY <1>4, <1>5

LEMMA IsolatedStep == Typed /\ Isolated /\ [Next]_vars => Isolated'
<1> SUFFICES ASSUME Typed, Isolated, [Next]_vars PROVE Isolated'
  OBVIOUS
<1>1. ASSUME DOMAIN conts = {}, UNCHANGED <<conts, sandbox>>,
             phase' \in {"build", "edit", "refused", "noPlan"}
      PROVE  Isolated'
  BY <1>1 DEF Isolated, Accepted, NothingYet, BoxHasNoWayOut, GatewayFromPlan
<1>2. CASE Build
  BY <1>1, <1>2 DEF Build, engineVars, Isolated, NothingYet
<1>3. CASE Edit
  BY <1>1, <1>3 DEF Edit, engineVars, Isolated, NothingYet
<1>4. CASE Verify
  <2>1. DOMAIN conts = {} /\ UNCHANGED <<conts, sandbox, req, plan>>
    BY <1>4 DEF Verify, engineVars, Isolated, NothingYet
  <2>2. CASE VerifyEgressInvariants(req, plan)
    <3>1. Accepted'
      BY <2>1, <2>2 DEF Accepted, VerifyEgressInvariants, GatewayAccepted,
                        Connects, Gateways
    <3>2. QED
      BY <1>4, <2>1, <2>2, <3>1
         DEF Verify, Isolated, NothingYet, BoxHasNoWayOut, GatewayFromPlan
  <2>3. CASE ~VerifyEgressInvariants(req, plan)
    BY <1>1, <1>4, <2>1, <2>3 DEF Verify
  <2>4. QED
    BY <2>2, <2>3
<1>5. CASE Execute
  BY <1>5, ExecuteIsolated
<1>6. ASSUME UNCHANGED <<req, plan, conts, sandbox>>,
             phase' = phase \/ (phase = "run" /\ phase' = "done")
      PROVE  Isolated'
  BY <1>6 DEF Isolated, Accepted, NothingYet, BoxHasNoWayOut, GatewayFromPlan,
              VerifyEgressInvariants, GatewayAccepted, Connects, Gateways,
              Sanctioned, ValidBrokerSock, ValidLogin
<1>7. CASE Finish
  BY <1>6, <1>7 DEF Finish, engineVars
<1>8. CASE UNCHANGED vars
  <2>1. UNCHANGED <<req, plan, conts, sandbox>> /\ phase' = phase
    BY <1>8 DEF vars
  <2>2. QED
    BY <1>6, <2>1
<1>9. QED
  BY <1>2, <1>3, <1>4, <1>5, <1>7, <1>8 DEF Next, Terminated

LEMMA IsolatedAlways == Spec => []Isolated
BY IsolatedInit, IsolatedStep, TypedAlways, PTL DEF Spec

\* However often the plan is edited, a container of an accepted plan that is
\* not the gateway has no way out and nothing of the host but the exceptions.
THEOREM NoWayOut == Spec => []BoxHasNoWayOut
<1>1. Isolated => BoxHasNoWayOut
  BY DEF Isolated
<1>2. QED
  BY <1>1, IsolatedAlways, PTL

\* However often the plan is edited, an accepted plan with one gateway step
\* leads out through the proxy only.
THEOREM ProxyOnly == Spec => []OnlyTheProxyLeadsOut
<1>1. Typed /\ Isolated => OnlyTheProxyLeadsOut
  <2> SUFFICES ASSUME Typed, Isolated, \A i, j \in Gateways(plan) : i = j,
                      NEW c \in DOMAIN conts, "bridge" \in conts[c].nets
               PROVE  /\ c = "gateway" /\ conts[c].proxy /\ conts[c].allow = req.allow
                      /\ ~conts[c].netAdmin /\ conts[c].grants = {}
    BY DEF OnlyTheProxyLeadsOut
  <2>1. c = "gateway"
    BY DEF Isolated, BoxHasNoWayOut
  <2>2. PICK i \in Gateways(plan) :
          conts[c].proxy = plan[i].proxy /\ conts[c].allow = plan[i].allow
    BY <2>1 DEF Isolated, GatewayFromPlan
  <2>3. ~conts[c].netAdmin /\ conts[c].grants = {}
    BY <2>1 DEF Isolated, GatewayFromPlan
  <2>4. plan[i].proxy /\ plan[i].allow = req.allow
    <3>1. VerifyEgressInvariants(req, plan)
      BY <2>1 DEF Typed, TypeOK, Isolated, Accepted, NothingYet
    <3>2. QED
      BY <2>2, <3>1 DEF VerifyEgressInvariants, GatewayAccepted
  <2>5. QED
    BY <2>1, <2>2, <2>3, <2>4
<1>2. QED
  BY <1>1, TypedAlways, IsolatedAlways, PTL

-----------------------------------------------------------------------------
(* The plan as BuildPlan makes it.                                         *)

LEMMA BuiltSteps ==
  ASSUME NEW r, NEW p, p = BuildPlan(r)
  PROVE  /\ Len(p) = 7
         /\ p[1] = CreateNet(r) /\ p[2] = RunGateway(r) /\ p[3] = ConnectGateway(r)
         /\ p[4] = RunBox(r) /\ p[5] = CopySeed(r) /\ p[6] = SeedBox
         /\ p[7] = ExecAgent(r)
BY DEF BuildPlan

LEMMA BuiltFields ==
  ASSUME NEW r, NEW p, p = BuildPlan(r)
  PROVE  /\ p[1].do = "createNet" /\ p[1].nets = {"sandbox"} /\ p[1].internal
         /\ p[2].do = "run" /\ p[2].on = "gateway" /\ p[2].nets = {"sandbox"}
         /\ p[2].proxy /\ p[2].allow = r.allow
         /\ p[3].do = "connect" /\ p[3].on = "gateway" /\ p[3].nets = {"bridge"}
         /\ p[4].do = "run" /\ p[4].on = "box" /\ p[4].nets = {"sandbox"}
         /\ ~p[4].inBox /\ p[4].says = (r.says \in {"login", "name"})
         /\ p[5].do = "cp" /\ p[6].do = "exec" /\ p[7].do = "exec" /\ p[7].agent
<1>1. /\ CreateNet(r).do = "createNet" /\ CreateNet(r).nets = {"sandbox"}
      /\ CreateNet(r).internal
  BY DEF Bare, Named, CreateNet
<1>2. /\ RunGateway(r).do = "run" /\ RunGateway(r).on = "gateway"
      /\ RunGateway(r).nets = {"sandbox"} /\ RunGateway(r).proxy
      /\ RunGateway(r).allow = r.allow
  BY DEF Bare, Named, RunGateway
<1>3. /\ ConnectGateway(r).do = "connect" /\ ConnectGateway(r).on = "gateway"
      /\ ConnectGateway(r).nets = {"bridge"}
  BY DEF Bare, Named, ConnectGateway
<1>4. /\ RunBox(r).do = "run" /\ RunBox(r).on = "box"
      /\ RunBox(r).nets = {"sandbox"} /\ ~RunBox(r).inBox
      /\ RunBox(r).says = (r.says \in {"login", "name"})
  BY DEF Bare, RunBox
<1>5. CopySeed(r).do = "cp" /\ SeedBox.do = "exec"
  BY DEF Bare, Named, CopySeed, SeedBox
<1>6. ExecAgent(r).do = "exec" /\ ExecAgent(r).agent
  BY DEF Bare, SeedBox, ExecAgent
<1>7. QED
  BY <1>1, <1>2, <1>3, <1>4, <1>5, <1>6, BuiltSteps

\* A step that drops what it must, joins what it may, asks for nothing but the
\* exceptions and does not say what it must not.
LEMMA HarmlessAccepted ==
  ASSUME NEW r, NEW s, s.inBox \/ ~s.says,
         \/ s.do = "exec" /\ s.inBox
         \/ s.do = "cp" /\ s.add = {} /\ s.grants = {}
         \/ s.do = "createNet" /\ s.internal /\ s.add = {} /\ s.grants = {}
         \/ /\ s.do = "connect" /\ s.on = "gateway" /\ s.nets = {"bridge"}
            /\ s.add = {} /\ s.grants = {}
         \/ /\ s.do = "run" /\ s.nets = {"sandbox"} /\ s.drop = {"ALL"}
            /\ s.add = {}
            /\ s.grants = {} \/ (s.on = "box" /\ s.grants \subseteq Sanctioned(r))
  PROVE  StepAccepted(r, s)
<1>1. ASSUME s.add = {}, Remaining(r, s) = {} PROVE ~HasHostEscape(r, s)
  BY <1>1 DEF HasHostEscape
<1>2. CASE s.do = "run"
  <2>1. Remaining(r, s) = {}
    BY <1>2 DEF Remaining, IsContainerCreate
  <2>2. DropsNetAdmin(s)
    BY <1>2 DEF DropsNetAdmin
  <2>3. QED
    BY <1>1, <1>2, <2>1, <2>2 DEF StepAccepted, IsContainerCreate, CreatesSandbox
<1>3. CASE s.do # "run" /\ s.grants = {} /\ s.add = {}
  <2>1. Remaining(r, s) = {}
    BY <1>3 DEF Remaining, IsContainerCreate
  <2>2. QED
    BY <1>1, <1>3, <2>1 DEF StepAccepted, IsContainerCreate, CreatesSandbox
<1>4. CASE s.do = "exec" /\ s.inBox
  BY <1>4 DEF StepAccepted, IsContainerCreate, CreatesSandbox
<1>5. QED
  BY <1>2, <1>3, <1>4

\* The guard accepts it, unless the pack allows nothing or a path or the name
\* says docker.sock.
LEMMA BuiltPlanAccepted ==
  ASSUME NEW r \in Request, Buildable(r), Wanted(r)
  PROVE  VerifyEgressInvariants(r, BuildPlan(r))
<1> DEFINE p == BuildPlan(r)
<1>1. /\ Len(p) = 7
      /\ p[1] = CreateNet(r) /\ p[2] = RunGateway(r) /\ p[3] = ConnectGateway(r)
      /\ p[4] = RunBox(r) /\ p[5] = CopySeed(r) /\ p[6] = SeedBox
      /\ p[7] = ExecAgent(r)
  BY BuiltSteps
<1> HIDE DEF p
<1>2. ASSUME NEW i \in 1..7 PROVE StepAccepted(r, p[i])
  <2> USE DEF Wanted, Bare, Named, CreateNet, RunGateway, ConnectGateway, RunBox, CopySeed, SeedBox,
              ExecAgent
  <2>1. StepAccepted(r, CreateNet(r))
    <3>1. /\ CreateNet(r).do = "createNet" /\ CreateNet(r).internal
          /\ ~CreateNet(r).says /\ CreateNet(r).add = {} /\ CreateNet(r).grants = {}
      OBVIOUS
    <3>2. QED
      BY <3>1, HarmlessAccepted
  <2>2. StepAccepted(r, RunGateway(r))
    <3>1. /\ RunGateway(r).do = "run" /\ RunGateway(r).nets = {"sandbox"}
          /\ RunGateway(r).drop = {"ALL"} /\ RunGateway(r).add = {}
          /\ RunGateway(r).grants = {} /\ ~RunGateway(r).says
      OBVIOUS
    <3>2. QED
      BY <3>1, HarmlessAccepted
  <2>3. StepAccepted(r, ConnectGateway(r))
    <3>1. /\ ConnectGateway(r).do = "connect" /\ ConnectGateway(r).nets = {"bridge"}
          /\ ConnectGateway(r).add = {} /\ ConnectGateway(r).grants = {}
          /\ ConnectGateway(r).on = "gateway" /\ ~ConnectGateway(r).says
      OBVIOUS
    <3>2. QED
      BY <3>1, HarmlessAccepted
  <2>4. StepAccepted(r, RunBox(r))
    <3>1. /\ RunBox(r).do = "run" /\ RunBox(r).on = "box"
          /\ RunBox(r).nets = {"sandbox"} /\ RunBox(r).drop = {"ALL"}
          /\ RunBox(r).add = {} /\ ~RunBox(r).says
          /\ RunBox(r).grants = r.logins \cup
                                (IF r.sock = "none" THEN {} ELSE {"broker"})
      OBVIOUS
    <3>2. RunBox(r).grants \subseteq Sanctioned(r)
      BY <3>1 DEF Sanctioned, Buildable
    <3>3. QED
      BY <3>1, <3>2, HarmlessAccepted
  <2>5. StepAccepted(r, CopySeed(r))
    <3>1. /\ CopySeed(r).do = "cp" /\ CopySeed(r).add = {} /\ CopySeed(r).grants = {}
          /\ ~CopySeed(r).says
      OBVIOUS
    <3>2. QED
      BY <3>1, HarmlessAccepted
  <2>6. StepAccepted(r, SeedBox)
    <3>1. SeedBox.do = "exec" /\ SeedBox.inBox
      OBVIOUS
    <3>2. QED
      BY <3>1, HarmlessAccepted
  <2>7. StepAccepted(r, ExecAgent(r))
    <3>1. ExecAgent(r).do = "exec" /\ ExecAgent(r).inBox
      OBVIOUS
    <3>2. QED
      BY <3>1, HarmlessAccepted
  <2>8. i \in {1, 2, 3, 4, 5, 6, 7}
    OBVIOUS
  <2> HIDE DEF Bare, Named, CreateNet, RunGateway, ConnectGateway, RunBox, CopySeed,
               SeedBox, ExecAgent
  <2>9. QED
    BY <1>1, <2>1, <2>2, <2>3, <2>4, <2>5, <2>6, <2>7, <2>8
<1>3. /\ p[1].do = "createNet" /\ p[1].nets = {"sandbox"} /\ p[1].internal
      /\ p[2].do = "run" /\ p[2].on = "gateway" /\ p[2].nets = {"sandbox"}
      /\ p[2].proxy /\ p[2].allow = r.allow
      /\ p[3].do = "connect" /\ p[3].on = "gateway" /\ p[3].nets = {"bridge"}
      /\ p[4].do = "run" /\ p[4].on = "box" /\ p[4].nets = {"sandbox"}
      /\ p[5].do = "cp" /\ p[6].do = "exec" /\ p[7].do = "exec" /\ p[7].agent
  BY BuiltFields DEF p
<1>4. CreatesSandbox(p[1])
  BY <1>3 DEF CreatesSandbox
<1>5. Connects(p, "box") = {} /\ Connects(p, "gateway") = {3}
  <2>1. Connects(p, "box") = {i \in {1, 2, 3, 4, 5, 6, 7} :
                               p[i].do = "connect" /\ p[i].on = "box"}
    BY <1>1 DEF Connects
  <2>2. Connects(p, "gateway") = {i \in {1, 2, 3, 4, 5, 6, 7} :
                                   p[i].do = "connect" /\ p[i].on = "gateway"}
    BY <1>1 DEF Connects
  <2>3. QED
    BY <1>3, <2>1, <2>2
<1>6. Gateways(p) = {2}
  <2>1. Gateways(p) = {i \in {1, 2, 3, 4, 5, 6, 7} :
                         p[i].do = "run" /\ p[i].on = "gateway"}
    BY <1>1 DEF Gateways, IsContainerCreate
  <2>2. QED
    BY <1>3, <2>1
<1>7. GatewayAccepted(r, p)
  <2>1. Cardinality(Connects(p, "gateway")) = 1
    BY <1>5, FS_Singleton
  <2>2. \A i \in Gateways(p) : r.allow # "empty" /\ p[i].allow = r.allow
    BY <1>3, <1>6 DEF Wanted
  <2>3. \E i \in Gateways(p) : p[i].proxy /\ \A j \in Gateways(p) : j <= i
    BY <1>3, <1>6
  <2>4. QED
    BY <2>1, <2>2, <2>3 DEF GatewayAccepted
<1>8. QED
  BY <1>1, <1>2, <1>4, <1>5, <1>7 DEF VerifyEgressInvariants, p

LEMMA UnwantedPlanRefused ==
  ASSUME NEW r \in Request, ~Wanted(r)
  PROVE  ~VerifyEgressInvariants(r, BuildPlan(r))
<1> DEFINE p == BuildPlan(r)
<1>1. /\ Len(p) = 7
      /\ p[2].do = "run" /\ p[2].on = "gateway"
      /\ ~p[4].inBox /\ p[4].says = (r.says \in {"login", "name"})
  BY BuiltSteps, BuiltFields
<1> HIDE DEF p
<1>2. CASE r.allow = "empty"
  <2>1. 2 \in Gateways(p)
    BY <1>1 DEF Gateways, IsContainerCreate
  <2>2. ~GatewayAccepted(r, p)
    BY <1>2, <2>1 DEF GatewayAccepted
  <2>3. QED
    BY <2>2 DEF VerifyEgressInvariants, p
<1>3. CASE r.says \in {"login", "name"}
  <2>1. ~p[4].inBox /\ p[4].says
    BY <1>1, <1>3
  <2>2. ~StepAccepted(r, p[4])
    BY <2>1 DEF StepAccepted
  <2>3. 4 \in 1..Len(p)
    BY <1>1
  <2>4. QED
    BY <2>2, <2>3 DEF VerifyEgressInvariants, p
<1>4. QED
  BY <1>2, <1>3 DEF Wanted

\* What is there when the engine comes to a step of it.
Progress ==
  /\ sandbox = "absent" <=> next = 1
  /\ "gateway" \in DOMAIN conts <=> next > 2
  /\ next = 3 => conts["gateway"].nets = {"sandbox"}
  /\ "box" \in DOMAIN conts <=> next > 4
  /\ next = 8 => agentRan

AsBuilt ==
  edits = 0 =>
    /\ phase # "failed"
    /\ phase = "refused" => ~Wanted(req)
    /\ phase \in {"run", "done"} => Wanted(req)
    /\ phase \in {"edit", "run", "done"} =>
         plan = BuildPlan(req) /\ Buildable(req)
    /\ phase \in {"build", "edit", "run"} => Progress
    /\ phase = "done" => agentRan

LEMMA ExecuteAsBuilt ==
  ASSUME Typed, AsBuilt, Execute, edits = 0
  PROVE  Progress' /\ phase' = "run"
<1> DEFINE s == plan[next]
<1>1. plan = BuildPlan(req) /\ Len(plan) = 7
  BY BuiltSteps DEF AsBuilt, Execute
<1>2. next \in {1, 2, 3, 4, 5, 6, 7} /\ phase = "run" /\ Progress
  BY <1>1 DEF Typed, TypeOK, Execute, AsBuilt
<1>3. /\ next = 1 => s.do = "createNet" /\ s.nets = {"sandbox"} /\ s.internal
      /\ next = 2 => s.do = "run" /\ s.on = "gateway" /\ s.nets = {"sandbox"}
      /\ next = 3 => s.do = "connect" /\ s.on = "gateway" /\ s.nets = {"bridge"}
      /\ next = 4 => s.do = "run" /\ s.on = "box" /\ s.nets = {"sandbox"}
      /\ next \in {5, 6, 7} => s.do \in {"cp", "exec"}
      /\ next = 7 => s.agent
  BY <1>1, <1>2, BuiltFields
<1> HIDE DEF s
<1>4. Accepts(s)
  BY <1>2, <1>3 DEF Accepts, Exists, Progress
<1>5. /\ conts' = Effect(s)
      /\ sandbox' = IF s.do # "createNet" THEN sandbox
                    ELSE IF s.internal THEN "internal" ELSE "routed"
      /\ agentRan' = (agentRan \/ s.agent)
      /\ next' = next + 1
      /\ phase' = "run"
  BY <1>2, <1>4 DEF Execute, s
<1>6. /\ sandbox' = "absent" <=> next' = 1
      /\ next' = 8 => agentRan'
  <2>1. next' # 1 /\ (next' = 8 => next = 7)
    BY <1>2, <1>5
  <2>2. sandbox' # "absent"
    <3>1. CASE next = 1
      BY <1>3, <1>5, <3>1
    <3>2. CASE next # 1
      BY <1>2, <1>3, <1>5, <3>2 DEF Progress
    <3>3. QED
      BY <3>1, <3>2
  <2>3. ASSUME next = 7 PROVE agentRan'
    <3>1. s.agent
      BY <1>3, <2>3
    <3>2. QED
      BY <1>5, <3>1
  <2>4. QED
    BY <2>1, <2>2, <2>3
<1>7. /\ "gateway" \in DOMAIN conts' <=> next' > 2
      /\ next' = 3 => conts'["gateway"].nets = {"sandbox"}
      /\ "box" \in DOMAIN conts' <=> next' > 4
  <2>1. CASE s.do = "run"
    BY <1>2, <1>3, <1>5, <2>1 DEF Effect, Joins, Progress
  <2>2. CASE s.do = "connect"
    BY <1>2, <1>3, <1>5, <2>2 DEF Effect, Progress
  <2>3. CASE s.do \in {"createNet", "cp", "exec"}
    BY <1>2, <1>3, <1>5, <2>3 DEF Effect, Progress
  <2>4. QED
    BY <1>2, <1>3, <2>1, <2>2, <2>3
<1>8. QED
  BY <1>5, <1>6, <1>7 DEF Progress

LEMMA AsBuiltStep == Typed /\ AsBuilt /\ [Next]_vars => AsBuilt'
<1> SUFFICES ASSUME Typed, AsBuilt, [Next]_vars, edits' = 0
             PROVE  AsBuilt'
  BY DEF AsBuilt
<1>1. CASE Build
  <2>1. edits = 0 /\ req' = req /\ phase = "build" /\ Progress
    BY <1>1 DEF Build, AsBuilt
  <2>2. Progress'
    BY <1>1, <2>1 DEF Build, engineVars, Progress
  <2>3. QED
    BY <1>1, <2>1, <2>2 DEF Build, AsBuilt
<1>2. CASE Edit
  BY <1>2 DEF Edit, Typed, TypeOK
<1>3. CASE Verify
  <2>1. /\ edits = 0 /\ req' = req /\ plan' = plan /\ phase = "edit"
        /\ Progress /\ plan = BuildPlan(req) /\ Buildable(req)
    BY <1>3 DEF Verify, AsBuilt
  <2>2. req \in Request /\ Progress'
    BY <1>3, <2>1 DEF Verify, engineVars, Progress, Typed, TypeOK
  <2>3. CASE Wanted(req)
    <3>1. phase' = "run"
      BY <1>3, <2>1, <2>2, <2>3, BuiltPlanAccepted DEF Verify
    <3>2. QED
      BY <2>1, <2>2, <2>3, <3>1 DEF AsBuilt, Wanted
  <2>4. CASE ~Wanted(req)
    <3>1. phase' = "refused"
      BY <1>3, <2>1, <2>2, <2>4, UnwantedPlanRefused DEF Verify
    <3>2. QED
      BY <2>1, <2>4, <3>1 DEF AsBuilt, Wanted
  <2>5. QED
    BY <2>3, <2>4
<1>4. CASE Execute
  <2>1. UNCHANGED <<req, plan, edits>> /\ phase = "run"
    BY <1>4 DEF Execute
  <2>2. Progress' /\ phase' = "run"
    BY <1>4, <2>1, ExecuteAsBuilt
  <2>3. QED
    BY <2>1, <2>2 DEF AsBuilt
<1>5. CASE Finish
  <2>1. /\ edits = 0 /\ req' = req /\ plan' = plan /\ phase = "run"
        /\ phase' = "done" /\ next > Len(plan) /\ agentRan' = agentRan
    BY <1>5 DEF Finish, engineVars
  <2>2. Len(plan) = 7 /\ Progress
    BY <2>1, BuiltSteps DEF AsBuilt
  <2>3. agentRan
    BY <2>1, <2>2 DEF Typed, TypeOK, Progress
  <2>4. QED
    BY <2>1, <2>3 DEF AsBuilt
<1>6. CASE UNCHANGED vars
  BY <1>6 DEF vars, AsBuilt, Progress
<1>7. QED
  BY <1>1, <1>2, <1>3, <1>4, <1>5, <1>6 DEF Next, Terminated

\* The plan BuildPlan makes is refused exactly if the pack allows no host or a
\* login path or the name says docker.sock, and otherwise it runs to the agent.
THEOREM GuardAcceptsTheBuilt == Spec => []BuiltPlanRuns
<1>1. Init => AsBuilt
  BY DEF Init, AsBuilt, Progress
<1>2. AsBuilt => BuiltPlanRuns
  BY DEF AsBuilt, BuiltPlanRuns
<1>3. QED
  BY <1>1, <1>2, AsBuiltStep, TypedAlways, PTL DEF Spec
=============================================================================
