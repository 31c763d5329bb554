---------------------------- MODULE BrokerProofs ----------------------------
(***************************************************************************)
(* For any number of clients, any limit on connections, any deadline and   *)
(* any limit on the trail: types, the semaphore, the trail and the answers *)
(* of the credential broker.                                               *)
(***************************************************************************)
EXTENDS Broker, FiniteSetTheorems, TLAPS

-----------------------------------------------------------------------------
(* The semaphore: the slots that are taken are the connections in Live.    *)

SlotInv ==
  /\ IsFiniteSet(Live)
  /\ slots = Cardinality(Live)
  /\ slots <= MaxConns

OneAccepted ==
  \A x, y \in Clients : pc[x] = "accepted" /\ pc[y] = "accepted" => x = y

LEMMA LiveHasSlot ==
  ASSUME SlotInv, NEW q \in Live
  PROVE  slots \in Nat \ {0}
<1>1. Cardinality(Live) \in Nat /\ Cardinality(Live) # 0
  BY FS_CardinalityType, FS_EmptySet DEF SlotInv
<1>2. QED
  BY <1>1 DEF SlotInv

LEMMA TypeStep == TypeOK /\ SlotInv /\ [Next]_vars => TypeOK'
<1> SUFFICES ASSUME TypeOK, SlotInv, [Next]_vars PROVE TypeOK'
  OBVIOUS
<1> USE BrokerAssumption DEF TypeOK, PC, Served
<1>1. ASSUME NEW q \in Clients, Dial(q) PROVE TypeOK'
  BY <1>1 DEF Dial, Move, anomalyVars
<1>2. ASSUME NEW q \in Clients, Send(q) \/ HangUp(q) PROVE TypeOK'
  BY <1>2 DEF Send, HangUp, anomalyVars
<1>3. ASSUME NEW q \in Clients, Accept(q) PROVE TypeOK'
  BY <1>3 DEF Accept, Move, anomalyVars
<1>4. ASSUME NEW q \in Clients, Serve(q) \/ Mint(q) PROVE TypeOK'
  <2>1. ASSUME pc[q] \in Served PROVE slots - 1 \in Nat
    BY <2>1, LiveHasSlot DEF Live
  <2>2. CASE StartServing(q)
    BY <2>2 DEF StartServing, Move, anomalyVars
  <2>3. CASE ReadRequest(q)
    BY <2>1, <2>3 DEF ReadRequest, CloseWith, Move
  <2>4. CASE ReadFails(q)
    BY <2>1, <2>4 DEF ReadFails, CloseWith, anomalyVars
  <2>5. CASE CheckTrail(q)
    BY <2>5 DEF CheckTrail, Move, anomalyVars
  <2>6. CASE LoadTrail(q)
    BY <2>6 DEF LoadTrail, Move
  <2>7. CASE AppendTrail(q)
    BY <2>7 DEF AppendTrail, Move
  <2>8. CASE Mint(q)
    BY <2>1, <2>8 DEF Mint, CloseWith, Move, anomalyVars
  <2>9. CASE Write(q)
    BY <2>1, <2>9 DEF Write, CloseWith, anomalyVars
  <2>10. QED
    BY <1>4, <2>2, <2>3, <2>4, <2>5, <2>6, <2>7, <2>8, <2>9 DEF Serve
<1>5. ASSUME Tick PROVE TypeOK'
  BY <1>5 DEF Tick, anomalyVars
<1>6. ASSUME Kill PROVE TypeOK'
  BY <1>6 DEF Kill, anomalyVars
<1>7. ASSUME Terminated \/ UNCHANGED vars PROVE TypeOK'
  BY <1>7 DEF Terminated, vars, anomalyVars
<1>8. QED
  BY <1>1, <1>2, <1>3, <1>4, <1>5, <1>6, <1>7 DEF Next

LEMMA SlotStep == TypeOK /\ SlotInv /\ [Next]_vars => SlotInv'
<1> SUFFICES ASSUME TypeOK, SlotInv, [Next]_vars PROVE SlotInv'
  OBVIOUS
<1> USE BrokerAssumption
<1>1. ASSUME NEW q \in Clients, pc[q] \notin Served, slots < MaxConns,
             pc' = [pc EXCEPT ![q] = "reading"], slots' = slots + 1
      PROVE  SlotInv'
  <2>1. Live' = Live \cup {q} /\ q \notin Live
    BY <1>1 DEF Live, Served, TypeOK
  <2>2. IsFiniteSet(Live') /\ Cardinality(Live') = Cardinality(Live) + 1
    BY <2>1, FS_AddElement DEF SlotInv
  <2>3. QED
    BY <1>1, <2>2 DEF SlotInv, TypeOK
<1>2. ASSUME NEW q \in Clients, pc[q] \in Served, NEW a, CloseWith(q, a)
      PROVE  SlotInv'
  <2>1. Live' = Live \ {q} /\ q \in Live
    BY <1>2 DEF Live, Served, TypeOK, CloseWith
  <2>2. IsFiniteSet(Live') /\ Cardinality(Live') = Cardinality(Live) - 1
    BY <2>1, FS_RemoveElement DEF SlotInv
  <2>3. QED
    BY <1>2, <2>2 DEF SlotInv, TypeOK, CloseWith
<1>3. ASSUME NEW q \in Clients, NEW to, pc' = [pc EXCEPT ![q] = to],
             pc[q] \in Served <=> to \in Served, UNCHANGED slots
      PROVE  SlotInv'
  <2>1. Live' = Live
    BY <1>3 DEF Live, TypeOK
  <2>2. QED
    BY <1>3, <2>1 DEF SlotInv
<1>4. ASSUME UNCHANGED <<pc, slots>> PROVE SlotInv'
  BY <1>4 DEF SlotInv, Live
<1>5. ASSUME NEW q \in Clients, Dial(q) \/ Send(q) \/ HangUp(q) \/ Accept(q) PROVE SlotInv'
  BY <1>3, <1>4, <1>5 DEF Dial, Send, HangUp, Accept, Move, Served
<1>6. ASSUME NEW q \in Clients, Serve(q) \/ Mint(q) PROVE SlotInv'
  <2>1. CASE StartServing(q)
    BY <1>1, <2>1 DEF StartServing, Move, Served
  <2>2. CASE ReadRequest(q)
    BY <1>2, <1>3, <2>2 DEF ReadRequest, Move, Served
  <2>3. CASE ReadFails(q) \/ Write(q)
    BY <1>2, <2>3 DEF ReadFails, Write, Served
  <2>4. CASE CheckTrail(q) \/ LoadTrail(q) \/ AppendTrail(q)
    BY <1>3, <2>4 DEF CheckTrail, LoadTrail, AppendTrail, Move, Served
  <2>5. CASE Mint(q)
    BY <1>2, <1>3, <2>5 DEF Mint, Move, Served
  <2>6. QED
    BY <1>6, <2>1, <2>2, <2>3, <2>4, <2>5 DEF Serve
<1>7. ASSUME Kill PROVE SlotInv'
  <2>1. Live' = {} /\ slots' = 0
    BY <1>7 DEF Kill, Live, Served
  <2>2. QED
    BY <2>1, FS_EmptySet DEF SlotInv
<1>8. ASSUME Tick \/ Terminated \/ UNCHANGED vars PROVE SlotInv'
  BY <1>4, <1>8 DEF Tick, Terminated, vars
<1>9. QED
  BY <1>5, <1>6, <1>7, <1>8 DEF Next

LEMMA AcceptedStep == TypeOK /\ OneAccepted /\ [Next]_vars => OneAccepted'
<1> SUFFICES ASSUME TypeOK, OneAccepted, [Next]_vars PROVE OneAccepted'
  OBVIOUS
<1> USE DEF OneAccepted, TypeOK
<1>1. ASSUME NEW q \in Clients, NEW to, pc' = [pc EXCEPT ![q] = to], to # "accepted"
      PROVE  OneAccepted'
  BY <1>1
<1>2. ASSUME NEW q \in Clients, Dial(q) \/ Send(q) \/ HangUp(q) PROVE OneAccepted'
  BY <1>1, <1>2 DEF Dial, Send, HangUp, Move
<1>3. ASSUME NEW q \in Clients, Accept(q) PROVE OneAccepted'
  BY <1>3 DEF Accept, Move
<1>4. ASSUME NEW q \in Clients, Serve(q) \/ Mint(q) PROVE OneAccepted'
  BY <1>1, <1>4 DEF Serve, StartServing, ReadRequest, ReadFails, CheckTrail,
       LoadTrail, AppendTrail, Write, Mint, CloseWith, Move
<1>5. ASSUME Kill \/ Tick \/ Terminated \/ UNCHANGED vars PROVE OneAccepted'
  BY <1>5 DEF Kill, Tick, Terminated, vars
<1>6. QED
  BY <1>2, <1>3, <1>4, <1>5 DEF Next

LEMMA Connections == Spec => [](TypeOK /\ SlotInv /\ OneAccepted)
<1>1. Init => TypeOK
  BY BrokerAssumption DEF Init, TypeOK, PC
<1>2. Init => SlotInv /\ OneAccepted
  <2>1. Init => Live = {} /\ slots = 0 /\ OneAccepted
    BY DEF Init, Live, Served, OneAccepted
  <2>2. QED
    BY <2>1, FS_EmptySet, BrokerAssumption DEF SlotInv
<1>3. QED
  BY <1>1, <1>2, TypeStep, SlotStep, AcceptedStep, PTL DEF Spec

\* Every variable of the broker has its type.
THEOREM BrokerTypes == Spec => []TypeOK
  BY Connections, PTL

\* The semaphore counts the goroutines that serve, and the peers hold at most
\* one connection more than maxConns.
THEOREM BrokerConnections == Spec => []ConnectionsBounded
<1>1. ASSUME TypeOK, SlotInv, OneAccepted PROVE ConnectionsBounded
  <2>1. Cardinality(Taken) <= MaxConns + 1
    <3>1. CASE \E q \in Clients : pc[q] = "accepted"
      <4>1. PICK q \in Clients : pc[q] = "accepted"
        BY <3>1
      <4>2. Taken = Live \cup {q}
        BY <1>1, <4>1 DEF Taken, Live, OneAccepted, Served
      <4>3. Cardinality(Taken) \in {Cardinality(Live), Cardinality(Live) + 1}
        BY <1>1, <4>2, FS_AddElement DEF SlotInv
      <4>4. QED
        BY <1>1, <4>3, BrokerAssumption DEF SlotInv, TypeOK
    <3>2. CASE ~\E q \in Clients : pc[q] = "accepted"
      <4>1. Taken = Live
        BY <3>2 DEF Taken, Live
      <4>2. QED
        BY <1>1, <4>1, BrokerAssumption DEF SlotInv, TypeOK
    <3>3. QED
      BY <3>1, <3>2
  <2>2. QED
    BY <1>1, <2>1 DEF ConnectionsBounded, SlotInv
<1>2. QED
  BY <1>1, Connections, PTL

-----------------------------------------------------------------------------
(* The trail: a goroutine that has passed the check has not appended yet.  *)

Appending == {q \in Clients : pc[q] \in {"load", "append"}}

Room == MaxAnomalies + (MaxConns - 1) + lost

\* What has been appended and what those who passed the check still will fits
\* into Room; so it does after one of them has stored the length it has read,
\* which was a length the trail has had or has lost again.
TrailInv ==
  /\ trail + Cardinality(Appending) <= Room
  /\ \A q \in Clients : pc[q] = "append" =>
       seen[q] + Cardinality(Appending) <= Room /\ seen[q] <= trail + lost

LEMMA AppendingBounded ==
  ASSUME SlotInv, MaxConns \in Nat
  PROVE  /\ IsFiniteSet(Appending) /\ Cardinality(Appending) \in Nat
         /\ \A q \in Live \ Appending : Cardinality(Appending) <= MaxConns - 1
<1>1. Appending \subseteq Live
  BY DEF Appending, Live, Served
<1>2. IsFiniteSet(Appending) /\ Cardinality(Appending) \in Nat
  BY <1>1, FS_Subset, FS_CardinalityType DEF SlotInv
<1>3. ASSUME NEW q \in Live \ Appending PROVE Cardinality(Appending) <= MaxConns - 1
  <2>1. IsFiniteSet(Live \ {q}) /\ Cardinality(Live \ {q}) = Cardinality(Live) - 1
    BY <1>3, FS_RemoveElement DEF SlotInv
  <2>2. Cardinality(Appending) <= Cardinality(Live \ {q})
    BY <1>1, <1>3, <2>1, FS_Subset
  <2>3. Cardinality(Live) \in Nat /\ Cardinality(Live) <= MaxConns
    BY FS_CardinalityType DEF SlotInv
  <2>4. QED
    BY <1>2, <2>1, <2>2, <2>3
<1>4. QED
  BY <1>2, <1>3

LEMMA TrailStep == TypeOK /\ SlotInv /\ TrailInv /\ [Next]_vars => TrailInv'
<1> SUFFICES ASSUME TypeOK, SlotInv, TrailInv, [Next]_vars PROVE TrailInv'
  OBVIOUS
<1> DEFINE n == Cardinality(Appending)
<1> USE BrokerAssumption
<1>1. IsFiniteSet(Appending) /\ n \in Nat
  BY AppendingBounded
<1>2. trail \in Nat /\ lost \in Nat /\ Room \in Nat
  BY DEF TypeOK, Room
<1>3. ASSUME Appending' = Appending, UNCHANGED <<trail, lost, seen>>,
             \A q \in Clients : pc'[q] = "append" => pc[q] = "append"
      PROVE  TrailInv'
  BY <1>3 DEF TrailInv, Room
<1>4. ASSUME NEW q \in Clients, CheckTrail(q), trail < MaxAnomalies PROVE TrailInv'
  <2>1. Appending' = Appending \cup {q} /\ q \in Live \ Appending
    BY <1>4 DEF CheckTrail, Move, Appending, Live, Served, TypeOK
  <2>2. Cardinality(Appending') = n + 1 /\ n <= MaxConns - 1
    BY <1>1, <2>1, FS_AddElement, AppendingBounded
  <2>3. UNCHANGED <<trail, lost, seen>> /\ Room' = Room
    BY <1>4 DEF CheckTrail, anomalyVars, Room
  <2>4. trail + (n + 1) <= Room
    BY <1>1, <1>2, <1>4, <2>2 DEF Room
  <2>5. ASSUME NEW x \in Clients, pc'[x] = "append"
        PROVE  seen[x] + (n + 1) <= Room /\ seen[x] <= trail + lost
    <3>1. pc[x] = "append" /\ seen[x] \in Nat
      BY <1>4, <2>5 DEF CheckTrail, Move, TypeOK
    <3>2. seen[x] <= trail + lost
      BY <3>1 DEF TrailInv
    <3>3. QED
      BY <1>1, <1>2, <1>4, <2>2, <3>1, <3>2 DEF Room
  <2>6. QED
    BY <2>2, <2>3, <2>4, <2>5 DEF TrailInv
<1>5. ASSUME NEW q \in Clients, LoadTrail(q) PROVE TrailInv'
  <2>1. Appending' = Appending /\ UNCHANGED <<trail, lost>> /\ Room' = Room
    BY <1>5 DEF LoadTrail, Move, Appending, TypeOK, Room
  <2>2. seen' = [seen EXCEPT ![q] = trail] /\ pc' = [pc EXCEPT ![q] = "append"]
    BY <1>5 DEF LoadTrail, Move
  <2>3. ASSUME NEW x \in Clients, pc'[x] = "append"
        PROVE  seen'[x] + n <= Room /\ seen'[x] <= trail + lost
    BY <1>2, <2>2, <2>3 DEF TrailInv, TypeOK
  <2>4. QED
    BY <2>1, <2>3 DEF TrailInv
<1>6. ASSUME NEW q \in Clients, AppendTrail(q) PROVE TrailInv'
  <2>1. Appending' = Appending \ {q} /\ q \in Appending
    BY <1>6 DEF AppendTrail, Move, Appending, TypeOK
  <2>2. Cardinality(Appending') = n - 1
    BY <1>1, <2>1, FS_RemoveElement
  <2>3. /\ seen[q] \in Nat /\ seen[q] + n <= Room /\ seen[q] <= trail + lost
        /\ trail' = seen[q] + 1
    BY <1>6 DEF AppendTrail, Move, TrailInv, TypeOK
  <2>4. /\ lost' \in Nat /\ lost <= lost' /\ trail + lost <= trail' + lost'
        /\ Room' = Room + (lost' - lost)
    <3>1. lost' = IF seen[q] < trail THEN lost + (trail - seen[q]) ELSE lost
      BY <1>6 DEF AppendTrail
    <3>2. QED
      BY <1>2, <2>3, <3>1 DEF Room
  <2>5. ASSUME NEW x \in Clients, pc'[x] = "append"
        PROVE  seen'[x] + (n - 1) <= Room' /\ seen'[x] <= trail' + lost'
    <3>1. pc[x] = "append" /\ seen'[x] = seen[x] /\ seen[x] \in Nat
      BY <1>6, <2>5 DEF AppendTrail, Move, TypeOK
    <3>2. seen[x] + n <= Room /\ seen[x] <= trail + lost
      BY <3>1 DEF TrailInv
    <3>3. QED
      BY <1>1, <1>2, <2>3, <2>4, <3>1, <3>2
  <2>6. trail' + (n - 1) <= Room'
    BY <1>1, <1>2, <2>3, <2>4
  <2>7. QED
    BY <2>2, <2>5, <2>6 DEF TrailInv
<1>7. ASSUME NEW q \in Clients, Dial(q) \/ Send(q) \/ HangUp(q) \/ Accept(q) PROVE TrailInv'
  BY <1>3, <1>7 DEF Dial, Send, HangUp, Accept, Move, Appending, anomalyVars, TypeOK
<1>8. ASSUME NEW q \in Clients, Serve(q) \/ Mint(q) PROVE TrailInv'
  <2>1. CASE StartServing(q)
    BY <1>3, <2>1 DEF StartServing, Move, Appending, anomalyVars, TypeOK
  <2>2. CASE ReadRequest(q)
    BY <1>3, <2>2 DEF ReadRequest, CloseWith, Move, Appending, TypeOK
  <2>3. CASE ReadFails(q) \/ Write(q)
    BY <1>3, <2>3 DEF ReadFails, Write, CloseWith, Appending, anomalyVars, TypeOK
  <2>4. CASE CheckTrail(q) /\ ~(trail < MaxAnomalies)
    BY <1>3, <2>4 DEF CheckTrail, Move, Appending, anomalyVars, TypeOK
  <2>5. CASE Mint(q)
    BY <1>3, <2>5 DEF Mint, CloseWith, Move, Appending, anomalyVars, TypeOK
  <2>6. QED
    BY <1>4, <1>5, <1>6, <1>8, <2>1, <2>2, <2>3, <2>4, <2>5 DEF Serve
<1>9. ASSUME Kill PROVE TrailInv'
  <2>1. Appending' = {} /\ UNCHANGED <<trail, lost>> /\ Room' = Room
    BY <1>9 DEF Kill, Appending, anomalyVars, Room
  <2>2. Cardinality(Appending') = 0 /\ \A q \in Clients : pc'[q] # "append"
    BY <1>9, <2>1, FS_EmptySet DEF Kill
  <2>3. trail <= Room
    BY <1>1, <1>2 DEF TrailInv
  <2>4. QED
    BY <1>2, <2>1, <2>2, <2>3 DEF TrailInv
<1>10. ASSUME Tick \/ Terminated \/ UNCHANGED vars PROVE TrailInv'
  BY <1>3, <1>10 DEF Tick, Terminated, vars, anomalyVars, Appending
<1>11. QED
  BY <1>7, <1>8, <1>9, <1>10 DEF Next

\* The trail outgrows maxAnomalies by no more than the other goroutines and
\* the entries that were lost.
THEOREM BrokerTrail == Spec => []TrailBounded
<1>1. Init => TrailInv
  <2>1. Init => Appending = {} /\ trail = 0 /\ lost = 0
               /\ \A q \in Clients : pc[q] # "append"
    BY DEF Init, Appending
  <2>2. QED
    BY <2>1, FS_EmptySet, BrokerAssumption DEF TrailInv, Room
<1>2. ASSUME TypeOK, SlotInv, TrailInv PROVE TrailBounded
  <2>1. Cardinality(Appending) \in Nat
    BY <1>2, AppendingBounded, BrokerAssumption
  <2>2. QED
    BY <1>2, <2>1, BrokerAssumption DEF TrailInv, TrailBounded, Room, TypeOK
<1>3. QED
  BY <1>1, <1>2, TrailStep, Connections, PTL DEF Spec

-----------------------------------------------------------------------------
(* The answers.                                                            *)

\* A client that claims another repository is logged before it is past the
\* check; past the reading there are only gets that were sent whole; a token is
\* there when it is to be written, and nothing is received before that.
AnswerInv ==
  /\ \A q \in Clients :
       /\ kind[q] = "getOther" /\ (pc[q] \in Served \ {"reading"} \/ api[q] = "token") =>
            logged[q]
       /\ pc[q] \in Served \ {"reading"} => sent[q] /\ Asks(q)
       /\ pc[q] = "write" => api[q] = "token"
       /\ api[q] # "unasked" => pc[q] \in {"write", "closed"}
       /\ pc[q] # "closed" => answer[q] = "none"

LEMMA AnswerStep ==
  /\ TypeOK /\ AnswerInv /\ AnswersHaveACause /\ [Next]_vars
  => AnswerInv' /\ AnswersHaveACause'
<1> SUFFICES ASSUME TypeOK, AnswerInv, AnswersHaveACause, [Next]_vars
             PROVE  AnswerInv' /\ AnswersHaveACause'
  OBVIOUS
<1> USE DEF AnswerInv, AnswersHaveACause, TypeOK, Served, Asks
<1>1. ASSUME NEW q \in Clients, Dial(q) \/ Send(q) \/ HangUp(q) \/ Accept(q)
      PROVE  AnswerInv' /\ AnswersHaveACause'
  BY <1>1 DEF Dial, Send, HangUp, Accept, Move, anomalyVars
<1>2. ASSUME NEW q \in Clients, Serve(q) \/ Mint(q)
      PROVE  AnswerInv' /\ AnswersHaveACause'
  <2>1. CASE StartServing(q)
    BY <2>1 DEF StartServing, Move, anomalyVars
  <2>2. CASE ReadRequest(q)
    BY <2>2 DEF ReadRequest, CloseWith, Move
  <2>3. CASE ReadFails(q)
    BY <2>3 DEF ReadFails, CloseWith, anomalyVars
  <2>4. CASE CheckTrail(q)
    BY <2>4 DEF CheckTrail, Move, anomalyVars
  <2>5. CASE LoadTrail(q)
    BY <2>5 DEF LoadTrail, Move
  <2>6. CASE AppendTrail(q)
    BY <2>6 DEF AppendTrail, Move
  <2>7. CASE Mint(q)
    BY <2>7 DEF Mint, CloseWith, Move, anomalyVars
  <2>8. CASE Write(q)
    BY <2>8 DEF Write, CloseWith, anomalyVars
  <2>9. QED
    BY <1>2, <2>1, <2>2, <2>3, <2>4, <2>5, <2>6, <2>7, <2>8 DEF Serve
<1>3. ASSUME Tick PROVE AnswerInv' /\ AnswersHaveACause'
  BY <1>3 DEF Tick, anomalyVars
<1>4. ASSUME Kill PROVE AnswerInv' /\ AnswersHaveACause'
  BY <1>4 DEF Kill, anomalyVars
<1>5. ASSUME Terminated \/ UNCHANGED vars PROVE AnswerInv' /\ AnswersHaveACause'
  BY <1>5 DEF Terminated, vars, anomalyVars
<1>6. QED
  BY <1>1, <1>2, <1>3, <1>4, <1>5 DEF Next

LEMMA Answers == Spec => [](AnswerInv /\ AnswersHaveACause)
<1>1. Init => AnswerInv /\ AnswersHaveACause
  BY DEF Init, AnswerInv, AnswersHaveACause, Served
<1>2. QED
  BY <1>1, AnswerStep, Connections, PTL DEF Spec

\* No token for a claim of another repository without its log line.
THEOREM BrokerLogsFirst == Spec => []MismatchLoggedBeforeMint
<1>1. AnswerInv => MismatchLoggedBeforeMint
  BY DEF AnswerInv, MismatchLoggedBeforeMint
<1>2. QED
  BY <1>1, Answers, PTL

\* A credential answers a get for which it was minted; an empty answer to a get
\* is due to the API, the deadline or the client itself.
THEOREM BrokerAnswers == Spec => []AnswersHaveACause
  BY Answers, PTL
=============================================================================
