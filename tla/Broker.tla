------------------------------- MODULE Broker -------------------------------
(***************************************************************************)
(* `runclave brokerd` at work (broker.Serve, serveConn, Session.Handle) and *)
(* the clients in the box that ask it for a credential (broker.Query).     *)
(*                                                                         *)
(* One goroutine accepts; it takes a slot of the semaphore only after it   *)
(* has accepted, so one more connection than MaxConns can be off the       *)
(* backlog.  Every connection is served by a goroutine of its own under    *)
(* one deadline for the whole call; a deadline is the number of ticks left.*)
(* The anomaly trail is shared by these goroutines without a lock: its     *)
(* length is read by the check, read again by append and then stored.      *)
(***************************************************************************)
EXTENDS Naturals, FiniteSets

CONSTANTS Clients,       \* connections to the session's socket
          MaxConns,      \* maxConns
          ConnTTL,       \* connTTL, in ticks
          MaxAnomalies   \* maxAnomalies

ASSUME BrokerAssumption ==
  /\ MaxConns \in Nat \ {0}
  /\ ConnTTL \in Nat \ {0}
  /\ MaxAnomalies \in Nat

\* What a client sends: nothing at all; a call that is answered with nothing
\* (store, erase, an unknown op, a malformed line); get for the session's
\* repository; get for another repository or for none.
Kind == {"silent", "noToken", "get", "getOther"}

\* In `Served` a goroutine and a slot belong to the connection.
Served == {"reading", "check", "load", "append", "mint", "write"}
PC == Served \cup {"new", "backlog", "accepted", "closed"}

VARIABLES
  kind,    \* what each client sends
  sent,    \* it has sent it and half-closed
  gone,    \* it has hung up without waiting for the answer
  pc,      \* where its connection is
  slots,   \* tokens in sem
  ttl,     \* its deadline
  trail,   \* len(Anomalies)
  lost,    \* entries that were overwritten
  seen,    \* the length a goroutine has read for append, until it has appended
  logged,  \* LogAnomaly was called for the client
  api,     \* what became of the call that mints a token for it
  answer,  \* what it has received
  alive    \* the daemon runs

anomalyVars == <<trail, lost, seen, logged>>
vars == <<kind, sent, gone, pc, slots, ttl, anomalyVars, api, answer, alive>>

Init ==
  /\ kind \in [Clients -> Kind]
  /\ sent = [q \in Clients |-> FALSE]
  /\ gone = [q \in Clients |-> FALSE]
  /\ pc = [q \in Clients |-> "new"]
  /\ slots = 0
  /\ ttl = [q \in Clients |-> ConnTTL]
  /\ trail = 0
  /\ lost = 0
  /\ seen = [q \in Clients |-> 0]
  /\ logged = [q \in Clients |-> FALSE]
  /\ api = [q \in Clients |-> "unasked"]
  /\ answer = [q \in Clients |-> "none"]
  /\ alive = TRUE

\* It is a get, whatever it claims.
Asks(q) == kind[q] \in {"get", "getOther"}

Move(q, from, to) == alive /\ pc[q] = from /\ pc' = [pc EXCEPT ![q] = to]

-----------------------------------------------------------------------------
(* The clients.                                                            *)

\* net.Dial succeeds as soon as the connection is in the listener's backlog.
Dial(q) ==
  /\ Move(q, "new", "backlog")
  /\ UNCHANGED <<kind, sent, gone, slots, ttl, anomalyVars, api, answer, alive>>

\* The op line, the attributes and CloseWrite.
Send(q) ==
  /\ kind[q] # "silent"
  /\ pc[q] \notin {"new", "closed"}
  /\ ~sent[q]
  /\ sent' = [sent EXCEPT ![q] = TRUE]
  /\ UNCHANGED <<kind, gone, pc, slots, ttl, anomalyVars, api, answer, alive>>

\* git or the box ends while the client waits, or before it has said anything:
\* both directions are closed.  A request cut in the middle is one of the kinds,
\* and to a noToken call nothing would have been written.
HangUp(q) ==
  /\ pc[q] \notin {"new", "closed"}
  /\ kind[q] = "silent" \/ (sent[q] /\ Asks(q))
  /\ ~gone[q]
  /\ gone' = [gone EXCEPT ![q] = TRUE]
  /\ UNCHANGED <<kind, sent, pc, slots, ttl, anomalyVars, api, answer, alive>>

-----------------------------------------------------------------------------
(* The accept loop.                                                        *)

Accept(q) ==
  /\ \A x \in Clients : pc[x] # "accepted"
  /\ Move(q, "backlog", "accepted")
  /\ UNCHANGED <<kind, sent, gone, slots, ttl, anomalyVars, api, answer, alive>>

\* Mutant: the semaphore is one too large.
StartServingOneMore(q) ==
  /\ slots <= MaxConns
  /\ Move(q, "accepted", "reading")
  /\ slots' = slots + 1
  /\ UNCHANGED <<kind, sent, gone, ttl, anomalyVars, api, answer, alive>>

\* sem <- struct{}{}; the goroutine sets the deadline before it reads.
StartServing(q) ==
  /\ slots < MaxConns
  /\ Move(q, "accepted", "reading")
  /\ slots' = slots + 1
  /\ UNCHANGED <<kind, sent, gone, ttl, anomalyVars, api, answer, alive>>

-----------------------------------------------------------------------------
(* serveConn and Handle.                                                   *)

\* Mutant: the slot is kept.
CloseKeepsSlot(q, a) ==
  /\ pc' = [pc EXCEPT ![q] = "closed"]
  /\ answer' = [answer EXCEPT ![q] = a]
  /\ UNCHANGED slots

\* Mutant: the slot is freed twice.
CloseFreesTwice(q, a) ==
  /\ pc' = [pc EXCEPT ![q] = "closed"]
  /\ answer' = [answer EXCEPT ![q] = a]
  /\ slots' = slots - 2

\* Every return closes the connection, then frees the slot.
CloseWith(q, a) ==
  /\ pc' = [pc EXCEPT ![q] = "closed"]
  /\ answer' = [answer EXCEPT ![q] = a]
  /\ slots' = slots - 1

\* Mutant: a get without a host is no mismatch, so nothing is logged.
ReadRequestSilently(q) ==
  /\ alive /\ pc[q] = "reading"
  /\ sent[q] /\ ttl[q] > 0
  /\ IF kind[q] = "noToken" THEN CloseWith(q, "empty")
     ELSE Move(q, "reading", "mint") /\ UNCHANGED <<slots, answer>>
  /\ UNCHANGED <<kind, sent, gone, ttl, anomalyVars, api, alive>>

\* The request is read whole and parsed; Handle looks at the op and, for get,
\* at what the box claims.
ReadRequest(q) ==
  /\ alive /\ pc[q] = "reading"
  /\ sent[q] /\ ttl[q] > 0
  /\ \/ /\ kind[q] = "noToken"
        /\ CloseWith(q, "empty")
        /\ UNCHANGED logged
     \/ /\ kind[q] = "get"
        /\ Move(q, "reading", "mint")
        /\ UNCHANGED <<slots, answer, logged>>
     \/ /\ kind[q] = "getOther"
        /\ Move(q, "reading", "check")
        /\ logged' = [logged EXCEPT ![q] = TRUE]
        /\ UNCHANGED <<slots, answer>>
  /\ UNCHANGED <<kind, sent, gone, ttl, trail, lost, seen, api, alive>>

\* Mutant: an idle client is waited for.
ReadFailsByPeerOnly(q) ==
  /\ alive /\ pc[q] = "reading"
  /\ kind[q] = "noToken"
  /\ CloseWith(q, "empty")
  /\ UNCHANGED <<kind, sent, gone, ttl, anomalyVars, api, alive>>

\* The deadline passes while the request is being read, or the client hung up
\* without a word.
ReadFails(q) ==
  /\ alive /\ pc[q] = "reading"
  /\ ttl[q] = 0 \/ (gone[q] /\ ~sent[q])
  /\ CloseWith(q, "empty")
  /\ UNCHANGED <<kind, sent, gone, ttl, anomalyVars, api, alive>>

\* Mutant: the bound is not checked.
CheckTrailNot(q) ==
  /\ Move(q, "check", "load")
  /\ UNCHANGED <<kind, sent, gone, slots, ttl, anomalyVars, api, answer, alive>>

\* Mutant: a mismatch that finds the trail full is refused.
CheckTrailRefuses(q) ==
  /\ alive /\ pc[q] = "check"
  /\ IF trail < MaxAnomalies
     THEN Move(q, "check", "load") /\ UNCHANGED <<slots, answer>>
     ELSE CloseWith(q, "empty")
  /\ UNCHANGED <<kind, sent, gone, ttl, anomalyVars, api, alive>>

\* len(s.Anomalies) < maxAnomalies
CheckTrail(q) ==
  /\ Move(q, "check", IF trail < MaxAnomalies THEN "load" ELSE "mint")
  /\ UNCHANGED <<kind, sent, gone, slots, ttl, anomalyVars, api, answer, alive>>

LoadTrail(q) ==
  /\ Move(q, "load", "append")
  /\ seen' = [seen EXCEPT ![q] = trail]
  /\ UNCHANGED <<kind, sent, gone, slots, ttl, trail, lost, logged, api, answer, alive>>

\* The slice of the length that was read is stored: what others appended
\* since is gone.
AppendTrail(q) ==
  /\ Move(q, "append", "mint")
  /\ trail' = seen[q] + 1
  /\ lost' = IF seen[q] < trail THEN lost + (trail - seen[q]) ELSE lost
  /\ seen' = [seen EXCEPT ![q] = 0]
  /\ UNCHANGED <<kind, sent, gone, slots, ttl, logged, api, answer, alive>>

\* The App's API is asked; a failure, a token that does not expire and one
\* with control characters are all refused.
Mint(q) ==
  /\ alive /\ pc[q] = "mint"
  /\ \/ /\ Move(q, "mint", "write")
        /\ api' = [api EXCEPT ![q] = "token"]
        /\ UNCHANGED <<slots, answer>>
     \/ /\ CloseWith(q, "empty")
        /\ api' = [api EXCEPT ![q] = "refused"]
  /\ UNCHANGED <<kind, sent, gone, ttl, anomalyVars, alive>>

\* One short write: it fails when minting has used up the deadline, or when
\* the client has hung up meanwhile.
Write(q) ==
  /\ alive /\ pc[q] = "write"
  /\ CloseWith(q, IF ttl[q] > 0 /\ ~gone[q] THEN "credential" ELSE "empty")
  /\ UNCHANGED <<kind, sent, gone, ttl, anomalyVars, api, alive>>

Serve(q) ==
  \/ StartServing(q) \/ ReadRequest(q) \/ ReadFails(q) \/ CheckTrail(q)
  \/ LoadTrail(q) \/ AppendTrail(q) \/ Write(q)

-----------------------------------------------------------------------------
Tick ==
  /\ ttl' = [q \in Clients |->
               IF pc[q] \in Served /\ ttl[q] > 0 THEN ttl[q] - 1 ELSE ttl[q]]
  /\ ttl' # ttl
  /\ UNCHANGED <<kind, sent, gone, pc, slots, anomalyVars, api, answer, alive>>

\* The run ends and kills the daemon: the kernel closes every connection.
Kill ==
  /\ alive
  /\ alive' = FALSE
  /\ pc' = [q \in Clients |-> "closed"]
  /\ answer' = [q \in Clients |->
                  IF pc[q] = "closed" THEN answer[q] ELSE "empty"]
  /\ slots' = 0
  /\ UNCHANGED <<kind, sent, gone, ttl, anomalyVars, api>>

Terminated == (\A q \in Clients : pc[q] = "closed") /\ UNCHANGED vars

Next ==
  \/ \E q \in Clients :
       \/ Dial(q) \/ Send(q) \/ HangUp(q)
       \/ Accept(q) \/ Serve(q) \/ Mint(q)
  \/ Tick \/ Kill \/ Terminated

Spec == Init /\ [][Next]_vars

\* Goroutines run, time passes, and the API answers.  Two clients may be in
\* the backlog for ever only if the loop is: it takes them in order, which
\* strong fairness stands for.
Fairness ==
  /\ WF_vars(Tick)
  /\ \A q \in Clients : WF_vars(Serve(q)) /\ WF_vars(Mint(q)) /\ SF_vars(Accept(q))

FairSpec == Spec /\ Fairness

-----------------------------------------------------------------------------
(* Properties.                                                             *)

\* Types of the variables.
TypeOK ==
  /\ kind \in [Clients -> Kind]
  /\ sent \in [Clients -> BOOLEAN]
  /\ gone \in [Clients -> BOOLEAN]
  /\ pc \in [Clients -> PC]
  /\ slots \in Nat
  /\ ttl \in [Clients -> 0..ConnTTL]
  /\ trail \in Nat
  /\ lost \in Nat
  /\ seen \in [Clients -> Nat]
  /\ logged \in [Clients -> BOOLEAN]
  /\ api \in [Clients -> {"unasked", "token", "refused"}]
  /\ answer \in [Clients -> {"none", "empty", "credential"}]
  /\ alive \in BOOLEAN

Live == {q \in Clients : pc[q] \in Served}
Taken == {q \in Clients : pc[q] \in Served \cup {"accepted"}}

\* The semaphore counts the goroutines that serve, whichever way they end,
\* and the peers hold at most one connection more than maxConns.
ConnectionsBounded ==
  /\ slots = Cardinality(Live) /\ slots <= MaxConns
  /\ Cardinality(Taken) <= MaxConns + 1

\* The unlocked check-then-append makes the trail outgrow maxAnomalies: by the
\* other goroutines that can be between check and append, and by the entries
\* that are lost when one of them stores a length it read too early, which
\* lets the check pass again.
TrailBounded == trail <= MaxAnomalies + (MaxConns - 1) + lost

\* A token is minted for a call that claims another repository only after the
\* mismatch was logged, with the trail full or not.
MismatchLoggedBeforeMint ==
  \A q \in Clients : kind[q] = "getOther" /\ api[q] = "token" => logged[q]

\* "The daemon never hands back a guessed credential": one that arrives was
\* asked for with get and minted for that call.  And the box is not refused one
\* for its claims or for what others did to the trail: while the daemon runs, a
\* get ends empty only if the API or the checks of its answer refused, the
\* deadline passed (connTTL covers the minting too) or the client hung up.
AnswersHaveACause ==
  \A q \in Clients :
    /\ answer[q] = "credential" => sent[q] /\ Asks(q) /\ api[q] = "token"
    /\ alive /\ Asks(q) /\ answer[q] = "empty" =>
         api[q] = "refused" \/ ttl[q] = 0 \/ gone[q]

\* "A read deadline frees the goroutine": however many clients say nothing,
\* one that is in the backlog is served and its Query comes to an end.
QueriesEnd == \A q \in Clients : pc[q] = "backlog" ~> pc[q] = "closed"
=============================================================================
