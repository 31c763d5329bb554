----------------------------- MODULE EgressProxy -----------------------------
(***************************************************************************)
(* What the egress gateway does with a CONNECT once it is authorised       *)
(* (egress.ServeHTTP, mitmInject, CA.LeafFor): it pipes the connection to  *)
(* the host, or, for a host with an injection rule, terminates its TLS     *)
(* with a certificate of its own and forwards one request after the other. *)
(*                                                                         *)
(* The injection path has a semaphore of MaxInject slots, a mutex around   *)
(* the certificate cache, and two deadlines on the connection.  A deadline *)
(* is the number of ticks that are left, 0 once it has passed; every       *)
(* connection's deadlines run down together, with Tick.  A host here is a  *)
(* host as the client spells it: the certificate cache is keyed by that,   *)
(* while rules and allowlist go by the lower-case name.                    *)
(***************************************************************************)
EXTENDS Naturals, FiniteSets

CONSTANTS Conns,        \* CONNECT requests, a goroutine each
          InjectHosts,  \* allowed hosts with an injection rule
          PlainHosts,   \* allowed hosts without one
          OtherHosts,   \* hosts that are not in the allowlist
          NoConn,       \* no connection: the mutex is free, no leaf is cached
          MaxInject,    \* maxInjectConns
          IdleTimeout   \* injectIdleTimeout, in ticks

ASSUME ProxyAssumption ==
  /\ NoConn \notin Conns
  /\ MaxInject \in Nat \ {0}
  /\ IdleTimeout \in Nat \ {0}

Host  == InjectHosts \cup PlainHosts \cup OtherHosts
Never == IdleTimeout + 1          \* no deadline
Deadline == 0..Never

\* Where a connection is; the ones in Held have taken a slot.
Held == {"hijack", "leaf", "minting", "handshake", "read", "roundTrip", "respond"}
PC == Held \cup {"new", "dial", "piped", "denied", "shed", "closed"}

\* A pipe is two goroutines, each copying one way, and two sockets.
Way    == {"up", "down"}
Socket == {"src", "dst"}
Peer   == {"client", "upstream"}

VARIABLES
  host,       \* the host each connection asks for
  pc,         \* where it is
  slots,      \* tokens in injectSem
  mu,         \* the connection that holds the CA's mutex
  leaves,     \* the CA's cache: a leaf is named after who minted it
  leaf,       \* the leaf each connection presents
  rd, wr,     \* read and write deadline
  cut,        \* a response was broken off by a deadline
  copying,    \* the copying goroutines that run
  open,       \* the pipe's open sockets
  finished,   \* the peers that have stopped sending
  stalled     \* the goroutines blocked on a peer that does not read

injectVars == <<slots, mu, leaves, leaf, rd, wr, cut>>
pipeVars   == <<copying, open, finished, stalled>>
vars == <<host, pc, injectVars, pipeVars>>

Init ==
  /\ host \in [Conns -> Host]
  /\ pc = [c \in Conns |-> "new"]
  /\ slots = 0
  /\ mu = NoConn
  /\ leaves = [h \in InjectHosts |-> NoConn]
  /\ leaf = [c \in Conns |-> NoConn]
  /\ rd = [c \in Conns |-> Never]
  /\ wr = [c \in Conns |-> Never]
  /\ cut = [c \in Conns |-> FALSE]
  /\ copying = [c \in Conns |-> {}]
  /\ open = [c \in Conns |-> {}]
  /\ finished = [c \in Conns |-> {}]
  /\ stalled = [c \in Conns |-> {}]

Move(c, from, to) == pc[c] = from /\ pc' = [pc EXCEPT ![c] = to]

-----------------------------------------------------------------------------
(* ServeHTTP.                                                              *)

Deny(c) ==
  /\ host[c] \in OtherHosts
  /\ Move(c, "new", "denied")
  /\ UNCHANGED <<host, injectVars, pipeVars>>

\* The select on injectSem: take a slot, or shed the connection.
Acquire(c) ==
  /\ host[c] \in InjectHosts
  /\ slots < MaxInject
  /\ Move(c, "new", "hijack")
  /\ slots' = slots + 1
  /\ UNCHANGED <<host, mu, leaves, leaf, rd, wr, cut, pipeVars>>

Shed(c) ==
  /\ host[c] \in InjectHosts
  /\ slots = MaxInject
  /\ Move(c, "new", "shed")
  /\ UNCHANGED <<host, injectVars, pipeVars>>

\* Mutant: an early return forgets the slot.
ReleaseForgetsSlot(c) == pc' = [pc EXCEPT ![c] = "closed"] /\ UNCHANGED slots

\* Leaving mitmInject, or a failed Hijack: close the connection, free the slot.
Release(c) == pc' = [pc EXCEPT ![c] = "closed"] /\ slots' = slots - 1

Hijack(c) ==
  /\ pc[c] = "hijack"
  /\ \/ Move(c, "hijack", "leaf") /\ UNCHANGED slots
     \/ Release(c)
  /\ UNCHANGED <<host, mu, leaves, leaf, rd, wr, cut, pipeVars>>

\* Mutant: one goroutine only is started for the pipe.
PipeOneWay(c) ==
  /\ \/ /\ Move(c, "dial", "piped")
        /\ copying' = [copying EXCEPT ![c] = {"up"}]
        /\ open' = [open EXCEPT ![c] = Socket]
     \/ Move(c, "dial", "closed") /\ UNCHANGED <<copying, open>>
  /\ UNCHANGED <<host, injectVars, finished, stalled>>

StartDial(c) ==
  /\ host[c] \in PlainHosts
  /\ Move(c, "new", "dial")
  /\ UNCHANGED <<host, injectVars, pipeVars>>

\* net.Dial and Hijack: either may fail and closes what is open.
Pipe(c) ==
  /\ \/ /\ Move(c, "dial", "piped")
        /\ copying' = [copying EXCEPT ![c] = Way]
        /\ open' = [open EXCEPT ![c] = Socket]
     \/ Move(c, "dial", "closed") /\ UNCHANGED <<copying, open>>
  /\ UNCHANGED <<host, injectVars, finished, stalled>>

-----------------------------------------------------------------------------
(* The blind pipe.                                                         *)

\* A peer stops sending: it closes, or only its sending half.
Finish(c, p) ==
  /\ pc[c] = "piped"
  /\ p \notin finished[c]
  /\ finished' = [finished EXCEPT ![c] = @ \cup {p}]
  /\ UNCHANGED <<host, pc, injectVars, copying, open, stalled>>

\* A peer stops reading and the goroutine blocks in a write, or it reads again.
Stall(c, way) ==
  /\ way \in copying[c]
  /\ stalled' = [stalled EXCEPT ![c] = (@ \ {way}) \cup ({way} \ @)]
  /\ UNCHANGED <<host, pc, injectVars, copying, open, finished>>

\* Mutant: the goroutine closes the socket it was reading from.
EndCopyClosesSource(c, way, source, target) ==
  /\ way \in copying[c] \ stalled[c]
  /\ source \in finished[c] \/ open[c] \subseteq {target}
  /\ copying' = [copying EXCEPT ![c] = @ \ {way}]
  /\ open' = [open EXCEPT ![c] = @ \ (Socket \ {target})]
  /\ UNCHANGED <<host, pc, injectVars, finished, stalled>>

\* io.Copy ends with its source, or when its source is closed under it; the
\* goroutine then closes the socket it was writing to.
EndCopy(c, way, source, target) ==
  /\ way \in copying[c] \ stalled[c]
  /\ source \in finished[c] \/ open[c] \subseteq {target}
  /\ copying' = [copying EXCEPT ![c] = @ \ {way}]
  /\ open' = [open EXCEPT ![c] = @ \ {target}]
  /\ UNCHANGED <<host, pc, injectVars, finished, stalled>>

EndPipe(c) ==
  EndCopy(c, "up", "client", "dst") \/ EndCopy(c, "down", "upstream", "src")

-----------------------------------------------------------------------------
(* mitmInject.                                                             *)

\* CA.LeafFor: the cache is read and a missing leaf is minted under the mutex.
CachedLeaf(c) ==
  /\ Move(c, "leaf", "handshake")
  /\ mu = NoConn /\ leaves[host[c]] # NoConn
  /\ leaf' = [leaf EXCEPT ![c] = leaves[host[c]]]
  /\ rd' = [rd EXCEPT ![c] = IdleTimeout]   \* SetDeadline: both of them
  /\ wr' = [wr EXCEPT ![c] = IdleTimeout]
  /\ UNCHANGED <<host, slots, mu, leaves, cut, pipeVars>>

\* Mutant: the mutex is not taken.
StartMintUnlocked(c) ==
  /\ Move(c, "leaf", "minting")
  /\ leaves[host[c]] = NoConn
  /\ UNCHANGED <<host, slots, mu, leaves, leaf, rd, wr, cut, pipeVars>>

StartMint(c) ==
  /\ Move(c, "leaf", "minting")
  /\ mu = NoConn /\ leaves[host[c]] = NoConn
  /\ mu' = c
  /\ UNCHANGED <<host, slots, leaves, leaf, rd, wr, cut, pipeVars>>

EndMint(c) ==
  /\ pc[c] = "minting"
  /\ mu' = NoConn
  /\ \/ /\ Move(c, "minting", "handshake")
        /\ leaves' = [leaves EXCEPT ![host[c]] = c]
        /\ leaf' = [leaf EXCEPT ![c] = c]
        /\ rd' = [rd EXCEPT ![c] = IdleTimeout]
        /\ wr' = [wr EXCEPT ![c] = IdleTimeout]
        /\ UNCHANGED slots
     \/ Release(c) /\ UNCHANGED <<leaves, leaf, rd, wr>>
  /\ UNCHANGED <<host, cut, pipeVars>>

\* The client completes the handshake; the loop sets a new read deadline.
Handshake(c) ==
  /\ rd[c] > 0 /\ wr[c] > 0
  /\ Move(c, "handshake", "read")
  /\ rd' = [rd EXCEPT ![c] = IdleTimeout]
  /\ UNCHANGED <<host, slots, mu, leaves, leaf, wr, cut, pipeVars>>

\* A request has been read: the read deadline is lifted while it is served.
ReadRequest(c) ==
  /\ rd[c] > 0
  /\ Move(c, "read", "roundTrip")
  /\ rd' = [rd EXCEPT ![c] = Never]
  /\ UNCHANGED <<host, slots, mu, leaves, leaf, wr, cut, pipeVars>>

\* RoundTrip gives a response, or an error that is answered with 502.
RoundTrip(c) ==
  /\ pc[c] = "roundTrip"
  /\ \/ Move(c, "roundTrip", "respond") /\ UNCHANGED slots
     \/ Release(c)
  /\ UNCHANGED <<host, mu, leaves, leaf, rd, wr, cut, pipeVars>>

\* The whole response is written; the connection is kept or closed.
Respond(c) ==
  /\ pc[c] = "respond"
  /\ wr[c] > 0
  /\ \/ /\ Move(c, "respond", "read")
        /\ rd' = [rd EXCEPT ![c] = IdleTimeout]
        /\ UNCHANGED slots
     \/ Release(c) /\ UNCHANGED rd
  /\ UNCHANGED <<host, mu, leaves, leaf, wr, cut, pipeVars>>

\* A write after the write deadline fails: the response stays incomplete.
BreakOff(c) ==
  /\ pc[c] = "respond"
  /\ wr[c] = 0
  /\ Release(c)
  /\ cut' = [cut EXCEPT ![c] = TRUE]
  /\ UNCHANGED <<host, mu, leaves, leaf, rd, wr, pipeVars>>

\* Mutant: only the handshake has a deadline.
ExpireHandshake(c) ==
  /\ pc[c] = "handshake"
  /\ rd[c] = 0
  /\ Release(c)
  /\ UNCHANGED <<host, mu, leaves, leaf, rd, wr, cut, pipeVars>>

\* A read the client does not answer fails at its deadline.
Expire(c) ==
  /\ pc[c] \in {"handshake", "read"}
  /\ rd[c] = 0
  /\ Release(c)
  /\ UNCHANGED <<host, mu, leaves, leaf, rd, wr, cut, pipeVars>>

\* The client goes away; whatever the handler is blocked in fails.
HangUp(c) ==
  /\ pc[c] \in {"handshake", "read", "respond"}
  /\ Release(c)
  /\ UNCHANGED <<host, mu, leaves, leaf, rd, wr, cut, pipeVars>>

\* Mutant: a deadline that has passed runs on.
RunDownBelowZero(d) == IF d = Never THEN d ELSE d - 1

RunDown(d) == IF d \in {0, Never} THEN d ELSE d - 1

Tick ==
  /\ rd' = [c \in Conns |-> RunDown(rd[c])]
  /\ wr' = [c \in Conns |-> RunDown(wr[c])]
  /\ <<rd', wr'>> # <<rd, wr>>
  /\ UNCHANGED <<host, pc, slots, mu, leaves, leaf, cut, pipeVars>>

Ended(c) ==
  \/ pc[c] \in {"denied", "shed", "closed"}
  \/ pc[c] = "piped" /\ copying[c] = {} /\ finished[c] = Peer
Terminated == (\A c \in Conns : Ended(c)) /\ UNCHANGED vars

-----------------------------------------------------------------------------
\* What the proxy does by itself, and what it waits for others to do.
Proxy(c) ==
  \/ Deny(c) \/ Acquire(c) \/ Shed(c) \/ Hijack(c) \/ StartDial(c) \/ Pipe(c)
  \/ EndPipe(c) \/ CachedLeaf(c) \/ StartMint(c) \/ EndMint(c) \/ BreakOff(c)
  \/ Expire(c)

Peers(c) ==
  \/ \E p \in Peer : Finish(c, p)
  \/ \E way \in Way : Stall(c, way)
  \/ Handshake(c) \/ ReadRequest(c) \/ RoundTrip(c) \/ Respond(c) \/ HangUp(c)

Next == (\E c \in Conns : Proxy(c) \/ Peers(c)) \/ Tick \/ Terminated

Spec == Init /\ [][Next]_vars

\* Goroutines that can run do, and time passes; nothing is assumed of the
\* clients and the upstream hosts.
Fairness == WF_vars(Tick) /\ \A c \in Conns : WF_vars(Proxy(c))

FairSpec == Spec /\ Fairness

-----------------------------------------------------------------------------
(* Properties.                                                             *)

\* Types of the variables.
TypeOK ==
  /\ host \in [Conns -> Host]
  /\ pc \in [Conns -> PC]
  /\ slots \in Nat
  /\ mu \in Conns \cup {NoConn}
  /\ leaves \in [InjectHosts -> Conns \cup {NoConn}]
  /\ leaf \in [Conns -> Conns \cup {NoConn}]
  /\ rd \in [Conns -> Deadline]
  /\ wr \in [Conns -> Deadline]
  /\ cut \in [Conns -> BOOLEAN]
  /\ copying \in [Conns -> SUBSET Way]
  /\ open \in [Conns -> SUBSET Socket]
  /\ finished \in [Conns -> SUBSET Peer]
  /\ stalled \in [Conns -> SUBSET Way]

Holders == {c \in Conns : pc[c] \in Held}

\* Every way out of the injection path gives its slot back exactly once, so
\* the semaphore counts the live connections and a full one is no leak.
SlotsAreHolders == slots = Cardinality(Holders) /\ slots <= MaxInject

\* All connections to one host are shown the same certificate, the cached one:
\* two handshakes at the same time do not mint two.
OneLeafPerHost ==
  \A c \in Conns : leaf[c] # NoConn => leaf[c] = leaves[host[c]]

\* A pipe with both peers still sending is whole: no goroutine closes a socket
\* the other one needs.
PipeStaysWhole ==
  \A c \in Conns :
    pc[c] = "piped" /\ finished[c] = {} => open[c] = Socket /\ copying[c] = Way

\* When one peer stops, both sockets are closed and both goroutines end, even
\* if the other peer never sends or closes anything again, unless a goroutine
\* is blocked in a write to a peer that does not read.
PipeIsTornDown ==
  \A c \in Conns :
    finished[c] # {} ~> (open[c] = {} /\ copying[c] = {}) \/ stalled[c] # {}

\* injectIdleTimeout: a client that sends nothing does not keep its slot.
SilentClientsDropped ==
  \A c \in Conns : pc[c] \in {"handshake", "read"} ~> pc[c] \notin {"handshake", "read"}

\* mitmInject lifts the deadline "so a legit slow upload/stream isn't killed".
StreamsSurvive == \A c \in Conns : ~cut[c]
=============================================================================
