---------------------------- MODULE EgressProofs ----------------------------
(***************************************************************************)
(* The egress gateway, for any connections, hosts, number of slots and     *)
(* timeout: types, slots, certificates and pipes (EgressProxy); and for    *)
(* any policy pack what it permits and injects (Allowlist).                *)
(***************************************************************************)
EXTENDS EgressProxy, Allowlist, FiniteSetTheorems, TLAPS

-----------------------------------------------------------------------------
(* Slots.                                                                  *)

SlotInv ==
  /\ IsFiniteSet(Holders)
  /\ slots = Cardinality(Holders)
  /\ slots <= MaxInject

\* Only hosts with a rule get into the injection path and have a leaf.
Injecting ==
  \A c \in Conns : pc[c] \in Held \/ leaf[c] # NoConn => host[c] \in InjectHosts

LEMMA HolderHasSlot ==
  ASSUME SlotInv, NEW c \in Holders
  PROVE  slots - 1 \in Nat
<1>1. Cardinality(Holders) \in Nat /\ Cardinality(Holders) # 0
  BY FS_CardinalityType, FS_EmptySet DEF SlotInv
<1>2. QED
  BY <1>1 DEF SlotInv

LEMMA TypeStep ==
  TypeOK /\ Injecting /\ SlotInv /\ [Next]_vars => TypeOK' /\ Injecting'
<1> SUFFICES ASSUME TypeOK, Injecting, SlotInv, [Next]_vars PROVE TypeOK' /\ Injecting'
  OBVIOUS
<1> USE ProxyAssumption DEF TypeOK, Injecting, PC, Held, Deadline, Never
<1>1. ASSUME NEW c \in Conns, pc[c] \in Held PROVE slots - 1 \in Nat
  BY <1>1, HolderHasSlot DEF Holders
<1>2. ASSUME NEW c \in Conns, Deny(c) \/ Acquire(c) \/ Shed(c) \/ StartDial(c)
      PROVE  TypeOK' /\ Injecting'
  BY <1>2 DEF Deny, Acquire, Shed, StartDial, Move, injectVars, pipeVars
<1>3. ASSUME NEW c \in Conns, Hijack(c) \/ RoundTrip(c) \/ HangUp(c) \/ Expire(c)
      PROVE  TypeOK' /\ Injecting'
  BY <1>1, <1>3 DEF Hijack, RoundTrip, HangUp, Expire, Release, Move, pipeVars
<1>4. ASSUME NEW c \in Conns, Pipe(c) PROVE TypeOK' /\ Injecting'
  BY <1>4 DEF Pipe, Move, injectVars
<1>5. ASSUME NEW c \in Conns, EndPipe(c) PROVE TypeOK' /\ Injecting'
  BY <1>5 DEF EndPipe, EndCopy, injectVars
<1>6. ASSUME NEW c \in Conns, CachedLeaf(c) PROVE TypeOK' /\ Injecting'
  BY <1>6 DEF CachedLeaf, Move, pipeVars
<1>7. ASSUME NEW c \in Conns, StartMint(c) PROVE TypeOK' /\ Injecting'
  BY <1>7 DEF StartMint, Move, pipeVars
<1>8. ASSUME NEW c \in Conns, EndMint(c) PROVE TypeOK' /\ Injecting'
  BY <1>1, <1>8 DEF EndMint, Release, Move, pipeVars
<1>9. ASSUME NEW c \in Conns, BreakOff(c) \/ Respond(c) PROVE TypeOK' /\ Injecting'
  <2>1. CASE BreakOff(c)
    BY <1>1, <2>1 DEF BreakOff, Release, pipeVars
  <2>2. CASE Respond(c)
    BY <1>1, <2>2 DEF Respond, Release, Move, pipeVars
  <2>3. QED
    BY <1>9, <2>1, <2>2
<1>10. ASSUME NEW c \in Conns, NEW p \in Peer, Finish(c, p) PROVE TypeOK' /\ Injecting'
  BY <1>10 DEF Finish, injectVars
<1>11. ASSUME NEW c \in Conns, NEW way \in Way, Stall(c, way) PROVE TypeOK' /\ Injecting'
  BY <1>11 DEF Stall, injectVars
<1>12. ASSUME NEW c \in Conns, Handshake(c) \/ ReadRequest(c) PROVE TypeOK' /\ Injecting'
  BY <1>12 DEF Handshake, ReadRequest, Move, pipeVars
<1>13. ASSUME Tick PROVE TypeOK' /\ Injecting'
  BY <1>13 DEF Tick, RunDown, pipeVars
<1>14. ASSUME Terminated \/ UNCHANGED vars PROVE TypeOK' /\ Injecting'
  BY <1>14 DEF Terminated, vars, injectVars, pipeVars
<1>15. QED
  BY <1>2, <1>3, <1>4, <1>5, <1>6, <1>7, <1>8, <1>9, <1>10, <1>11, <1>12, <1>13,
     <1>14 DEF Next, Proxy, Peers

LEMMA SlotStep == TypeOK /\ SlotInv /\ [Next]_vars => SlotInv'
<1> SUFFICES ASSUME TypeOK, SlotInv, [Next]_vars PROVE SlotInv'
  OBVIOUS
<1> USE ProxyAssumption
<1>1. ASSUME NEW c \in Conns, Acquire(c) PROVE SlotInv'
  <2>1. Holders' = Holders \cup {c} /\ c \notin Holders
    BY <1>1 DEF Acquire, Move, Holders, Held, TypeOK
  <2>2. IsFiniteSet(Holders') /\ Cardinality(Holders') = Cardinality(Holders) + 1
    BY <2>1, FS_AddElement DEF SlotInv
  <2>3. QED
    BY <1>1, <2>2 DEF SlotInv, Acquire, TypeOK
<1>2. ASSUME NEW c \in Conns, pc[c] \in Held, Release(c) PROVE SlotInv'
  <2>1. Holders' = Holders \ {c} /\ c \in Holders
    BY <1>2 DEF Holders, Held, TypeOK, Release
  <2>2. IsFiniteSet(Holders') /\ Cardinality(Holders') = Cardinality(Holders) - 1
    BY <2>1, FS_RemoveElement DEF SlotInv
  <2>3. QED
    BY <1>2, <2>2 DEF SlotInv, TypeOK, Release
<1>3. ASSUME NEW c \in Conns, NEW to, pc' = [pc EXCEPT ![c] = to],
             pc[c] \in Held <=> to \in Held, UNCHANGED slots
      PROVE  SlotInv'
  <2>1. Holders' = Holders
    BY <1>3 DEF Holders, TypeOK
  <2>2. QED
    BY <1>3, <2>1 DEF SlotInv
<1>4. ASSUME UNCHANGED <<pc, slots>> PROVE SlotInv'
  BY <1>4 DEF SlotInv, Holders
<1>5. ASSUME NEW c \in Conns, Deny(c) \/ Shed(c) \/ StartDial(c) \/ Pipe(c)
      PROVE  SlotInv'
  BY <1>3, <1>5 DEF Deny, Shed, StartDial, Pipe, Move, Held, injectVars
<1>6. ASSUME NEW c \in Conns, EndPipe(c) PROVE SlotInv'
  BY <1>4, <1>6 DEF EndPipe, EndCopy, injectVars
<1>7. ASSUME NEW c \in Conns, CachedLeaf(c) \/ StartMint(c) \/ Handshake(c) \/ ReadRequest(c)
      PROVE  SlotInv'
  BY <1>3, <1>7 DEF CachedLeaf, StartMint, Handshake, ReadRequest, Move, Held
<1>8. ASSUME NEW c \in Conns, Hijack(c) \/ EndMint(c) \/ RoundTrip(c) \/ Respond(c)
      PROVE  SlotInv'
  BY <1>2, <1>3, <1>8 DEF Hijack, EndMint, RoundTrip, Respond, Move, Held
<1>9. ASSUME NEW c \in Conns, BreakOff(c) \/ Expire(c) \/ HangUp(c) PROVE SlotInv'
  BY <1>2, <1>9 DEF BreakOff, Expire, HangUp, Held
<1>10. ASSUME NEW c \in Conns,
              (\E p \in Peer : Finish(c, p)) \/ (\E way \in Way : Stall(c, way))
       PROVE  SlotInv'
  BY <1>4, <1>10 DEF Finish, Stall, injectVars
<1>11. ASSUME Tick \/ Terminated \/ UNCHANGED vars PROVE SlotInv'
  BY <1>4, <1>11 DEF Tick, Terminated, vars, injectVars
<1>12. QED
  BY <1>1, <1>5, <1>6, <1>7, <1>8, <1>9, <1>10, <1>11 DEF Next, Proxy, Peers

LEMMA Slots == Spec => [](TypeOK /\ Injecting /\ SlotInv)
<1>1. Init => TypeOK /\ Injecting
  BY ProxyAssumption DEF Init, TypeOK, Injecting, PC, Held, Deadline, Never
<1>2. Init => SlotInv
  <2>1. Init => Holders = {} /\ slots = 0
    BY DEF Init, Holders, Held
  <2>2. QED
    BY <2>1, FS_EmptySet, ProxyAssumption DEF SlotInv
<1>3. QED
  BY <1>1, <1>2, TypeStep, SlotStep, PTL DEF Spec

\* Every variable of the gateway has its type.
THEOREM GatewayTypes == Spec => []TypeOK
  BY Slots, PTL

\* The semaphore of the injection path counts the connections that hold a
\* slot, whichever way they leave it.
THEOREM GatewaySlots == Spec => []SlotsAreHolders
<1>1. SlotInv => SlotsAreHolders
  BY DEF SlotInv, SlotsAreHolders
<1>2. QED
  BY <1>1, Slots, PTL

-----------------------------------------------------------------------------
(* Certificates.                                                           *)

\* The mutex belongs to the one that mints, for a host that has no leaf yet;
\* a leaf that is shown is the cached one.
LeafInv ==
  /\ \A c \in Conns : pc[c] = "minting" => mu = c /\ leaves[host[c]] = NoConn
  /\ mu # NoConn => pc[mu] = "minting"
  /\ OneLeafPerHost

LEMMA LeafStep ==
  TypeOK /\ Injecting /\ LeafInv /\ [Next]_vars => LeafInv'
<1> SUFFICES ASSUME TypeOK, Injecting, LeafInv, [Next]_vars PROVE LeafInv'
  OBVIOUS
<1> USE ProxyAssumption DEF LeafInv, OneLeafPerHost, TypeOK
<1>1. ASSUME NEW c \in Conns, NEW to, pc' = [pc EXCEPT ![c] = to],
             pc[c] # "minting", to # "minting", UNCHANGED <<host, mu, leaves, leaf>>
      PROVE  LeafInv'
  BY <1>1
<1>2. ASSUME UNCHANGED <<pc, host, mu, leaves, leaf>> PROVE LeafInv'
  BY <1>2
<1>3. ASSUME NEW c \in Conns, Deny(c) \/ Acquire(c) \/ Shed(c) \/ StartDial(c) \/ Pipe(c)
      PROVE  LeafInv'
  BY <1>1, <1>3 DEF Deny, Acquire, Shed, StartDial, Pipe, Move, injectVars
<1>4. ASSUME NEW c \in Conns,
             \/ EndPipe(c) \/ (\E p \in Peer : Finish(c, p))
             \/ \E way \in Way : Stall(c, way)
      PROVE  LeafInv'
  BY <1>2, <1>4 DEF EndPipe, EndCopy, Finish, Stall, injectVars
<1>5. ASSUME NEW c \in Conns,
             \/ Hijack(c) \/ BreakOff(c) \/ Expire(c) \/ Handshake(c)
             \/ ReadRequest(c) \/ RoundTrip(c) \/ Respond(c) \/ HangUp(c)
      PROVE  LeafInv'
  BY <1>1, <1>5 DEF Hijack, BreakOff, Expire, Handshake, ReadRequest, RoundTrip,
       Respond, HangUp, Release, Move
<1>6. ASSUME NEW c \in Conns, CachedLeaf(c) PROVE LeafInv'
  BY <1>6 DEF CachedLeaf, Move
<1>7. ASSUME NEW c \in Conns, StartMint(c) PROVE LeafInv'
  BY <1>7 DEF StartMint, Move
<1>8. ASSUME NEW c \in Conns, EndMint(c) PROVE LeafInv'
  <2>1. mu = c /\ leaves[host[c]] = NoConn /\ host[c] \in InjectHosts /\ mu' = NoConn
    BY <1>8 DEF EndMint, Injecting, Held
  <2>2. \A d \in Conns : pc[d] = "minting" => d = c
    BY <2>1
  <2>3. CASE pc' = [pc EXCEPT ![c] = "closed"] /\ UNCHANGED <<leaves, leaf>>
    BY <1>8, <2>1, <2>2, <2>3 DEF EndMint
  <2>4. CASE /\ pc' = [pc EXCEPT ![c] = "handshake"]
             /\ leaves' = [leaves EXCEPT ![host[c]] = c]
             /\ leaf' = [leaf EXCEPT ![c] = c]
    <3>1. \A d \in Conns : pc'[d] # "minting"
      BY <2>2, <2>4
    <3>2. ASSUME NEW d \in Conns, leaf'[d] # NoConn PROVE leaf'[d] = leaves'[host'[d]]
      BY <1>8, <2>1, <2>4, <3>2 DEF EndMint, Injecting
    <3>3. QED
      BY <2>1, <3>1, <3>2
  <2>5. QED
    BY <1>8, <2>3, <2>4 DEF EndMint, Move, Release
<1>9. ASSUME Tick \/ Terminated \/ UNCHANGED vars PROVE LeafInv'
  BY <1>2, <1>9 DEF Tick, Terminated, vars, injectVars
<1>10. QED
  BY <1>3, <1>4, <1>5, <1>6, <1>7, <1>8, <1>9 DEF Next, Proxy, Peers

\* However many connections ask for a host at once, they are shown one leaf.
THEOREM GatewayLeaves == Spec => []OneLeafPerHost
<1>1. Init => LeafInv
  BY DEF Init, LeafInv, OneLeafPerHost
<1>2. LeafInv => OneLeafPerHost
  BY DEF LeafInv
<1>3. QED
  BY <1>1, <1>2, LeafStep, Slots, PTL DEF Spec

-----------------------------------------------------------------------------
(* Pipes.                                                                  *)

LEMMA PipeStep == TypeOK /\ PipeStaysWhole /\ [Next]_vars => PipeStaysWhole'
<1> SUFFICES ASSUME TypeOK, PipeStaysWhole, [Next]_vars PROVE PipeStaysWhole'
  OBVIOUS
<1> USE DEF PipeStaysWhole, TypeOK
<1>1. ASSUME NEW c \in Conns, NEW to, pc' = [pc EXCEPT ![c] = to],
             to # "piped", UNCHANGED pipeVars
      PROVE  PipeStaysWhole'
  BY <1>1 DEF pipeVars
<1>2. ASSUME NEW c \in Conns, Pipe(c) PROVE PipeStaysWhole'
  BY <1>2 DEF Pipe, Move
<1>3. ASSUME NEW c \in Conns, NEW p \in Peer, Finish(c, p) PROVE PipeStaysWhole'
  BY <1>3 DEF Finish
<1>4. ASSUME NEW c \in Conns, NEW way \in Way, Stall(c, way) PROVE PipeStaysWhole'
  BY <1>4 DEF Stall
<1>5. ASSUME NEW c \in Conns, EndPipe(c) PROVE PipeStaysWhole'
  <2>0. "src" \in Socket /\ "dst" \in Socket /\ "src" # "dst"
    BY DEF Socket
  <2>1. ~(Socket \subseteq {"src"}) /\ ~(Socket \subseteq {"dst"})
    BY <2>0
  <2>2. ASSUME NEW way, NEW source, NEW target \in Socket, EndCopy(c, way, source, target)
        PROVE  PipeStaysWhole'
    <3>1. ~(pc[c] = "piped" /\ finished[c] = {})
      BY <2>1, <2>2 DEF EndCopy, Socket
    <3>2. QED
      BY <2>2, <3>1 DEF EndCopy
  <2>3. QED
    BY <1>5, <2>2 DEF EndPipe, Socket
<1>6. ASSUME NEW c \in Conns,
             \/ Deny(c) \/ Acquire(c) \/ Shed(c) \/ Hijack(c) \/ StartDial(c)
             \/ CachedLeaf(c) \/ StartMint(c) \/ EndMint(c) \/ BreakOff(c) \/ Expire(c)
             \/ Handshake(c) \/ ReadRequest(c) \/ RoundTrip(c) \/ Respond(c) \/ HangUp(c)
      PROVE  PipeStaysWhole'
  BY <1>1, <1>6 DEF Deny, Acquire, Shed, Hijack, StartDial, CachedLeaf, StartMint,
       EndMint, BreakOff, Expire, Handshake, ReadRequest, RoundTrip, Respond, HangUp,
       Release, Move
<1>7. ASSUME Tick \/ Terminated \/ UNCHANGED vars PROVE PipeStaysWhole'
  BY <1>7 DEF Tick, Terminated, vars, pipeVars
<1>8. QED
  BY <1>2, <1>3, <1>4, <1>5, <1>6, <1>7 DEF Next, Proxy, Peers

\* No goroutine closes a socket that a pipe with both peers sending needs.
THEOREM GatewayPipes == Spec => []PipeStaysWhole
<1>1. Init => PipeStaysWhole
  BY DEF Init, PipeStaysWhole
<1>2. QED
  BY <1>1, PipeStep, Slots, PTL DEF Spec

-----------------------------------------------------------------------------
(* What PipeIsTornDown and SilentClientsDropped rest on: that nothing is    *)
(* left to wait for.                                                       *)

\* Each goroutine of a pipe takes its own target with it when it ends, so no
\* socket stays open that nobody will close.
SocketsHaveOwners ==
  \A c \in Conns :
    /\ "dst" \in open[c] <=> "up" \in copying[c]
    /\ "src" \in open[c] <=> "down" \in copying[c]

\* For any connections, a socket of a pipe is open exactly as long as the
\* goroutine that closes it runs: two ended goroutines leave two closed sockets.
THEOREM GatewayClosesPipes == Spec => []SocketsHaveOwners
<1>1. Init => SocketsHaveOwners
  BY DEF Init, SocketsHaveOwners
<1>2. TypeOK /\ SocketsHaveOwners /\ [Next]_vars => SocketsHaveOwners'
  <2> SUFFICES ASSUME TypeOK, SocketsHaveOwners, [Next]_vars PROVE SocketsHaveOwners'
    OBVIOUS
  <2> USE DEF SocketsHaveOwners, TypeOK
  <2>1. ASSUME UNCHANGED <<open, copying>> PROVE SocketsHaveOwners'
    BY <2>1
  <2>2. ASSUME NEW c \in Conns, Pipe(c) PROVE SocketsHaveOwners'
    BY <2>1, <2>2 DEF Pipe, Socket, Way
  <2>3. ASSUME NEW c \in Conns, EndPipe(c) PROVE SocketsHaveOwners'
    <3>1. CASE EndCopy(c, "up", "client", "dst")
      BY <3>1 DEF EndCopy
    <3>2. CASE EndCopy(c, "down", "upstream", "src")
      BY <3>2 DEF EndCopy
    <3>3. QED
      BY <2>3, <3>1, <3>2 DEF EndPipe
  <2>4. ASSUME NEW c \in Conns,
               \/ Deny(c) \/ Acquire(c) \/ Shed(c) \/ Hijack(c) \/ StartDial(c)
               \/ CachedLeaf(c) \/ StartMint(c) \/ EndMint(c) \/ BreakOff(c) \/ Expire(c)
               \/ Peers(c)
        PROVE  SocketsHaveOwners'
    BY <2>1, <2>4 DEF Deny, Acquire, Shed, Hijack, StartDial, CachedLeaf, StartMint,
         EndMint, BreakOff, Expire, Peers, Finish, Stall, Handshake, ReadRequest,
         RoundTrip, Respond, HangUp, pipeVars
  <2>5. ASSUME Tick \/ Terminated \/ UNCHANGED vars PROVE SocketsHaveOwners'
    BY <2>1, <2>5 DEF Tick, Terminated, vars, pipeVars
  <2>6. QED
    BY <2>2, <2>3, <2>4, <2>5 DEF Next, Proxy
<1>3. QED
  BY <1>1, <1>2, Slots, PTL DEF Spec

\* A connection that waits for its client has a read deadline that runs.
WaitsAreTimed == \A c \in Conns : pc[c] \in {"handshake", "read"} => rd[c] # Never

\* For any connections and any number of requests on each, mitmInject never
\* waits for a client's handshake or next request without a deadline.
THEOREM GatewayTimesWaits == Spec => []WaitsAreTimed
<1>1. Init => WaitsAreTimed
  BY DEF Init, WaitsAreTimed
<1>2. TypeOK /\ WaitsAreTimed /\ [Next]_vars => WaitsAreTimed'
  <2> SUFFICES ASSUME TypeOK, WaitsAreTimed, [Next]_vars PROVE WaitsAreTimed'
    OBVIOUS
  <2> USE ProxyAssumption DEF WaitsAreTimed, TypeOK, Deadline, Never, Move, Release
  <2>1. ASSUME UNCHANGED rd, NEW c \in Conns, NEW to, pc' = [pc EXCEPT ![c] = to],
               to \notin {"handshake", "read"}
        PROVE  WaitsAreTimed'
    BY <2>1
  <2>2. ASSUME UNCHANGED <<pc, rd>> PROVE WaitsAreTimed'
    BY <2>2
  <2>3. ASSUME NEW c \in Conns,
               \/ Deny(c) \/ Acquire(c) \/ Shed(c) \/ Hijack(c) \/ StartDial(c)
               \/ Pipe(c) \/ StartMint(c) \/ BreakOff(c) \/ Expire(c)
               \/ RoundTrip(c) \/ HangUp(c)
        PROVE  WaitsAreTimed'
    BY <2>1, <2>3 DEF Deny, Acquire, Shed, Hijack, StartDial, Pipe, StartMint,
         BreakOff, Expire, RoundTrip, HangUp, injectVars
  <2>4. ASSUME NEW c \in Conns, CachedLeaf(c) \/ Handshake(c) \/ ReadRequest(c)
        PROVE  WaitsAreTimed'
    BY <2>4 DEF CachedLeaf, Handshake, ReadRequest
  <2>5. ASSUME NEW c \in Conns, EndMint(c) PROVE WaitsAreTimed'
    BY <2>5 DEF EndMint
  <2>6. ASSUME NEW c \in Conns, Respond(c) PROVE WaitsAreTimed'
    BY <2>6 DEF Respond
  <2>7. ASSUME NEW c \in Conns,
               \/ EndPipe(c) \/ (\E p \in Peer : Finish(c, p))
               \/ \E way \in Way : Stall(c, way)
        PROVE  WaitsAreTimed'
    BY <2>2, <2>7 DEF EndPipe, EndCopy, Finish, Stall, injectVars
  <2>8. ASSUME Tick PROVE WaitsAreTimed'
    BY <2>8 DEF Tick, RunDown
  <2>9. ASSUME Terminated \/ UNCHANGED vars PROVE WaitsAreTimed'
    BY <2>2, <2>9 DEF Terminated, vars, injectVars
  <2>10. QED
    BY <2>3, <2>4, <2>5, <2>6, <2>7, <2>8, <2>9 DEF Next, Proxy, Peers
<1>3. QED
  BY <1>1, <1>2, Slots, PTL DEF Spec

-----------------------------------------------------------------------------
(* What the pack permits.                                                  *)

LEMMA LowerIsSame ==
  ASSUME NEW h \in Names, NEW n \in Names
  PROVE  Lower(h) = Lower(n) <=> SameName(h, n)
<1>1. Len(h) \in Nat /\ Len(n) \in Nat
  BY DEF Names
<1>2. ASSUME Lower(h) = Lower(n) PROVE Len(h) = Len(n)
  <2>1. DOMAIN Lower(h) = 1..Len(h) /\ DOMAIN Lower(n) = 1..Len(n)
    BY DEF Lower
  <2>2. 1..Len(h) = 1..Len(n)
    BY <1>2, <2>1
  <2>3. QED
    BY <1>1, <2>2
<1>3. ASSUME Len(h) = Len(n)
      PROVE  Lower(h) = Lower(n) <=> \A i \in 1..Len(n) : Fold[h[i]] = Fold[n[i]]
  BY <1>3 DEF Lower
<1>4. QED
  BY <1>2, <1>3 DEF SameName

LEMMA LowerIsName ==
  ASSUME NEW h \in Names, Fold \in [Labels -> Labels]
  PROVE  Lower(h) \in Names /\ Len(Lower(h)) = Len(h)
<1>1. Len(h) \in Nat /\ \A i \in 1..Len(h) : Fold[h[i]] \in Labels
  BY DEF Names
<1>2. QED
  BY <1>1 DEF Lower, Names

LEMMA LowerIsBelow ==
  ASSUME NEW h \in Names, NEW n \in Names, Fold \in [Labels -> Labels]
  PROVE  Below(Lower(h), Lower(n)) <=> Subdomain(h, n)
<1>1. Lower(h) \in Names /\ Len(Lower(h)) = Len(h)
  BY LowerIsName
<1>2. Lower(n) \in Names /\ Len(Lower(n)) = Len(n)
  BY LowerIsName
<1>3. CASE Len(h) > Len(n)
  <2> DEFINE t == SubSeq(Lower(h), Len(h) - Len(n) + 1, Len(h))
  <2>1. Len(t) = Len(n) /\ \A i \in 1..Len(n) : t[i] = Lower(h)[Len(h) - Len(n) + i]
    BY <1>1, <1>3 DEF Names
  <2>2. t \in Seq(Labels)
    BY <1>1, <1>3 DEF Names
  <2>3. t = Lower(n) <=> \A i \in 1..Len(n) : t[i] = Lower(n)[i]
    <3>1. DOMAIN t = 1..Len(n) /\ t = [i \in DOMAIN t |-> t[i]]
      BY <2>1, <2>2
    <3>2. Lower(n) = [i \in 1..Len(n) |-> Fold[n[i]]]
      BY DEF Lower
    <3>3. QED
      BY <3>1, <3>2
  <2>4. \A i \in 1..Len(n) : Lower(h)[Len(h) - Len(n) + i] = Fold[h[Len(h) - Len(n) + i]]
    BY <1>3 DEF Lower, Names
  <2>5. \A i \in 1..Len(n) : Lower(n)[i] = Fold[n[i]]
    BY DEF Lower
  <2>6. QED
    BY <1>1, <1>2, <1>3, <2>1, <2>3, <2>4, <2>5 DEF Below, Subdomain
<1>4. CASE ~(Len(h) > Len(n))
  BY <1>1, <1>2, <1>4 DEF Below, Subdomain
<1>5. QED
  BY <1>3, <1>4

\* The gateway permits exactly what the entries of the pack say, in whatever
\* spelling either side uses: nothing is lost or gained by dropping blanks,
\* joining, splitting and lowering.
THEOREM AllowedIsWhatThePackSays ==
  ASSUME NEW p \in Pack, NEW h \in Names, Fold \in [Labels -> Labels]
  PROVE  Allowed(Gateway(p), h) <=>
           /\ ValidHostname(h)
           /\ \E d \in p.model \cup p.infra : \E e \in Entries(d) : Permits(e, h)
<1> DEFINE E == Fields(AllowedDomains(p))
<1>1. \A e : e \in E <=> \E d \in p.model \cup p.infra : e \in Entries(d) /\ e.kind # "blank"
  <2>1. ASSUME NEW d \in p.model \cup p.infra, NEW e \in Entries(d), e.kind # "blank"
        PROVE  ~Blank(d)
    <3>1. d \in Seq(Entry) /\ Len(d) \in Nat
      BY DEF Pack, Domain
    <3>2. QED
      BY <2>1, <3>1 DEF Blank, Entries
  <2>2. QED
    BY <2>1 DEF Fields, AllowedDomains
<1>2. \A e \in E : e.name \in Names
  <2>1. ASSUME NEW d \in p.model \cup p.infra, NEW e \in Entries(d) PROVE e.name \in Names
    <3>1. d \in Seq(Entry) /\ Len(d) \in Nat
      BY DEF Pack, Domain
    <3>2. e \in Entry
      BY <3>1 DEF Entries
    <3>3. QED
      BY <3>2 DEF Entry
  <2>2. QED
    BY <1>1, <2>1
<1>3. Lower(h) \in New(E).allow <=> \E e \in E : e.kind = "host" /\ SameName(h, e.name)
  BY <1>2, LowerIsSame DEF New
<1>4. (\E n \in New(E).suffixes : Below(Lower(h), n)) <=>
        \E e \in E : e.kind = "sub" /\ e.name # <<>> /\ Subdomain(h, e.name)
  BY <1>2, LowerIsBelow DEF New
<1>5. New(E).allowAll <=> \E e \in E : e.kind = "all"
  BY DEF New
<1>6. Allowed(Gateway(p), h) <=> ValidHostname(h) /\ \E e \in E : Permits(e, h)
  BY <1>3, <1>4, <1>5 DEF Allowed, Gateway, Permits
<1>7. (\E e \in E : Permits(e, h)) <=>
        \E d \in p.model \cup p.infra : \E e \in Entries(d) : Permits(e, h)
  BY <1>1 DEF Permits
<1>8. QED
  BY <1>6, <1>7

\* Fail-closed: a pack without an entry that names something permits nothing.
THEOREM EmptyAllowlistDeniesAll ==
  ASSUME NEW p \in Pack, NEW h \in Names, Fold \in [Labels -> Labels],
         \A d \in p.model \cup p.infra : \A e \in Entries(d) :
           e.kind = "blank" \/ (e.kind = "sub" /\ e.name = <<>>)
  PROVE  ~Allowed(Gateway(p), h)
BY AllowedIsWhatThePackSays DEF Permits

\* No spelling of an injected host slips past the injection, and none is
\* refused: whoever asks for a host the operator named, and for a port of it,
\* reaches it through the proxy that adds the credential.
THEOREM EverySpellingIsInjected ==
  ASSUME NEW p \in Pack, NEW hosts \in SUBSET Names, NEW h \in Names,
         Fold \in [Labels -> Labels], \A l \in Labels : Fold[Fold[l]] = Fold[l],
         SetInjector(Gateway(p), InjectKeys(hosts)),
         ValidHostname(h), NEW g \in hosts, SameName(h, g)
  PROVE  Injected(Gateway(p), InjectKeys(hosts), h, TRUE)
<1>1. Lower(h) = Lower(g)
  BY LowerIsSame
<1>2. Lower(h) \in InjectKeys(hosts)
  BY <1>1 DEF InjectKeys
<1>3. Lower(h) \in Names /\ Lower(Lower(h)) = Lower(h)
  BY DEF Lower, Names
<1>4. Allowed(Gateway(p), Lower(h))
  BY <1>2 DEF SetInjector
<1>5. Allowed(Gateway(p), h)
  BY <1>3, <1>4 DEF Allowed
<1>6. QED
  BY <1>2, <1>5 DEF Injected

\* The operator is warned of a box without a boundary exactly when the gateway
\* has none, as long as each domain of the pack is one entry without blanks
\* around it.  For others the two disagree: cmdProxy splits and trims, the
\* warning does not.
THEOREM WarningIsExact ==
  ASSUME NEW p \in Pack,
         \A d \in p.model \cup p.infra : Len(d) = 1 /\ ~d[1].padded
  PROVE  Warns(p) <=> Gateway(p).allowAll
<1>1. Gateway(p).allowAll <=> \E e \in Fields(AllowedDomains(p)) : e.kind = "all"
  BY DEF Gateway, New
<1>2. (\E e \in Fields(AllowedDomains(p)) : e.kind = "all") <=>
        \E d \in AllowedDomains(p) : d[1].kind = "all"
  BY DEF Fields, Entries, AllowedDomains
<1>3. QED
  BY <1>1, <1>2 DEF Warns, AllowedDomains

\* ... as for a domain "*,host": it opens the gateway to everything, and the
\* operator reads no warning.
THEOREM WarningMissesAList ==
  ASSUME NEW p \in Pack, NEW a \in Entry, NEW b \in Entry, a.kind = "all",
         p.model = {<<a, b>>}, p.infra = {}
  PROVE  Gateway(p).allowAll /\ ~Warns(p)
<1> DEFINE d == <<a, b>>
<1>1. Len(d) = 2 /\ d[1] = a /\ 1 \in 1..Len(d)
  OBVIOUS
<1> HIDE DEF d
<1>2. AllowedDomains(p) = {d}
  BY <1>1 DEF AllowedDomains, Blank, d
<1>3. a \in Fields(AllowedDomains(p))
  BY <1>1, <1>2 DEF Fields, Entries
<1>4. Gateway(p).allowAll
  BY <1>3 DEF Gateway, New
<1>5. ~Warns(p)
  BY <1>1, <1>2 DEF Warns
<1>6. QED
  BY <1>4, <1>5

\* A pack that Validate lets run something has a gateway that permits something,
\* as long as each of its domains is one entry and not "*." alone.  With lists
\* it may not: a domain of nothing but commas passes Validate.
THEOREM ValidPackPermits ==
  ASSUME NEW p \in Pack, Validate(p), p.scope # "track-only",
         \A d \in p.model \cup p.infra : Len(d) = 1 /\ ~(d[1].kind = "sub" /\ d[1].name = <<>>)
  PROVE  LET g == Gateway(p)
         IN g.allowAll \/ g.allow # {} \/ g.suffixes # {}
<1>1. PICK d \in AllowedDomains(p) : TRUE
  BY DEF Validate
<1>2. d \in p.model \cup p.infra /\ Len(d) = 1 /\ d[1].kind # "blank"
  BY DEF AllowedDomains, Blank
<1>3. d[1] \in Fields(AllowedDomains(p))
  BY <1>2 DEF Fields, Entries
<1>4. d[1].kind \in Kinds
  <2>1. d \in Seq(Entry)
    BY <1>2 DEF Pack, Domain
  <2>2. d[1] \in Entry
    BY <1>2, <2>1
  <2>3. QED
    BY <2>2 DEF Entry
<1>5. CASE d[1].kind = "all"
  BY <1>3, <1>5 DEF Gateway, New
<1>6. CASE d[1].kind = "host"
  BY <1>3, <1>6 DEF Gateway, New
<1>7. CASE d[1].kind = "sub"
  BY <1>2, <1>3, <1>7 DEF Gateway, New
<1>8. QED
  BY <1>2, <1>4, <1>5, <1>6, <1>7 DEF Kinds
=============================================================================
