------------------------ MODULE SessionLedgerProofs ------------------------
(***************************************************************************)
(* For any number of requests: what the ledger and the receipt say as long *)
(* as calls of Append do not overlap, and that the file is tamper-evident. *)
(***************************************************************************)
EXTENDS SessionLedger, SequenceTheorems, FiniteSetTheorems,
        WellFoundedInduction, TLAPS

-----------------------------------------------------------------------------
(* Induction over a chain.  The library's induction theorems have an       *)
(* operator as a parameter; this one has a set, and follows from finite    *)
(* sets being well founded under inclusion.                                *)

LEMMA Induction ==
  ASSUME NEW T, 0 \in T, \A n \in Nat : n \in T => n + 1 \in T
  PROVE  Nat \subseteq T
<1> DEFINE Bad == {1..n : n \in Nat \ T}
<1>1. \A n \in Nat : 1..n \in FiniteSubsetsOf(Nat)
  BY FS_Interval DEF FiniteSubsetsOf
<1>2. ASSUME Bad # {} PROVE FALSE
  <2>1. Bad \subseteq FiniteSubsetsOf(Nat)
    BY <1>1
  <2>2. IsWellFoundedOn(StrictSubsetOrdering(Nat), FiniteSubsetsOf(Nat))
    BY FS_StrictSubsetOrderingWellFounded
  <2>3. PICK S \in Bad : \A U \in Bad : ~ (<<U, S>> \in StrictSubsetOrdering(Nat))
    <3> HIDE DEF Bad
    <3>1. QED
      BY <1>2, <2>1, <2>2, WFMin
  <2>4. PICK n \in Nat \ T : S = 1..n
    OBVIOUS
  <2>5. n # 0 /\ n - 1 \in Nat
    BY <2>4
  <2>6. n - 1 \notin T
    BY <2>4, <2>5
  <2>7. <<1..(n - 1), 1..n>> \in StrictSubsetOrdering(Nat)
    <3>1. 1..(n - 1) \subseteq 1..n /\ n \in 1..n /\ n \notin 1..(n - 1)
      BY <2>5
    <3>2. 1..n \in SUBSET Nat /\ 1..(n - 1) \in SUBSET Nat
      OBVIOUS
    <3>3. QED
      BY <3>1, <3>2 DEF StrictSubsetOrdering
  <2>8. QED
    BY <2>3, <2>4, <2>5, <2>6, <2>7
<1>3. QED
  BY <1>2

-----------------------------------------------------------------------------
(* Chains.                                                                 *)

\* The hashes of the first n payloads, as the recursive function of Rebuilt.
Chain(p, n, h) ==
  h = [i \in 0..n |-> IF i = 0 THEN Genesis ELSE HashEntry(h[i - 1], i - 1, p[i])]

\* The recursion defines a function for every length.
LEMMA ChainExists ==
  ASSUME NEW p, NEW n \in Nat
  PROVE  \E h : Chain(p, n, h)
<1> DEFINE T == {m \in Nat : \E h : Chain(p, m, h)}
<1>1. 0 \in T
  <2> DEFINE h == [i \in 0..0 |-> Genesis]
  <2>1. h = [i \in 0..0 |->
               IF i = 0 THEN Genesis ELSE HashEntry(h[i - 1], i - 1, p[i])]
    OBVIOUS
  <2>2. QED
    BY <2>1 DEF Chain
<1>2. ASSUME NEW m \in Nat, m \in T PROVE m + 1 \in T
  <2>1. PICK h : Chain(p, m, h)
    BY <1>2
  <2> DEFINE g == [i \in 0..(m + 1) |->
                     IF i \in 0..m THEN h[i] ELSE HashEntry(h[m], m, p[m + 1])]
  <2>2. ASSUME NEW i \in 0..(m + 1)
        PROVE  g[i] = IF i = 0 THEN Genesis ELSE HashEntry(g[i - 1], i - 1, p[i])
    <3>1. CASE i = 0
      BY <2>1, <3>1 DEF Chain
    <3>2. CASE i \in 1..m
      <4>1. i \in 0..m /\ i # 0 /\ i - 1 \in 0..m /\ i - 1 \in 0..(m + 1)
        BY <3>2
      <4>2. h[i] = HashEntry(h[i - 1], i - 1, p[i])
        BY <2>1, <4>1 DEF Chain
      <4>3. g[i] = h[i] /\ g[i - 1] = h[i - 1]
        BY <4>1
      <4>4. QED
        BY <4>1, <4>2, <4>3
    <3>3. CASE i = m + 1
      BY <3>3
    <3>4. QED
      BY <3>1, <3>2, <3>3
  <2>3. g = [i \in 0..(m + 1) |->
               IF i = 0 THEN Genesis ELSE HashEntry(g[i - 1], i - 1, p[i])]
    <3>1. g = [i \in 0..(m + 1) |-> g[i]]
      OBVIOUS
    <3> HIDE DEF g
    <3>2. QED
      BY <2>2, <3>1
  <2>4. Chain(p, m + 1, g)
    BY <2>3 DEF Chain
  <2>5. QED
    BY <2>4
<1>3. Nat \subseteq T
  <2> HIDE DEF T
  <2>1. QED
    BY <1>1, <1>2, Induction
<1>4. QED
  BY <1>3

LEMMA RebuiltIsChain ==
  ASSUME NEW p, Len(p) \in Nat
  PROVE  \E h : /\ Chain(p, Len(p), h)
                /\ Rebuilt(p) = [i \in 1..Len(p) |->
                                   Entry(i - 1, p[i], h[i - 1], h[i])]
<1> DEFINE H == CHOOSE h : Chain(p, Len(p), h)
<1>1. Chain(p, Len(p), H)
  BY ChainExists
<1>2. Rebuilt(p) = [i \in 1..Len(p) |-> Entry(i - 1, p[i], H[i - 1], H[i])]
  BY DEF Rebuilt, Chain
<1>3. QED
  BY <1>1, <1>2

\* A rebuilt chain verifies, and has the payloads it was built from.
LEMMA RebuiltVerifies ==
  ASSUME NEW p, Len(p) \in Nat
  PROVE  /\ Len(Rebuilt(p)) = Len(p)
         /\ Rebuilt(p) = [i \in 1..Len(p) |-> Rebuilt(p)[i]]
         /\ \A i \in 1..Len(p) :
              /\ Rebuilt(p)[i].payload = p[i]
              /\ Rebuilt(p)[i] = Entry(i - 1, p[i], Rebuilt(p)[i].prev,
                                       Rebuilt(p)[i].hash)
         /\ Verifies(Rebuilt(p))
<1> DEFINE e == Rebuilt(p)
<1>1. PICK h : /\ Chain(p, Len(p), h)
               /\ e = [i \in 1..Len(p) |-> Entry(i - 1, p[i], h[i - 1], h[i])]
  BY RebuiltIsChain
<1> HIDE DEF e
<1>2. Len(e) = Len(p) /\ e = [i \in 1..Len(p) |-> e[i]]
  BY <1>1
<1>3. ASSUME NEW i \in 1..Len(p)
      PROVE  /\ e[i] = Entry(i - 1, p[i], h[i - 1], h[i])
             /\ e[i].seq = i - 1 /\ e[i].payload = p[i]
             /\ e[i].prev = h[i - 1] /\ e[i].hash = h[i]
  BY <1>1 DEF Entry
<1>4. h[0] = Genesis /\ \A i \in 1..Len(p) : h[i] = HashEntry(h[i - 1], i - 1, p[i])
  <2>1. 0 \in 0..Len(p) /\ \A i \in 1..Len(p) : i \in 0..Len(p) /\ i # 0
    OBVIOUS
  <2>2. \A i \in 0..Len(p) :
          h[i] = IF i = 0 THEN Genesis ELSE HashEntry(h[i - 1], i - 1, p[i])
    BY <1>1, Zenon DEF Chain
  <2>3. QED
    BY <2>1, <2>2
<1>5. \A i \in 1..Len(p) : PrevHash(e, i) = h[i - 1]
  <2> SUFFICES ASSUME NEW i \in 1..Len(p) PROVE PrevHash(e, i) = h[i - 1]
    OBVIOUS
  <2>1. CASE i = 1
    BY <1>4, <2>1 DEF PrevHash
  <2>2. CASE i # 1
    <3>1. i - 1 \in 1..Len(p)
      BY <2>2
    <3>2. QED
      BY <1>3, <2>2, <3>1 DEF PrevHash
  <2>3. QED
    BY <2>1, <2>2
<1>6. Verifies(e)
  BY <1>2, <1>3, <1>4, <1>5 DEF Verifies
<1>7. QED
  BY <1>2, <1>3, <1>6 DEF e

\* Different hashes stay different however the chains go on.
LEMMA HashInjective ==
  ASSUME NEW a, NEW b, NEW i, NEW j, NEW p, NEW q,
         HashEntry(a, i, p) = HashEntry(b, j, q)
  PROVE  a = b /\ i = j /\ p = q
BY DEF HashEntry

LEMMA GenesisIsNoHash ==
  ASSUME NEW a, NEW i, NEW p
  PROVE  HashEntry(a, i, p) # Genesis
<1>1. Len(HashEntry(a, i, p)) = 3 /\ Len(Genesis) = 0
  BY DEF HashEntry, Genesis
<1>2. QED
  BY <1>1

\* Two chains of one length that verify and differ in a payload end in
\* different hashes.
LEMMA HeadsDiffer ==
  ASSUME NEW e, NEW d, NEW n \in Nat, Len(e) = n, Len(d) = n,
         Verifies(e), Verifies(d),
         NEW i \in 1..n, e[i].payload # d[i].payload
  PROVE  HeadHash(e) # HeadHash(d)
<1> DEFINE T == {m \in Nat : i + m \in 1..n => e[i + m].hash # d[i + m].hash}
<1>1. \A j \in 1..n : /\ e[j].hash = HashEntry(PrevHash(e, j), j - 1, e[j].payload)
                      /\ d[j].hash = HashEntry(PrevHash(d, j), j - 1, d[j].payload)
  BY DEF Verifies
<1>2. 0 \in T
  BY <1>1, HashInjective
<1>3. ASSUME NEW m \in Nat, m \in T PROVE m + 1 \in T
  <2>1. CASE i + (m + 1) \in 1..n
    <3>1. i + m \in 1..n /\ i + (m + 1) - 1 = i + m /\ i + (m + 1) # 1
      BY <2>1
    <3>2. /\ PrevHash(e, i + (m + 1)) = e[i + m].hash
          /\ PrevHash(d, i + (m + 1)) = d[i + m].hash
      BY <3>1 DEF PrevHash
    <3>3. e[i + m].hash # d[i + m].hash
      BY <1>3, <3>1
    <3>4. e[i + (m + 1)].hash # d[i + (m + 1)].hash
      BY <1>1, <2>1, <3>2, <3>3, HashInjective
    <3>5. QED
      BY <3>4
  <2>2. QED
    BY <2>1
<1>4. Nat \subseteq T
  <2> HIDE DEF T
  <2>1. QED
    BY <1>2, <1>3, Induction
<1>5. e[n].hash # d[n].hash
  <2>1. n - i \in Nat /\ i + (n - i) = n /\ n \in 1..n
    OBVIOUS
  <2>2. n - i \in T
    <3> HIDE DEF T
    <3>1. QED
      BY <1>4, <2>1
  <2>3. QED
    BY <2>1, <2>2
<1>6. QED
  BY <1>5 DEF HeadHash, PrevHash

-----------------------------------------------------------------------------
(* Ledgers: sequences of records Append makes.                             *)

Elements(s) == {s[i] : i \in 1..Len(s)}

IsLedger(s) ==
  /\ s \in Seq(Elements(s))
  /\ \A i \in 1..Len(s) :
       /\ s[i] = Entry(s[i].seq, s[i].payload, s[i].prev, s[i].hash)
       /\ s[i].seq \in Nat /\ s[i].payload \in PayloadSet

LEMMA IsLedgerIntro ==
  ASSUME NEW s, NEW n \in Nat, s = [i \in 1..n |-> s[i]], Len(s) = n,
         \A i \in 1..n :
            /\ s[i] = Entry(s[i].seq, s[i].payload, s[i].prev, s[i].hash)
            /\ s[i].seq \in Nat /\ s[i].payload \in PayloadSet
  PROVE  IsLedger(s)
<1>1. s \in Seq(Elements(s))
  <2>1. s \in [1..n -> Elements(s)]
    BY DEF Elements
  <2>2. QED
    BY <2>1
<1>2. QED
  BY <1>1 DEF IsLedger

LEMMA LedgerLength ==
  ASSUME NEW s, IsLedger(s)
  PROVE  /\ Len(s) \in Nat /\ DOMAIN s = 1..Len(s)
         /\ s = [i \in 1..Len(s) |-> s[i]]
BY LenProperties DEF IsLedger

\* What append does to a ledger.
LEMMA Appended ==
  ASSUME NEW s, IsLedger(s), NEW n \in Nat, NEW x \in PayloadSet, NEW a, NEW b
  PROVE  LET t == Append(s, Entry(n, x, a, b))
         IN /\ IsLedger(t)
            /\ Len(t) = Len(s) + 1
            /\ \A i \in 1..Len(s) : t[i] = s[i]
            /\ t[Len(s) + 1] = Entry(n, x, a, b)
<1> DEFINE e == Entry(n, x, a, b)
           S == Elements(s) \cup {e}
           t == Append(s, e)
<1>1. Len(s) \in Nat
  BY LedgerLength
<1>2. e = Entry(e.seq, e.payload, e.prev, e.hash) /\ e.seq = n /\ e.payload = x
  BY DEF Entry
<1>3. s \in Seq(S)
  <2>1. s \in [1..Len(s) -> S]
    BY LedgerLength DEF Elements
  <2>2. QED
    BY <1>1, <2>1
<1> HIDE DEF e
<1>4. /\ Len(t) = Len(s) + 1 /\ DOMAIN t = 1..(Len(s) + 1)
      /\ \A i \in 1..Len(s) : t[i] = s[i]
      /\ t[Len(s) + 1] = e
      /\ t \in Seq(S)
  <2>1. e \in S
    OBVIOUS
  <2> HIDE DEF S
  <2>2. QED
    BY <1>1, <1>3, <2>1, AppendProperties
<1> HIDE DEF t
<1>5. t = [i \in 1..Len(t) |-> t[i]]
  BY <1>4, LenProperties
<1>6. \A i \in 1..Len(t) :
        /\ t[i] = Entry(t[i].seq, t[i].payload, t[i].prev, t[i].hash)
        /\ t[i].seq \in Nat /\ t[i].payload \in PayloadSet
  <2> SUFFICES ASSUME NEW i \in 1..Len(t)
               PROVE  /\ t[i] = Entry(t[i].seq, t[i].payload, t[i].prev, t[i].hash)
                      /\ t[i].seq \in Nat /\ t[i].payload \in PayloadSet
    OBVIOUS
  <2>1. CASE i \in 1..Len(s)
    BY <1>4, <2>1 DEF IsLedger
  <2>2. CASE i = Len(s) + 1
    BY <1>2, <1>4, <2>2
  <2>3. QED
    BY <1>1, <1>4, <2>1, <2>2
<1>7. IsLedger(t)
  <2>1. Len(t) \in Nat
    BY <1>1, <1>4
  <2>2. QED
    BY <1>5, <1>6, <2>1, IsLedgerIntro
<1>8. QED
  BY <1>4, <1>7 DEF e, t

\* A ledger goes on verifying when the entry that Append computes is added.
LEMMA AppendVerifies ==
  ASSUME NEW s, IsLedger(s), Verifies(s), NEW x \in PayloadSet, NEW h,
         h = HashEntry(HeadHash(s), Len(s), x)
  PROVE  LET t == Append(s, Entry(Len(s), x, HeadHash(s), h))
         IN Verifies(t) /\ HeadHash(t) = h
<1> DEFINE e == Entry(Len(s), x, HeadHash(s), h)
           t == Append(s, e)
<1>1. Len(s) \in Nat
  BY LedgerLength
<1>2. /\ Len(t) = Len(s) + 1
      /\ \A i \in 1..Len(s) : t[i] = s[i]
      /\ t[Len(s) + 1] = e
  BY <1>1, Appended
<1>3. e.seq = Len(s) /\ e.payload = x /\ e.prev = HeadHash(s) /\ e.hash = h
  BY DEF Entry
<1> HIDE DEF e, t
<1>4. \A i \in 1..(Len(s) + 1) : PrevHash(t, i) = PrevHash(s, i)
  BY <1>1, <1>2 DEF PrevHash
<1>5. ASSUME NEW i \in 1..Len(t)
      PROVE  /\ t[i].seq = i - 1
             /\ t[i].prev = PrevHash(t, i)
             /\ t[i].hash = HashEntry(PrevHash(t, i), i - 1, t[i].payload)
  <2>1. CASE i \in 1..Len(s)
    BY <1>1, <1>2, <1>4, <2>1 DEF Verifies
  <2>2. CASE i = Len(s) + 1
    BY <1>1, <1>2, <1>3, <1>4, <2>2 DEF HeadHash
  <2>3. QED
    BY <1>1, <1>2, <2>1, <2>2
<1>6. HeadHash(t) = h
  BY <1>1, <1>2, <1>3 DEF HeadHash, PrevHash
<1>7. QED
  BY <1>5, <1>6 DEF Verifies, e, t

-----------------------------------------------------------------------------
(* Tampering with a ledger that verifies.                                  *)

\* An edited payload no longer has its hash.
LEMMA EditShows ==
  ASSUME NEW s, IsLedger(s), Verifies(s), NEW i \in 1..Len(s), NEW p,
         p # s[i].payload
  PROVE  ~Verifies([s EXCEPT ![i].payload = p])
<1> DEFINE d == [s EXCEPT ![i].payload = p]
<1>1. Len(s) \in Nat /\ DOMAIN s = 1..Len(s)
  BY LedgerLength
<1>2. Len(d) = Len(s)
  BY <1>1
<1>3. \A j \in 1..Len(s) : d[j].hash = s[j].hash
  BY <1>1 DEF IsLedger, Entry
<1>4. d[i].payload = p
  BY <1>1 DEF IsLedger, Entry
<1>5. PrevHash(d, i) = PrevHash(s, i)
  BY <1>1, <1>3 DEF PrevHash
<1>6. s[i].hash = HashEntry(PrevHash(s, i), i - 1, s[i].payload)
  BY DEF Verifies
<1> HIDE DEF d
<1>7. ASSUME Verifies(d) PROVE FALSE
  <2>1. d[i].hash = HashEntry(PrevHash(d, i), i - 1, p)
    BY <1>2, <1>4, <1>7 DEF Verifies
  <2>2. QED
    BY <1>3, <1>5, <1>6, <2>1, HashInjective
<1>8. QED
  BY <1>7 DEF d

\* Recomputing every hash of the edited ledger gives another last hash.
LEMMA RedoneShows ==
  ASSUME NEW s, IsLedger(s), Verifies(s), NEW i \in 1..Len(s), NEW p,
         p # s[i].payload
  PROVE  LET redone == Rebuilt(Payloads([s EXCEPT ![i].payload = p]))
         IN Verifies(redone) /\ HeadHash(redone) # HeadHash(s)
<1> DEFINE d == [s EXCEPT ![i].payload = p]
           ps == Payloads(d)
<1>1. Len(s) \in Nat /\ DOMAIN s = 1..Len(s)
  BY LedgerLength
<1>2. Len(d) = Len(s) /\ d[i].payload = p
  BY <1>1 DEF IsLedger, Entry
<1> HIDE DEF d
<1>3. Len(ps) = Len(s) /\ ps[i] = p
  BY <1>1, <1>2 DEF Payloads
<1> HIDE DEF ps
<1>4. /\ Len(Rebuilt(ps)) = Len(s) /\ Verifies(Rebuilt(ps))
      /\ Rebuilt(ps)[i].payload = p
  BY <1>1, <1>3, RebuiltVerifies
<1>5. HeadHash(Rebuilt(ps)) # HeadHash(s)
  BY <1>1, <1>4, HeadsDiffer
<1>6. QED
  BY <1>4, <1>5 DEF ps, d

\* A cut ledger verifies, and shows by its length and by its last hash.
LEMMA CutShows ==
  ASSUME NEW s, IsLedger(s), Verifies(s), NEW n \in 0..(Len(s) - 1)
  PROVE  LET cut == SubSeq(s, 1, n)
         IN Verifies(cut) /\ Len(cut) # Len(s) /\ HeadHash(cut) # HeadHash(s)
<1> DEFINE cut == SubSeq(s, 1, n)
<1>1. Len(s) \in Nat /\ n \in Nat
  BY LedgerLength
<1>2. Len(cut) = n /\ \A j \in 1..n : cut[j] = s[j]
  <2>1. \A j \in 1..n : s[j] \in Elements(s)
    BY <1>1 DEF Elements
  <2>2. QED
    BY <1>1, <2>1, SubSeqProperties DEF IsLedger
<1> HIDE DEF cut
<1>3. \A j \in 1..(n + 1) : PrevHash(cut, j) = PrevHash(s, j)
  BY <1>1, <1>2 DEF PrevHash
<1>4. Verifies(cut)
  BY <1>1, <1>2, <1>3 DEF Verifies
<1>5. HeadHash(cut) # HeadHash(s)
  <2>1. HeadHash(s) = HashEntry(PrevHash(s, Len(s)), Len(s) - 1, s[Len(s)].payload)
    <3>1. HeadHash(s) = s[Len(s)].hash
      BY <1>1 DEF HeadHash, PrevHash
    <3>2. Len(s) \in 1..Len(s)
      BY <1>1
    <3>3. QED
      BY <3>1, <3>2 DEF Verifies
  <2>2. CASE n = 0
    <3>1. HeadHash(cut) = Genesis
      BY <1>2, <2>2 DEF HeadHash, PrevHash
    <3>2. QED
      BY <2>1, <3>1, GenesisIsNoHash
  <2>3. CASE n # 0
    <3>1. HeadHash(cut) = HashEntry(PrevHash(s, n), n - 1, s[n].payload)
      BY <1>1, <1>2, <2>3 DEF HeadHash, PrevHash, Verifies
    <3>2. n - 1 # Len(s) - 1
      BY <1>1
    <3>3. QED
      BY <2>1, <3>1, <3>2, HashInjective
  <2>4. QED
    BY <2>2, <2>3
<1>6. QED
  BY <1>1, <1>2, <1>4, <1>5 DEF cut

-----------------------------------------------------------------------------
(* Types.                                                                  *)

Fields == {"seq", "hash", "prev", "base"}

\* What TypeOK needs to be inductive: the slice a writer has read is a ledger,
\* and a request has its verdict before it is appended.
Typed ==
  /\ TypeOK
  /\ IsLedger(entries)
  /\ DOMAIN local = Writers
  /\ \A w \in Writers :
       /\ DOMAIN local[w] = Fields
       /\ local[w].seq \in Nat /\ IsLedger(local[w].base)
  /\ \A q \in Requests : wpc[q] = "idle" <=> verdict[q] = None
  /\ DOMAIN receipt = {"counted", "len", "head", "file"}
  /\ receipt.counted \in [Verdict -> Nat]

LEMMA PayloadType ==
  ASSUME Typed, NEW w \in Writers, wpc[w] # "idle"
  PROVE  Payload(w) \in PayloadSet
<1>1. CASE w = Main
  BY <1>1 DEF Payload, PayloadSet
<1>2. CASE w # Main
  <2>1. w \in Requests /\ verdict[w] \in Verdict
    BY <1>2 DEF Writers, Typed, TypeOK
  <2>2. QED
    BY <1>2, <2>1 DEF Payload, PayloadSet
<1>3. QED
  BY <1>1, <1>2

LEMMA EmptyLedger == IsLedger(<<>>)
  BY DEF IsLedger, Elements

\* session.Start has written one record.
LEMMA FirstLedger ==
  ASSUME Init
  PROVE  /\ IsLedger(entries) /\ Verifies(entries) /\ Len(entries) = 1
         /\ entries[1].payload = Start
<1>1. Len(<<Start>>) = 1 /\ <<Start>>[1] = Start /\ Start \in PayloadSet
  BY DEF PayloadSet
<1>2. entries = Rebuilt(<<Start>>)
  BY DEF Init
<1>3. /\ Len(entries) = 1 /\ Verifies(entries) /\ entries[1].payload = Start
      /\ entries = [i \in 1..1 |-> entries[i]]
      /\ \A i \in 1..1 : entries[i] = Entry(i - 1, Start, entries[i].prev, entries[i].hash)
  BY <1>1, <1>2, RebuiltVerifies
<1>4. \A i \in 1..1 :
         /\ entries[i] = Entry(entries[i].seq, entries[i].payload, entries[i].prev,
                               entries[i].hash)
         /\ entries[i].seq \in Nat /\ entries[i].payload \in PayloadSet
  BY <1>1, <1>3 DEF Entry
<1>5. IsLedger(entries)
  BY <1>3, <1>4, IsLedgerIntro
<1>6. QED
  BY <1>3, <1>5

LEMMA TypedInit == Init => Typed
<1> SUFFICES ASSUME Init PROVE Typed
  OBVIOUS
<1>1. IsLedger(entries)
  BY FirstLedger
<1>2. \A w \in Writers : local[w] = Unread
  BY DEF Init
<1>3. /\ DOMAIN Unread = Fields /\ Unread.seq = 0 /\ Unread.base = <<>>
  BY DEF Unread, Fields
<1>4. /\ DOMAIN receipt = {"counted", "len", "head", "file"}
      /\ receipt.counted = [v \in Verdict |-> 0]
  BY DEF Init
<1>5. TypeOK
  BY <1>1 DEF Init, TypeOK, IsLedger
<1>6. \A w \in Writers :
         DOMAIN local[w] = Fields /\ local[w].seq \in Nat /\ IsLedger(local[w].base)
  BY <1>2, <1>3, EmptyLedger
<1>7. DOMAIN local = Writers /\ \A q \in Requests : wpc[q] = "idle" /\ verdict[q] = None
  BY DEF Init, Writers
<1>8. receipt.counted \in [Verdict -> Nat]
  BY <1>4
<1>9. QED
  BY <1>1, <1>4, <1>5, <1>6, <1>7, <1>8 DEF Typed

\* The steps of one writer change its own place and locals only.
LEMMA TypedStep == Typed /\ [Next]_vars => Typed'
<1> SUFFICES ASSUME Typed, [Next]_vars PROVE Typed'
  OBVIOUS
<1> USE SessionAssumption
<1>1. ASSUME UNCHANGED <<entries, local>>, TypeOK',
             \A q \in Requests : wpc'[q] = "idle" <=> verdict'[q] = None,
             DOMAIN receipt' = {"counted", "len", "head", "file"},
             receipt'.counted \in [Verdict -> Nat]
      PROVE  Typed'
  BY <1>1 DEF Typed
<1>2. ASSUME NEW q \in Requests, Decide(q) PROVE Typed'
  <2>1. PICK v \in Verdict : /\ verdict' = [verdict EXCEPT ![q] = v]
                             /\ counters' = [counters EXCEPT ![v] = @ + 1]
    BY <1>2 DEF Decide
  <2>2. wpc' = [wpc EXCEPT ![q] = "append"] /\ q \in Writers
    BY <1>2 DEF Decide, Step, Writers
  <2>3. TypeOK'
    BY <1>2, <2>1, <2>2 DEF Decide, TypeOK, Typed, ledgerVars
  <2>4. v # None
    BY DEF Verdict, None
  <2>5. \A x \in Requests : wpc'[x] = "idle" <=> verdict'[x] = None
    BY <2>1, <2>2, <2>4 DEF Typed, TypeOK
  <2>6. QED
    BY <1>1, <1>2, <2>3, <2>5 DEF Decide, ledgerVars, Typed
<1>3. ASSUME NEW w \in Writers, NEW next, wpc[w] # "idle", next # "idle",
             wpc' = [wpc EXCEPT ![w] = next], verdict' = verdict
      PROVE  \A q \in Requests : wpc'[q] = "idle" <=> verdict'[q] = None
  BY <1>3 DEF Typed, TypeOK, Writers
<1>4. ASSUME NEW w \in Writers, AppendRead(w) PROVE Typed'
  <2>1. TypeOK'
    BY <1>4 DEF AppendRead, Step, TypeOK, Typed, ledgerVars
  <2>2. \A q \in Requests : wpc'[q] = "idle" <=> verdict'[q] = None
    BY <1>3, <1>4 DEF AppendRead, Step
  <2>3. Len(entries) \in Nat
    BY LedgerLength DEF Typed
  <2>4. /\ DOMAIN local' = Writers
        /\ \A x \in Writers : /\ DOMAIN local'[x] = Fields
                              /\ local'[x].seq \in Nat
                              /\ local'[x].base = local[x].base
    BY <1>4, <2>3 DEF AppendRead, Typed, Fields
  <2>5. QED
    BY <1>4, <2>1, <2>2, <2>4 DEF AppendRead, ledgerVars, Typed
<1>5. ASSUME NEW w \in Writers, AppendBuild(w) PROVE Typed'
  <2>1. TypeOK'
    BY <1>5 DEF AppendBuild, Step, TypeOK, Typed, ledgerVars
  <2>2. \A q \in Requests : wpc'[q] = "idle" <=> verdict'[q] = None
    BY <1>3, <1>5 DEF AppendBuild, Step
  <2>3. /\ DOMAIN local' = Writers
        /\ \A x \in Writers : /\ DOMAIN local'[x] = Fields
                              /\ local'[x].seq \in Nat
                              /\ local'[x].base \in {local[x].base, entries}
    BY <1>5 DEF AppendBuild, Typed, Fields
  <2>4. QED
    BY <1>5, <2>1, <2>2, <2>3 DEF AppendBuild, ledgerVars, Typed
<1>6. ASSUME NEW w \in Writers, AppendStore(w) PROVE Typed'
  <2>1. IsLedger(entries')
    <3>1. Payload(w) \in PayloadSet
      BY <1>6, PayloadType DEF AppendStore
    <3>2. IsLedger(local[w].base) /\ local[w].seq \in Nat
      BY DEF Typed
    <3>3. entries' = Append(local[w].base, Entry(local[w].seq, Payload(w),
                                                local[w].prev, local[w].hash))
      BY <1>6 DEF AppendStore
    <3>4. QED
      BY <3>1, <3>2, <3>3, Appended
  <2>2. TypeOK'
    BY <1>6, <2>1 DEF AppendStore, Step, TypeOK, Typed, IsLedger
  <2>3. \A q \in Requests : wpc'[q] = "idle" <=> verdict'[q] = None
    BY <1>3, <1>6 DEF AppendStore, Step
  <2>4. QED
    BY <1>6, <2>1, <2>2, <2>3 DEF AppendStore, Typed
<1>7. ASSUME NEW w \in Writers, AppendEnd(w) PROVE Typed'
  <2>1. TypeOK'
    BY <1>7 DEF AppendEnd, Step, TypeOK, Typed
  <2>2. \A q \in Requests : wpc'[q] = "idle" <=> verdict'[q] = None
    BY <1>3, <1>7 DEF AppendEnd, Step
  <2>3. /\ DOMAIN local' = Writers
        /\ \A x \in Writers : local'[x] \in {local[x], Unread}
    BY <1>7 DEF AppendEnd, Typed
  <2>4. DOMAIN Unread = Fields /\ Unread.seq \in Nat /\ IsLedger(Unread.base)
    BY EmptyLedger DEF Unread, Fields
  <2>5. QED
    BY <1>7, <2>1, <2>2, <2>3, <2>4 DEF AppendEnd, Typed
<1>8. ASSUME Finish PROVE Typed'
  <2>1. CASE FinishAppend
    <3>1. wpc' = [wpc EXCEPT ![Main] = "append"] /\ Main \in Writers
      BY <2>1 DEF FinishAppend, Step, Writers
    <3>2. TypeOK'
      <4>1. late' \in BOOLEAN
        BY <2>1 DEF FinishAppend
      <4>2. QED
        BY <2>1, <3>1, <4>1 DEF FinishAppend, FinishStep, TypeOK, Typed, ledgerVars
    <3>3. QED
      BY <1>1, <2>1, <3>1, <3>2 DEF FinishAppend, ledgerVars, Typed, TypeOK
  <2>2. CASE Close
    BY <1>1, <2>2 DEF Close, FinishStep, ledgerVars, Typed, TypeOK
  <2>3. ASSUME NEW from, NEW v \in Verdict, NEW next \in {"denied", "len"},
               ReadCounters(from, v, next)
        PROVE  Typed'
    <3>1. receipt'.counted = [receipt.counted EXCEPT ![v] = counters[v]]
      BY <2>3 DEF ReadCounters, Typed
    <3>2. receipt'.counted \in [Verdict -> Nat]
      BY <3>1 DEF Typed, TypeOK
    <3>3. TypeOK'
      BY <2>3 DEF ReadCounters, FinishStep, ledgerVars, Typed, TypeOK
    <3>4. DOMAIN receipt' = {"counted", "len", "head", "file"}
      BY <2>3 DEF ReadCounters, Typed
    <3>5. QED
      BY <1>1, <2>3, <3>2, <3>3, <3>4 DEF ReadCounters, ledgerVars, Typed
  <2>4. CASE ReadLen \/ ReadHead \/ WriteFiles
    <3>1. /\ DOMAIN receipt' = {"counted", "len", "head", "file"}
          /\ receipt'.counted = receipt.counted
      BY <2>4 DEF ReadLen, ReadHead, WriteFiles, Typed
    <3>2. TypeOK'
      BY <2>4 DEF ReadLen, ReadHead, WriteFiles, FinishStep, ledgerVars, Typed, TypeOK
    <3>3. QED
      BY <1>1, <2>4, <3>1, <3>2 DEF ReadLen, ReadHead, WriteFiles, ledgerVars, Typed
  <2>5. QED
    BY <1>8, <2>1, <2>2, <2>3, <2>4 DEF Finish, Verdict
<1>9. ASSUME UNCHANGED vars PROVE Typed'
  BY <1>9 DEF vars, Typed, TypeOK
<1>10. QED
  BY <1>2, <1>4, <1>5, <1>6, <1>7, <1>8, <1>9 DEF Next, Terminated

LEMMA TypedAlways == Spec => []Typed
  BY TypedInit, TypedStep, PTL DEF Spec

\* Every variable keeps its type.
THEOREM LedgerTypes == Spec => []TypeOK
<1>1. Typed => TypeOK
  BY DEF Typed
<1>2. QED
  BY <1>1, TypedAlways, PTL

-----------------------------------------------------------------------------
(* Where Finish is, and where its goroutine is inside Append.              *)

MainPlace ==
  /\ fpc = "running" <=> wpc[Main] = "idle"
  /\ fpc \notin {"running", "append"} => wpc[Main] = "done"

LEMMA MainPlaceInit == Init => MainPlace
  BY DEF Init, MainPlace, Writers

LEMMA MainPlaceStep == Typed /\ MainPlace /\ [Next]_vars => MainPlace'
<1> SUFFICES ASSUME Typed, MainPlace, [Next]_vars PROVE MainPlace'
  OBVIOUS
<1> USE SessionAssumption
<1>1. Main \in Writers /\ wpc \in [Writers -> {"idle", "append", "read", "built",
                                               "stored", "done"}]
  BY DEF Typed, TypeOK, Writers
<1>2. ASSUME NEW q \in Requests, Decide(q) PROVE MainPlace'
  BY <1>1, <1>2 DEF Decide, Step, MainPlace
<1>3. ASSUME NEW w \in Writers, NEW next \in {"read", "built", "stored", "done"},
             wpc[w] \in {"append", "read", "built", "stored"},
             Step(w, next), fpc' = fpc
      PROVE  MainPlace'
  BY <1>1, <1>3 DEF Step, MainPlace
<1>4. ASSUME NEW w \in Writers,
             AppendRead(w) \/ AppendBuild(w) \/ AppendStore(w) \/ AppendEnd(w)
      PROVE  MainPlace'
  BY <1>3, <1>4 DEF AppendRead, AppendBuild, AppendStore, AppendEnd
<1>5. CASE FinishAppend
  BY <1>1, <1>5 DEF FinishAppend, FinishStep, Step, MainPlace
<1>6. ASSUME Finish, ~FinishAppend PROVE MainPlace'
  <2>1. fpc # "running" /\ fpc' \notin {"running", "append"} /\ wpc' = wpc
    BY <1>6 DEF Finish, Close, ReadCounters, ReadLen, ReadHead, WriteFiles,
                FinishStep
  <2>2. wpc[Main] = "done"
    BY <1>6 DEF MainPlace, Finish, Close, ReadCounters, ReadLen, ReadHead,
                WriteFiles, FinishStep
  <2>3. QED
    BY <2>1, <2>2 DEF MainPlace
<1>7. CASE UNCHANGED vars
  BY <1>7 DEF vars, MainPlace
<1>8. QED
  BY <1>2, <1>4, <1>5, <1>6, <1>7 DEF Next, Terminated

-----------------------------------------------------------------------------
(* As long as calls of Append do not overlap, at most one writer is inside *)
(* it, and what it has read is still what is there.                        *)

Written == {w \in Writers : wpc[w] \in {"stored", "done"}}

Alone == \A w, x \in Writers : Inside(w) /\ Inside(x) => w = x

\* Between the store of the slice and that of the last hash, the last hash is
\* the writer's.
LastIsHead ==
  /\ \A w \in Writers : wpc[w] = "stored" => local[w].hash = HeadHash(entries)
  /\ (\A w \in Writers : wpc[w] # "stored") => last = HeadHash(entries)

ReadIsCurrent(w) ==
  /\ wpc[w] \in {"read", "built"} =>
       /\ local[w].seq = Len(entries)
       /\ local[w].hash = HashEntry(last, Len(entries), Payload(w))
  /\ wpc[w] = "built" => local[w].prev = last /\ local[w].base = entries

IsRecorded(q) == \E i \in 1..Len(entries) : entries[i].payload = <<q, verdict[q]>>

Serial ==
  ~overlap =>
    /\ Alone
    /\ Verifies(entries)
    /\ LastIsHead
    /\ \A w \in Writers : ReadIsCurrent(w)
    /\ IsFiniteSet(Written) /\ Len(entries) = 1 + Cardinality(Written)
    /\ \A q \in Requests \cap Written : IsRecorded(q)

\* What the store of the slice does when nobody else is inside Append.
LEMMA SerialStore ==
  ASSUME Typed, Serial, ~overlap, NEW w \in Writers, AppendStore(w)
  PROVE  /\ Verifies(entries') /\ HeadHash(entries') = local[w].hash
         /\ Len(entries') = Len(entries) + 1
         /\ \A i \in 1..Len(entries) : entries'[i] = entries[i]
         /\ entries'[Len(entries) + 1].payload = Payload(w)
<1>1. /\ wpc[w] = "built"
      /\ entries' = Append(local[w].base, Entry(local[w].seq, Payload(w),
                                               local[w].prev, local[w].hash))
  BY DEF AppendStore
<1>2. /\ local[w].seq = Len(entries) /\ local[w].prev = last
      /\ local[w].base = entries
      /\ local[w].hash = HashEntry(last, Len(entries), Payload(w))
  BY <1>1 DEF Serial, ReadIsCurrent
<1>3. last = HeadHash(entries)
  <2>1. \A x \in Writers : wpc[x] # "stored"
    BY <1>1 DEF Serial, Alone, Inside
  <2>2. QED
    BY <2>1 DEF Serial, LastIsHead
<1>4. Payload(w) \in PayloadSet /\ IsLedger(entries) /\ Len(entries) \in Nat
  BY <1>1, PayloadType, LedgerLength DEF Typed
<1> DEFINE e == Entry(Len(entries), Payload(w), HeadHash(entries), local[w].hash)
<1>5. entries' = Append(entries, e)
  BY <1>1, <1>2, <1>3
<1>6. Verifies(entries') /\ HeadHash(entries') = local[w].hash
  BY <1>2, <1>3, <1>4, <1>5, AppendVerifies DEF Serial
<1>7. /\ Len(entries') = Len(entries) + 1
      /\ \A i \in 1..Len(entries) : entries'[i] = entries[i]
      /\ entries'[Len(entries) + 1] = e
  BY <1>4, <1>5, Appended
<1>8. e.payload = Payload(w)
  BY DEF Entry
<1>9. QED
  BY <1>6, <1>7, <1>8

LEMMA SerialInit == Init => Serial
<1> SUFFICES ASSUME Init PROVE Serial
  OBVIOUS
<1>1. Verifies(entries) /\ Len(entries) = 1
  BY FirstLedger
<1>2. \A w \in Writers : wpc[w] = "idle"
  BY DEF Init
<1>3. Written = {}
  BY <1>2 DEF Written
<1>4. IsFiniteSet(Written) /\ Cardinality(Written) = 0
  BY <1>3, FS_EmptySet
<1>5. last = HeadHash(entries)
  BY DEF Init
<1>6. QED
  BY <1>1, <1>2, <1>3, <1>4, <1>5
     DEF Serial, Alone, Inside, LastIsHead, ReadIsCurrent

LEMMA SerialStep == Typed /\ MainPlace /\ Serial /\ [Next]_vars => Serial'
<1> SUFFICES ASSUME Typed, MainPlace, Serial, [Next]_vars, ~overlap' PROVE Serial'
  BY DEF Serial
<1> USE SessionAssumption
<1>1. \A w \in Writers : w \in DOMAIN wpc /\ w \in DOMAIN local
  BY DEF Typed, TypeOK
<1>2. ASSUME UNCHANGED <<entries, last, local>>, ~overlap,
             \A w \in Writers : wpc[w] \in {"read", "built", "stored", "done"} =>
                                  wpc'[w] = wpc[w] /\ Payload(w)' = Payload(w),
             \A w \in Writers : wpc'[w] \in {"read", "built", "stored", "done"} =>
                                  wpc'[w] = wpc[w]
      PROVE  Serial'
  <2>1. Written' = Written
    BY <1>2 DEF Written
  <2>2. Alone' /\ LastIsHead'
    BY <1>2 DEF Serial, Alone, LastIsHead, Inside
  <2>3. \A w \in Writers : ReadIsCurrent(w)'
    BY <1>2 DEF Serial, ReadIsCurrent
  <2>4. \A q \in Requests \cap Written : verdict'[q] = verdict[q]
    BY <1>2 DEF Payload, Written
  <2>5. QED
    BY <1>2, <2>1, <2>2, <2>3, <2>4 DEF Serial, IsRecorded
<1>3. ASSUME NEW q \in Requests, Decide(q) PROVE Serial'
  <2>1. /\ wpc[q] = "idle" /\ wpc' = [wpc EXCEPT ![q] = "append"]
        /\ UNCHANGED <<entries, last, local, overlap>>
        /\ \A x \in Requests \ {q} : verdict'[x] = verdict[x]
    BY <1>3 DEF Decide, Step, ledgerVars, Typed, TypeOK
  <2>2. \A w \in Writers \ {q} : wpc'[w] = wpc[w] /\ Payload(w)' = Payload(w)
    BY <2>1 DEF Payload, Writers
  <2>3. wpc'[q] = "append"
    BY <1>1, <2>1 DEF Writers
  <2>4. QED
    BY <1>2, <2>1, <2>2, <2>3
<1>4. ASSUME NEW w \in Writers, AppendRead(w) PROVE Serial'
  <2>1. /\ wpc[w] = "append" /\ wpc' = [wpc EXCEPT ![w] = "read"]
        /\ UNCHANGED <<entries, last, verdict>>
        /\ ~overlap /\ \A x \in Writers \ {w} : ~Inside(x)
    BY <1>4 DEF AppendRead, Step, ledgerVars
  <2>2. Written' = Written
    BY <1>1, <2>1 DEF Written
  <2>3. \A x \in Writers \ {w} : wpc'[x] = wpc[x] /\ wpc[x] \notin {"stored", "read", "built"}
    BY <1>1, <2>1 DEF Inside
  <2>4. wpc'[w] = "read"
    BY <1>1, <2>1
  <2>5. Alone' /\ LastIsHead'
    BY <2>1, <2>3, <2>4 DEF Serial, Alone, LastIsHead, Inside
  <2>6. \A x \in Writers : ReadIsCurrent(x)'
    <3>1. /\ local'[w].seq = Len(entries)
          /\ local'[w].hash = HashEntry(last, Len(entries), Payload(w))
      BY <1>1, <1>4 DEF AppendRead, Typed, Fields
    <3>2. Payload(w)' = Payload(w)
      BY <2>1 DEF Payload
    <3>3. QED
      BY <2>1, <2>3, <2>4, <3>1, <3>2 DEF ReadIsCurrent
  <2>7. QED
    BY <2>1, <2>2, <2>5, <2>6 DEF Serial, IsRecorded
<1>5. ASSUME NEW w \in Writers, AppendBuild(w) PROVE Serial'
  <2>1. /\ wpc[w] = "read" /\ wpc' = [wpc EXCEPT ![w] = "built"]
        /\ UNCHANGED <<entries, last, verdict, overlap>>
        /\ local' = [local EXCEPT ![w].prev = last, ![w].base = entries]
    BY <1>5 DEF AppendBuild, Step, ledgerVars
  <2>2. Written' = Written
    BY <1>1, <2>1 DEF Written
  <2>3. \A x \in Writers \ {w} :
          /\ wpc'[x] = wpc[x] /\ wpc[x] \notin {"stored", "read", "built"}
    BY <1>1, <2>1 DEF Serial, Alone, Inside
  <2>4. /\ wpc'[w] = "built" /\ local'[w].seq = local[w].seq
        /\ local'[w].hash = local[w].hash
        /\ local'[w].prev = last /\ local'[w].base = entries
    BY <1>1, <2>1 DEF Typed, Fields
  <2>5. Alone' /\ LastIsHead'
    BY <2>1, <2>3, <2>4 DEF Serial, Alone, LastIsHead, Inside
  <2>6. \A x \in Writers : ReadIsCurrent(x)'
    <3>1. Payload(w)' = Payload(w)
      BY <2>1 DEF Payload
    <3>2. ReadIsCurrent(w)'
      BY <2>1, <2>4, <3>1 DEF Serial, ReadIsCurrent
    <3>3. \A x \in Writers \ {w} : ReadIsCurrent(x)'
      BY <2>3 DEF ReadIsCurrent
    <3>4. QED
      BY <3>2, <3>3
  <2>7. QED
    BY <2>1, <2>2, <2>5, <2>6 DEF Serial, IsRecorded
<1>6. ASSUME NEW w \in Writers, AppendStore(w) PROVE Serial'
  <2>1. /\ wpc[w] = "built" /\ wpc' = [wpc EXCEPT ![w] = "stored"]
        /\ UNCHANGED <<last, local, verdict, overlap>>
    BY <1>6 DEF AppendStore, Step
  <2>2. /\ Verifies(entries') /\ HeadHash(entries') = local[w].hash
        /\ Len(entries') = Len(entries) + 1
        /\ \A i \in 1..Len(entries) : entries'[i] = entries[i]
        /\ entries'[Len(entries) + 1].payload = Payload(w)
    BY <1>6, <2>1, SerialStore
  <2>3. \A x \in Writers \ {w} :
          /\ wpc'[x] = wpc[x] /\ wpc[x] \notin {"stored", "read", "built"}
    BY <1>1, <2>1 DEF Serial, Alone, Inside
  <2>4. wpc'[w] = "stored" /\ w \notin Written
    BY <1>1, <2>1 DEF Written
  <2>5. Written' = Written \cup {w}
    BY <2>3, <2>4 DEF Written
  <2>6. IsFiniteSet(Written') /\ Cardinality(Written') = Cardinality(Written) + 1
    BY <2>1, <2>4, <2>5, FS_AddElement DEF Serial
  <2>7. Len(entries') = 1 + Cardinality(Written')
    <3>1. Cardinality(Written) \in Nat
      BY <2>1, FS_CardinalityType DEF Serial
    <3>2. QED
      BY <2>1, <2>2, <2>6, <3>1 DEF Serial
  <2>8. Alone' /\ LastIsHead'
    BY <2>1, <2>2, <2>3, <2>4 DEF Alone, LastIsHead, Inside
  <2>9. \A x \in Writers : ReadIsCurrent(x)'
    BY <2>3, <2>4 DEF ReadIsCurrent
  <2>10. Len(entries) \in Nat
    BY LedgerLength DEF Typed
  <2>11. \A q \in Requests \cap Written' : IsRecorded(q)'
    <3> SUFFICES ASSUME NEW q \in Requests \cap Written' PROVE IsRecorded(q)'
      OBVIOUS
    <3>1. CASE q = w
      <4>1. Payload(w) = <<w, verdict[w]>>
        BY <3>1 DEF Payload
      <4>2. QED
        BY <2>1, <2>2, <2>10, <3>1, <4>1 DEF IsRecorded
    <3>2. CASE q # w
      <4>1. PICK i \in 1..Len(entries) : entries[i].payload = <<q, verdict[q]>>
        BY <2>1, <2>5, <3>2 DEF Serial, IsRecorded
      <4>2. i \in 1..Len(entries') /\ entries'[i] = entries[i]
        BY <2>2, <2>10
      <4>3. QED
        BY <2>1, <4>1, <4>2 DEF IsRecorded
    <3>3. QED
      BY <3>1, <3>2
  <2>12. QED
    BY <2>2, <2>6, <2>7, <2>8, <2>9, <2>11 DEF Serial
<1>7. ASSUME NEW w \in Writers, AppendEnd(w) PROVE Serial'
  <2>1. /\ wpc[w] = "stored" /\ wpc' = [wpc EXCEPT ![w] = "done"]
        /\ UNCHANGED <<entries, verdict, overlap>>
        /\ last' = local[w].hash
    BY <1>7 DEF AppendEnd, Step
  <2>2. \A x \in Writers \ {w} :
          /\ wpc'[x] = wpc[x] /\ wpc[x] \notin {"stored", "read", "built"}
    BY <1>1, <2>1 DEF Serial, Alone, Inside
  <2>3. wpc'[w] = "done"
    BY <1>1, <2>1
  <2>4. Written' = Written
    BY <2>1, <2>2, <2>3 DEF Written
  <2>5. Alone' /\ LastIsHead'
    BY <2>1, <2>2, <2>3 DEF Serial, Alone, LastIsHead, Inside
  <2>6. \A x \in Writers : ReadIsCurrent(x)'
    BY <2>2, <2>3 DEF ReadIsCurrent
  <2>7. QED
    BY <2>1, <2>4, <2>5, <2>6 DEF Serial, IsRecorded
<1>8. ASSUME Finish PROVE Serial'
  <2>1. CASE FinishAppend
    <3>1. wpc' = [wpc EXCEPT ![Main] = "append"] /\ Main \in Writers
      BY <2>1 DEF FinishAppend, Step, Writers
    <3>2. UNCHANGED <<entries, last, local, verdict, overlap>> /\ wpc[Main] = "idle"
      BY <2>1 DEF FinishAppend, FinishStep, ledgerVars, MainPlace
    <3>3. QED
      BY <1>1, <1>2, <3>1, <3>2 DEF Payload
  <2>2. CASE ~FinishAppend
    <3>1. UNCHANGED <<entries, last, local, verdict, overlap, wpc>>
      BY <1>8, <2>2 DEF Finish, Close, ReadCounters, ReadLen, ReadHead, WriteFiles,
                        ledgerVars
    <3>2. QED
      BY <1>2, <3>1 DEF Payload
  <2>3. QED
    BY <2>1, <2>2
<1>9. ASSUME UNCHANGED vars PROVE Serial'
  <2>1. UNCHANGED <<entries, last, local, verdict, overlap, wpc>>
    BY <1>9 DEF vars
  <2>2. QED
    BY <1>2, <2>1 DEF Payload
<1>10. QED
  BY <1>3, <1>4, <1>5, <1>6, <1>7, <1>8, <1>9 DEF Next, Terminated

LEMMA SerialAlways == Spec => [](Typed /\ MainPlace /\ Serial)
<1> DEFINE I == Typed /\ MainPlace /\ Serial
<1>1. Init => I
  BY TypedInit, MainPlaceInit, SerialInit
<1>2. I /\ [Next]_vars => I'
  BY TypedStep, MainPlaceStep, SerialStep
<1> HIDE DEF I
<1>3. Spec => []I
  BY <1>1, <1>2, PTL DEF Spec
<1>4. QED
  BY <1>3, PTL DEF I

\* As long as calls of Append have not overlapped the ledger verifies whenever
\* no call is under way, its last hash is its head, and it holds exactly one
\* entry per decision whose hook has run.
THEOREM SerialLedger == Spec => []SerialLedgerIntact
<1>1. ASSUME Serial PROVE SerialLedgerIntact
  <2> SUFFICES ASSUME ~overlap, Quiet
               PROVE  /\ Verifies(entries)
                      /\ last = HeadHash(entries)
                      /\ \A q \in Requests :
                           wpc[q] = "done" =>
                             \E i \in 1..Len(entries) :
                               entries[i].payload = <<q, verdict[q]>>
                      /\ Len(entries) =
                           1 + Cardinality({w \in Writers : wpc[w] = "done"})
    BY DEF SerialLedgerIntact
  <2>1. \A w \in Writers : wpc[w] # "stored"
    BY DEF Quiet, Inside
  <2>2. Written = {w \in Writers : wpc[w] = "done"}
    BY <2>1 DEF Written
  <2>3. \A q \in Requests : wpc[q] = "done" => IsRecorded(q)
    BY <1>1, <2>2 DEF Serial, Writers
  <2>4. QED
    BY <1>1, <2>1, <2>2, <2>3 DEF Serial, LastIsHead, IsRecorded
<1>2. QED
  BY <1>1, SerialAlways, PTL

\* An entry that was appended stays where it is and as it is.
LedgerOnlyGrows ==
  [][~overlap =>
       /\ Len(entries) <= Len(entries')
       /\ \A i \in 1..Len(entries) : entries'[i] = entries[i]]_vars

\* As long as calls of Append have not overlapped the ledger is append-only,
\* although every store of the slice replaces the whole of it.
THEOREM SerialLedgerGrows == Spec => LedgerOnlyGrows
<1>1. ASSUME Typed, MainPlace, Serial, [Next]_vars, ~overlap
      PROVE  /\ Len(entries) <= Len(entries')
             /\ \A i \in 1..Len(entries) : entries'[i] = entries[i]
  <2>1. Len(entries) \in Nat
    BY <1>1, LedgerLength DEF Typed
  <2>2. ASSUME NEW w \in Writers, AppendStore(w)
        PROVE  /\ Len(entries) <= Len(entries')
               /\ \A i \in 1..Len(entries) : entries'[i] = entries[i]
    <3>1. /\ Len(entries') = Len(entries) + 1
          /\ \A i \in 1..Len(entries) : entries'[i] = entries[i]
      BY <1>1, <2>2, SerialStore
    <3>2. QED
      BY <2>1, <3>1
  <2>3. ASSUME UNCHANGED entries
        PROVE  /\ Len(entries) <= Len(entries')
               /\ \A i \in 1..Len(entries) : entries'[i] = entries[i]
    BY <2>1, <2>3
  <2>4. (\A w \in Writers : ~AppendStore(w)) => UNCHANGED entries
    BY <1>1 DEF Next, Decide, AppendRead, AppendBuild, AppendEnd, Finish,
         FinishAppend, Close, ReadCounters, ReadLen, ReadHead, WriteFiles,
         Terminated, vars, ledgerVars
  <2>5. QED
    BY <2>2, <2>3, <2>4
<1>2. Typed /\ MainPlace /\ Serial /\ [Next]_vars =>
        [~overlap =>
           /\ Len(entries) <= Len(entries')
           /\ \A i \in 1..Len(entries) : entries'[i] = entries[i]]_vars
  BY <1>1
<1>3. QED
  BY <1>2, SerialAlways, PTL DEF Spec, LedgerOnlyGrows

-----------------------------------------------------------------------------
(* The counters count the decisions, and the ledger records them.          *)

Decided(v)  == {q \in Requests : verdict[q] = v}
Indices(v)  == {i \in 1..Len(entries) :
                  \E q \in Requests : entries[i].payload = <<q, v>>}
Recording(v) == {q \in Requests \cap Written : verdict[q] = v}

Counted ==
  \A v \in Verdict :
    IsFiniteSet(Decided(v)) /\ counters[v] = Cardinality(Decided(v))

RecordsCounted ==
  ~overlap => \A v \in Verdict :
    /\ IsFiniteSet(Indices(v)) /\ IsFiniteSet(Recording(v))
    /\ Cardinality(Indices(v)) = Cardinality(Recording(v))

LEMMA CountedInit == Init => Counted /\ RecordsCounted
<1> SUFFICES ASSUME Init, NEW v \in Verdict
             PROVE  Decided(v) = {} /\ counters[v] = 0
                    /\ Indices(v) = {} /\ Recording(v) = {}
  BY FS_EmptySet DEF Counted, RecordsCounted
<1>1. \A q \in Requests : verdict[q] = None /\ None # v
  BY DEF Init, Verdict, None
<1>2. counters[v] = 0
  BY DEF Init
<1>3. Indices(v) = {}
  <2>1. Len(entries) = 1 /\ entries[1].payload = Start
    BY FirstLedger
  <2>2. \A q \in Requests : Start # <<q, v>>
    BY SessionAssumption DEF Start
  <2>3. QED
    BY <2>1, <2>2 DEF Indices
<1>4. QED
  BY <1>1, <1>2, <1>3 DEF Decided, Recording

LEMMA CountedStep == Typed /\ Counted /\ [Next]_vars => Counted'
<1> SUFFICES ASSUME Typed, Counted, [Next]_vars PROVE Counted'
  OBVIOUS
<1>1. ASSUME UNCHANGED <<verdict, counters>> PROVE Counted'
  BY <1>1 DEF Counted, Decided
<1>2. ASSUME NEW q \in Requests, Decide(q) PROVE Counted'
  <2>1. PICK u \in Verdict : /\ verdict' = [verdict EXCEPT ![q] = u]
                             /\ counters' = [counters EXCEPT ![u] = @ + 1]
    BY <1>2 DEF Decide
  <2>2. verdict[q] = None /\ \A v \in Verdict : v # None
    BY <1>2 DEF Decide, Typed, Verdict, None
  <2>3. ASSUME NEW v \in Verdict
        PROVE  IsFiniteSet(Decided(v)') /\ counters'[v] = Cardinality(Decided(v)')
    <3>1. CASE v = u
      <4>1. Decided(v)' = Decided(v) \cup {q} /\ q \notin Decided(v)
        BY <2>1, <2>2, <3>1 DEF Decided, Typed, TypeOK
      <4>2. /\ IsFiniteSet(Decided(v)')
            /\ Cardinality(Decided(v)') = Cardinality(Decided(v)) + 1
        BY <4>1, FS_AddElement DEF Counted
      <4>3. counters'[v] = counters[v] + 1
        BY <2>1, <3>1 DEF Typed, TypeOK
      <4>4. QED
        BY <4>2, <4>3 DEF Counted
    <3>2. CASE v # u
      <4>1. Decided(v)' = Decided(v)
        BY <2>1, <2>2, <3>2 DEF Decided, Typed, TypeOK
      <4>2. counters'[v] = counters[v]
        BY <2>1, <3>2 DEF Typed, TypeOK
      <4>3. QED
        BY <4>1, <4>2 DEF Counted
    <3>3. QED
      BY <3>1, <3>2
  <2>4. QED
    BY <2>3 DEF Counted
<1>3. ASSUME NEW w \in Writers,
             AppendRead(w) \/ AppendBuild(w) \/ AppendStore(w) \/ AppendEnd(w)
      PROVE  Counted'
  BY <1>1, <1>3 DEF AppendRead, AppendBuild, AppendStore, AppendEnd
<1>4. CASE Finish
  BY <1>1, <1>4 DEF Finish, FinishAppend, Close, ReadCounters, ReadLen, ReadHead,
                    WriteFiles
<1>5. CASE UNCHANGED vars
  BY <1>1, <1>5 DEF vars
<1>6. QED
  BY <1>2, <1>3, <1>4, <1>5 DEF Next, Terminated

LEMMA RecordsStep ==
  Typed /\ MainPlace /\ Serial /\ RecordsCounted /\ [Next]_vars => RecordsCounted'
<1> SUFFICES ASSUME Typed, MainPlace, Serial, RecordsCounted, [Next]_vars, ~overlap'
             PROVE  RecordsCounted'
  BY DEF RecordsCounted
<1> USE SessionAssumption
<1>0. /\ wpc \in [Writers -> {"idle", "append", "read", "built", "stored", "done"}]
      /\ verdict \in [Requests -> Verdict \cup {None}]
  BY DEF Typed, TypeOK
<1>1. ASSUME entries' = entries, ~overlap,
             \A q \in Requests : q \in Written' <=> q \in Written,
             \A q \in Requests \cap Written : verdict'[q] = verdict[q]
      PROVE  RecordsCounted'
  <2>1. ASSUME NEW v \in Verdict
        PROVE  Indices(v)' = Indices(v) /\ Recording(v)' = Recording(v)
    BY <1>1 DEF Indices, Recording
  <2>2. QED
    BY <1>1, <2>1 DEF RecordsCounted
<1>2. ASSUME NEW q \in Requests, Decide(q) PROVE RecordsCounted'
  <2>1. /\ entries' = entries /\ overlap' = overlap /\ wpc[q] = "idle"
        /\ wpc' = [wpc EXCEPT ![q] = "append"]
        /\ \A x \in Requests \ {q} : verdict'[x] = verdict[x]
    BY <1>0, <1>2 DEF Decide, Step, ledgerVars
  <2>2. q \notin Written /\ Written' = Written
    BY <1>0, <2>1 DEF Written
  <2>3. QED
    BY <1>1, <2>1, <2>2
<1>3. ASSUME NEW w \in Writers, AppendRead(w) \/ AppendBuild(w) \/ AppendEnd(w)
      PROVE  RecordsCounted'
  <2>1. entries' = entries /\ verdict' = verdict
    BY <1>3 DEF AppendRead, AppendBuild, AppendEnd, ledgerVars
  <2>2. ~overlap
    BY <1>3 DEF AppendRead, AppendBuild, AppendEnd
  <2>3. Written' = Written
    BY <1>0, <1>3 DEF AppendRead, AppendBuild, AppendEnd, Step, Written
  <2>4. QED
    BY <1>1, <2>1, <2>2, <2>3
<1>4. ASSUME NEW w \in Writers, AppendStore(w) PROVE RecordsCounted'
  <2>1. /\ wpc[w] = "built" /\ wpc' = [wpc EXCEPT ![w] = "stored"]
        /\ verdict' = verdict /\ ~overlap
    BY <1>4 DEF AppendStore, Step
  <2>2. /\ Len(entries') = Len(entries) + 1
        /\ \A i \in 1..Len(entries) : entries'[i] = entries[i]
        /\ entries'[Len(entries) + 1].payload = Payload(w)
    BY <1>4, <2>1, SerialStore
  <2>3. Len(entries) \in Nat
    BY LedgerLength DEF Typed
  <2>4. w \notin Written /\ Written' = Written \cup {w}
    BY <1>0, <2>1 DEF Written
  <2> DEFINE k == Len(entries) + 1
  <2>5. ASSUME NEW v \in Verdict
        PROVE  /\ IsFiniteSet(Indices(v)') /\ IsFiniteSet(Recording(v)')
               /\ Cardinality(Indices(v)') = Cardinality(Recording(v)')
    <3>1. \A i \in 1..k : i \in 1..Len(entries) \/ i = k
      BY <2>3
    <3>2. /\ k \notin Indices(v) /\ w \notin Recording(v)
          /\ 1..Len(entries') = 1..k /\ 1..Len(entries) \subseteq 1..k /\ k \in 1..k
      BY <2>2, <2>3, <2>4 DEF Indices, Recording
    <3>3. CASE w \in Requests /\ verdict[w] = v
      <4>1. entries'[k].payload = <<w, v>>
        BY <2>2, <3>3 DEF Payload
      <4>2. Indices(v)' = Indices(v) \cup {k}
        BY <2>2, <3>1, <3>2, <3>3, <4>1 DEF Indices
      <4>3. Recording(v)' = Recording(v) \cup {w}
        BY <2>1, <2>4, <3>3 DEF Recording
      <4>4. /\ IsFiniteSet(Indices(v)')
            /\ Cardinality(Indices(v)') = Cardinality(Indices(v)) + 1
        BY <2>1, <3>2, <4>2, FS_AddElement DEF RecordsCounted
      <4>5. /\ IsFiniteSet(Recording(v)')
            /\ Cardinality(Recording(v)') = Cardinality(Recording(v)) + 1
        BY <2>1, <3>2, <4>3, FS_AddElement DEF RecordsCounted
      <4>6. QED
        BY <2>1, <4>4, <4>5 DEF RecordsCounted
    <3>4. CASE ~ (w \in Requests /\ verdict[w] = v)
      <4>1. \A q \in Requests : entries'[k].payload # <<q, v>>
        <5>1. CASE w = Main
          BY <2>2, <5>1 DEF Payload, Stop
        <5>2. CASE w # Main
          BY <2>2, <3>4, <5>2 DEF Payload, Writers
        <5>3. QED
          BY <5>1, <5>2
      <4>2. Indices(v)' = Indices(v)
        BY <2>2, <3>1, <3>2, <4>1 DEF Indices
      <4>3. Recording(v)' = Recording(v)
        BY <2>1, <2>4, <3>4 DEF Recording
      <4>4. QED
        BY <2>1, <4>2, <4>3 DEF RecordsCounted
    <3>5. QED
      BY <3>3, <3>4
  <2>6. QED
    BY <2>5 DEF RecordsCounted
<1>5. CASE FinishAppend
  <2>1. /\ entries' = entries /\ verdict' = verdict /\ overlap' = overlap
        /\ wpc' = [wpc EXCEPT ![Main] = "append"] /\ wpc[Main] = "idle"
    BY <1>5 DEF FinishAppend, FinishStep, Step, ledgerVars, MainPlace
  <2>2. \A q \in Requests : q \in Written' <=> q \in Written
    BY <1>0, <2>1 DEF Written, Writers
  <2>3. QED
    BY <1>1, <2>1, <2>2
<1>6. ASSUME Finish, ~FinishAppend PROVE RecordsCounted'
  <2>1. UNCHANGED <<entries, verdict, wpc, overlap>>
    BY <1>6 DEF Finish, Close, ReadCounters, ReadLen, ReadHead, WriteFiles, ledgerVars
  <2>2. QED
    BY <1>1, <2>1 DEF Written
<1>7. CASE UNCHANGED vars
  BY <1>1, <1>7 DEF vars, Written
<1>8. QED
  BY <1>2, <1>3, <1>4, <1>5, <1>6, <1>7 DEF Next, Terminated

-----------------------------------------------------------------------------
(* What Finish has read is still so when nothing was served meanwhile.     *)

NobodyServed == ~late /\ Finishing => \A q \in Requests : ~Busy(q)

ReceiptCurrent ==
  ~late =>
    /\ fpc \in {"denied", "len", "head", "file", "finished"} =>
         receipt.counted["allowed"] = counters["allowed"]
    /\ fpc \in {"len", "head", "file", "finished"} =>
         receipt.counted["denied"] = counters["denied"]
    /\ fpc \in {"head", "file", "finished"} => receipt.len = Len(entries)
    /\ fpc \in {"file", "finished"} => receipt.head = last
    /\ fpc = "finished" => receipt.file = entries

Undisturbed == NobodyServed /\ ReceiptCurrent

LEMMA UndisturbedInit == Init => Undisturbed
  BY DEF Init, Undisturbed, NobodyServed, ReceiptCurrent, Finishing

LEMMA UndisturbedStep ==
  Typed /\ MainPlace /\ Undisturbed /\ [Next]_vars => Undisturbed'
<1> SUFFICES ASSUME Typed, MainPlace, Undisturbed, [Next]_vars, ~late'
             PROVE  Undisturbed'
  BY DEF Undisturbed, NobodyServed, ReceiptCurrent
<1> USE SessionAssumption
<1>0. /\ wpc \in [Writers -> {"idle", "append", "read", "built", "stored", "done"}]
      /\ counters \in [Verdict -> Nat]
      /\ receipt.counted \in [Verdict -> Nat]
      /\ DOMAIN receipt = {"counted", "len", "head", "file"}
      /\ fpc \in {"running", "append", "close", "denied", "len", "head", "file",
                  "finished"}
  BY DEF Typed, TypeOK
<1>1. ASSUME fpc = "running", fpc' = "running" PROVE Undisturbed'
  BY <1>1 DEF Undisturbed, NobodyServed, ReceiptCurrent, Finishing
<1>2. ASSUME NEW q \in Requests, Decide(q) PROVE Undisturbed'
  <2>1. ~Finishing /\ fpc' = fpc
    BY <1>2 DEF Decide
  <2>2. QED
    BY <1>1, <2>1 DEF Finishing
<1>3. ASSUME NEW w \in Writers,
             AppendRead(w) \/ AppendBuild(w) \/ AppendStore(w) \/ AppendEnd(w)
      PROVE  Undisturbed'
  <2>1. /\ fpc' = fpc /\ receipt' = receipt
        /\ wpc[w] \in {"append", "read", "built", "stored"}
    BY <1>3 DEF AppendRead, AppendBuild, AppendStore, AppendEnd
  <2>2. ~late
    BY <1>3 DEF AppendRead, AppendBuild, AppendStore, AppendEnd
  <2>3. CASE w = Main
    <3>1. fpc = "append"
      BY <1>0, <2>1, <2>3 DEF MainPlace
    <3>2. PICK next : Step(w, next)
      BY <1>3 DEF AppendRead, AppendBuild, AppendStore, AppendEnd
    <3>3. \A q \in Requests : wpc'[q] = wpc[q]
      BY <1>0, <2>3, <3>2 DEF Step, Writers
    <3>4. QED
      BY <2>1, <2>2, <3>1, <3>3
         DEF Undisturbed, NobodyServed, ReceiptCurrent, Finishing, Busy
  <2>4. CASE w # Main
    <3>1. ~Finishing
      BY <2>1, <2>2, <2>4 DEF Undisturbed, NobodyServed, Busy, Writers
    <3>2. QED
      BY <1>1, <2>1, <3>1 DEF Finishing
  <2>5. QED
    BY <2>3, <2>4
<1>4. CASE FinishAppend
  <2>1. fpc' = "append" /\ \A q \in Requests : ~Busy(q)
    BY <1>4 DEF FinishAppend, FinishStep
  <2>2. \A q \in Requests : wpc'[q] = wpc[q]
    BY <1>0, <1>4 DEF FinishAppend, Step
  <2>3. QED
    BY <2>1, <2>2 DEF Undisturbed, NobodyServed, ReceiptCurrent, Busy
<1>5. ASSUME UNCHANGED <<ledgerVars, counters, wpc, late>>, fpc # "running"
      PROVE  NobodyServed' /\ Len(entries') = Len(entries)
  BY <1>5 DEF Undisturbed, NobodyServed, Finishing, Busy, ledgerVars
<1>6. CASE Close
  <2>1. fpc' = "close" /\ NobodyServed'
    BY <1>5, <1>6 DEF Close, FinishStep
  <2>2. QED
    BY <2>1 DEF Undisturbed, ReceiptCurrent
<1>7. CASE ReadCounters("close", "allowed", "denied")
  <2>1. fpc' = "denied" /\ NobodyServed'
    BY <1>5, <1>7 DEF ReadCounters, FinishStep
  <2>2. receipt'.counted["allowed"] = counters'["allowed"]
    BY <1>0, <1>7 DEF ReadCounters, Verdict
  <2>3. QED
    BY <2>1, <2>2 DEF Undisturbed, ReceiptCurrent
<1>8. CASE ReadCounters("denied", "denied", "len")
  <2>1. fpc = "denied" /\ fpc' = "len" /\ NobodyServed' /\ ~late
    BY <1>5, <1>8 DEF ReadCounters, FinishStep
  <2>2. /\ receipt'.counted["allowed"] = receipt.counted["allowed"]
        /\ receipt'.counted["denied"] = counters'["denied"]
        /\ counters' = counters
    BY <1>0, <1>8 DEF ReadCounters, Verdict
  <2>3. QED
    BY <2>1, <2>2 DEF Undisturbed, ReceiptCurrent
<1>9. CASE ReadLen
  <2>1. fpc = "len" /\ fpc' = "head" /\ NobodyServed' /\ ~late
    BY <1>5, <1>9 DEF ReadLen, FinishStep
  <2>2. /\ receipt'.counted = receipt.counted /\ counters' = counters
        /\ entries' = entries /\ receipt'.len = Len(entries)
    BY <1>0, <1>9 DEF ReadLen, ledgerVars
  <2>3. QED
    BY <2>1, <2>2 DEF Undisturbed, ReceiptCurrent
<1>10. CASE ReadHead
  <2>1. fpc = "head" /\ fpc' = "file" /\ NobodyServed' /\ ~late
    BY <1>5, <1>10 DEF ReadHead, FinishStep
  <2>2. /\ receipt'.counted = receipt.counted /\ counters' = counters
        /\ entries' = entries /\ last' = last
        /\ receipt'.len = receipt.len /\ receipt'.head = last
    BY <1>0, <1>10 DEF ReadHead, ledgerVars
  <2>3. QED
    BY <2>1, <2>2 DEF Undisturbed, ReceiptCurrent
<1>11. CASE WriteFiles
  <2>1. fpc = "file" /\ fpc' = "finished" /\ NobodyServed' /\ ~late
    BY <1>5, <1>11 DEF WriteFiles, FinishStep
  <2>2. /\ receipt'.counted = receipt.counted /\ counters' = counters
        /\ entries' = entries /\ last' = last
        /\ receipt'.len = receipt.len /\ receipt'.head = receipt.head
        /\ receipt'.file = entries
    BY <1>0, <1>11 DEF WriteFiles, ledgerVars
  <2>3. QED
    BY <2>1, <2>2 DEF Undisturbed, ReceiptCurrent
<1>12. CASE UNCHANGED vars
  BY <1>12 DEF vars, Undisturbed, NobodyServed, ReceiptCurrent, Finishing, Busy
<1>13. QED
  BY <1>2, <1>3, <1>4, <1>6, <1>7, <1>8, <1>9, <1>10, <1>11, <1>12
     DEF Next, Finish, Terminated

Inv == Typed /\ MainPlace /\ Serial /\ Counted /\ RecordsCounted /\ Undisturbed

LEMMA InvAlways == Spec => []Inv
<1>1. Init => Inv
  BY TypedInit, MainPlaceInit, SerialInit, CountedInit, UndisturbedInit DEF Inv
<1>2. Inv /\ [Next]_vars => Inv'
  BY TypedStep, MainPlaceStep, SerialStep, CountedStep, RecordsStep, UndisturbedStep
     DEF Inv
<1>3. QED
  BY <1>1, <1>2, PTL DEF Spec

\* When the session has finished undisturbed, the file is the ledger, nobody is
\* inside Append and every decision is recorded.
LEMMA FinishedQuiet ==
  ASSUME Inv, fpc = "finished", ~late, ~overlap
  PROVE  /\ receipt.file = entries /\ receipt.len = Len(entries)
         /\ receipt.head = HeadHash(entries)
         /\ \A v \in Verdict : Recording(v) = Decided(v)
<1>1. \A w \in Writers : wpc[w] \in {"idle", "done"}
  <2>1. wpc[Main] = "done"
    BY DEF Inv, MainPlace
  <2>2. \A q \in Requests : ~Busy(q)
    BY DEF Inv, Undisturbed, NobodyServed, Finishing
  <2>3. QED
    BY <2>1, <2>2 DEF Busy, Writers
<1>2. last = HeadHash(entries)
  BY <1>1 DEF Inv, Serial, LastIsHead
<1>3. \A v \in Verdict : Recording(v) = Decided(v)
  <2>1. \A q \in Requests : verdict[q] \in Verdict => wpc[q] = "done"
    BY <1>1 DEF Inv, Typed, Verdict, None, Writers
  <2>2. QED
    BY <2>1 DEF Recording, Decided, Written, Writers
<1>4. QED
  BY <1>2, <1>3 DEF Inv, Undisturbed, ReceiptCurrent

\* A session finished while no request was being served has a receipt that
\* agrees with the ledger file: length, head and both counts.
THEOREM QuietReceipt == Spec => []QuietReceiptAgrees
<1>1. ASSUME Inv PROVE QuietReceiptAgrees
  <2> SUFFICES ASSUME fpc = "finished", ~late, ~overlap
               PROVE  /\ receipt.len = Len(receipt.file)
                      /\ receipt.head = HeadHash(receipt.file)
                      /\ \A v \in Verdict : receipt.counted[v] = Recorded(v)
    BY DEF QuietReceiptAgrees
  <2>1. /\ receipt.file = entries /\ receipt.len = Len(entries)
        /\ receipt.head = HeadHash(entries)
        /\ \A v \in Verdict : Recording(v) = Decided(v)
    BY <1>1, FinishedQuiet
  <2>2. \A v \in Verdict : receipt.counted[v] = counters[v]
    BY <1>1 DEF Inv, Undisturbed, ReceiptCurrent, Verdict
  <2>3. \A v \in Verdict : counters[v] = Cardinality(Indices(v))
    BY <1>1, <2>1 DEF Inv, Counted, RecordsCounted
  <2>4. \A v \in Verdict : Recorded(v) = Cardinality(Indices(v))
    BY DEF Recorded, Indices
  <2>5. QED
    BY <2>1, <2>2, <2>3, <2>4
<1>2. QED
  BY <1>1, InvAlways, PTL

\* The ledger file of a session finished while no request was being served is
\* tamper-evident: an edited payload breaks Verify, and an edit with the chain
\* recomputed, or a cut tail, shows against the receipt's length and head.
THEOREM FileTamperEvident == Spec => []TamperEvident
<1>1. ASSUME Inv PROVE TamperEvident
  <2> SUFFICES ASSUME fpc = "finished", ~late, ~overlap
               PROVE  /\ \A i \in 1..Len(entries), p \in PayloadSet :
                           p # entries[i].payload =>
                             LET edited == [entries EXCEPT ![i].payload = p]
                                 redone == Rebuilt(Payloads(edited))
                             IN /\ ~Verifies(edited)
                                /\ Verifies(redone) /\ HeadHash(redone) # HeadHash(entries)
                      /\ \A n \in 0..(Len(entries) - 1) :
                           LET cut == SubSeq(entries, 1, n)
                           IN /\ Verifies(cut) /\ Len(cut) # Len(entries)
                              /\ HeadHash(cut) # HeadHash(entries)
    <3>1. CASE fpc = "finished" /\ ~late /\ ~overlap
      <4>1. /\ receipt.file = entries /\ receipt.len = Len(entries)
            /\ receipt.head = HeadHash(entries)
        BY <1>1, <3>1, FinishedQuiet
      <4>2. QED
        BY <3>1, <4>1 DEF TamperEvident
    <3>2. QED
      BY <3>1 DEF TamperEvident
  <2>1. IsLedger(entries) /\ Verifies(entries)
    BY <1>1 DEF Inv, Typed, Serial
  <2>2. QED
    BY <2>1, EditShows, RedoneShows, CutShows
<1>2. QED
  BY <1>1, InvAlways, PTL
=============================================================================
