----------------------------- MODULE FleetProofs -----------------------------
(***************************************************************************)
(* For any keys, hashes and receipts, and any JSON: what pae makes of a    *)
(* bundle and of a receipt tells what was signed, and the collector        *)
(* accepts only what was.                                                  *)
(***************************************************************************)
EXTENDS Fleet, SequenceTheorems, TLAPS

-----------------------------------------------------------------------------
(* What pae is for: the bytes tell what was signed.                        *)

LEMMA ConcatAt ==
  ASSUME NEW a \in Seq(Item), NEW b \in Seq(Item)
  PROVE  /\ a \o b \in Seq(Item) /\ Len(a \o b) = Len(a) + Len(b)
         /\ Len(a) \in Nat /\ Len(b) \in Nat
         /\ \A i \in 1..Len(a) : (a \o b)[i] = a[i]
         /\ \A i \in 1..Len(b) : (a \o b)[Len(a) + i] = b[i]
  OBVIOUS

Cat(a, b) == a \o b

LEMMA SameLength ==
  ASSUME NEW a \in Seq(Item), NEW b \in Seq(Item), NEW s \in Seq(Item),
         NEW t \in Seq(Item), Len(a) = Len(b), Cat(a, s) = Cat(b, t)
  PROVE  a = b /\ s = t
<1> USE DEF Cat
<1>1. \A i \in 1..Len(a) : a[i] = b[i]
  <2>1. \A i \in 1..Len(a) : (a \o s)[i] = a[i]
    BY ConcatAt
  <2>2. \A i \in 1..Len(b) : (b \o t)[i] = b[i]
    BY ConcatAt
  <2>3. QED
    BY <2>1, <2>2
<1>2. Len(s) = Len(t)
  <2>1. Len(a \o s) = Len(a) + Len(s) /\ Len(b \o t) = Len(b) + Len(t)
    BY ConcatAt
  <2>2. Len(a) \in Nat /\ Len(s) \in Nat /\ Len(t) \in Nat
    OBVIOUS
  <2>3. QED
    BY <2>1, <2>2
<1>3. \A i \in 1..Len(s) : s[i] = t[i]
  <2>1. \A i \in 1..Len(s) : (a \o s)[Len(a) + i] = s[i]
    BY ConcatAt
  <2>2. \A i \in 1..Len(t) : (b \o t)[Len(b) + i] = t[i]
    BY ConcatAt
  <2>3. QED
    BY <1>2, <2>1, <2>2
<1>4. QED
  BY <1>1, <1>2, <1>3, SeqEqual

LEMMA FieldParses ==
  ASSUME NEW p \in Text, NEW q \in Text, NEW s \in Seq(Item), NEW t \in Seq(Item),
         Field(p, s) = Field(q, t)
  PROVE  p = q /\ s = t
<1> DEFINE f == <<Len(p)>> \o p
           g == <<Len(q)>> \o q
<1>1. /\ p \in Seq(Item) /\ q \in Seq(Item) /\ Len(p) \in Nat /\ Len(q) \in Nat
      /\ <<Len(p)>> \in Seq(Item) /\ <<Len(q)>> \in Seq(Item)
  BY DEF Text, Item
<1>2. f \in Seq(Item) /\ Len(f) = Len(p) + 1 /\ f[1] = Len(p)
  BY <1>1
<1>3. g \in Seq(Item) /\ Len(g) = Len(q) + 1 /\ g[1] = Len(q)
  BY <1>1
<1>4. f \o s = g \o t /\ Cat(f, s) = Cat(g, t)
  BY DEF Field, Cat
<1> HIDE DEF f, g
<1>5. Len(p) = Len(q)
  <2>1. (f \o s)[1] = Len(p)
    BY <1>1, <1>2
  <2>2. (g \o t)[1] = Len(q)
    BY <1>1, <1>3
  <2>3. QED
    BY <1>4, <2>1, <2>2
<1>6. f = g /\ s = t
  <2>1. Len(f) = Len(g)
    BY <1>2, <1>3, <1>5
  <2>2. QED
    BY <1>2, <1>3, <1>4, <2>1, SameLength
<1>7. Cat(<<Len(p)>>, p) = Cat(<<Len(q)>>, q) /\ Len(<<Len(p)>>) = Len(<<Len(q)>>)
  BY <1>5, <1>6 DEF f, g, Cat
<1>8. p = q
  BY <1>1, <1>7, SameLength
<1>9. QED
  BY <1>6, <1>8

LEMMA HeaderParses ==
  ASSUME NEW d \in Preamble, NEW s \in Seq(Item), NEW t \in Seq(Item),
         Headed(d, s) = Headed(d, t)
  PROVE  s = t
<1> DEFINE h == <<d>>
<1>1. h \in Seq(Item)
  BY DEF Item
<1>2. Cat(h, s) = Cat(h, t)
  BY DEF Headed, Cat
<1> HIDE DEF h
<1>3. QED
  BY <1>1, <1>2, SameLength

\* Nothing is assumed of JSON but that it is text.
Json == /\ \A H \in Seq(Hashes) : Marshal(H) \in Text
        /\ \A r \in Receipt : Marshal(r) \in Text

LEMMA FieldType == <<>> \in Seq(Item) /\ \A p \in Text, s \in Seq(Item) : Field(p, s) \in Seq(Item)
  BY DEF Field, Text, Item

LEMMA Pae3Tells ==
  ASSUME NEW d \in Preamble, NEW p \in Text, NEW q \in Text, NEW r \in Text,
         NEW u \in Text, NEW v \in Text, NEW w \in Text,
         Pae3(d, p, q, r) = Pae3(d, u, v, w)
  PROVE  p = u /\ q = v /\ r = w
<1>1. Field(r, <<>>) \in Seq(Item) /\ Field(w, <<>>) \in Seq(Item)
  BY FieldType
<1>2. Field(q, Field(r, <<>>)) \in Seq(Item) /\ Field(v, Field(w, <<>>)) \in Seq(Item)
  BY <1>1, FieldType
<1>3. /\ Field(p, Field(q, Field(r, <<>>))) \in Seq(Item)
      /\ Field(u, Field(v, Field(w, <<>>))) \in Seq(Item)
  BY <1>2, FieldType
<1>4. Field(p, Field(q, Field(r, <<>>))) = Field(u, Field(v, Field(w, <<>>)))
  BY <1>3, HeaderParses DEF Pae3
<1>5. p = u /\ Field(q, Field(r, <<>>)) = Field(v, Field(w, <<>>))
  BY <1>2, <1>4, FieldParses
<1>6. q = v /\ Field(r, <<>>) = Field(w, <<>>)
  BY <1>1, <1>5, FieldParses
<1>7. r = w
  BY <1>6, FieldType, FieldParses
<1>8. QED
  BY <1>5, <1>6, <1>7

LEMMA Pae1Tells ==
  ASSUME NEW d \in Preamble, NEW p \in Text, NEW q \in Text, Pae1(d, p) = Pae1(d, q)
  PROVE  p = q
<1>1. Field(p, <<>>) \in Seq(Item) /\ Field(q, <<>>) \in Seq(Item) /\ <<>> \in Seq(Item)
  BY FieldType
<1>2. Field(p, <<>>) = Field(q, <<>>)
  BY <1>1, HeaderParses DEF Pae1
<1>3. QED
  BY <1>1, <1>2, FieldParses

LEMMA HeadTells ==
  ASSUME NEW d \in Preamble, NEW e \in Preamble, NEW s \in Seq(Item), NEW t \in Seq(Item),
         Headed(d, s) = Headed(e, t)
  PROVE  d = e
<1>1. Headed(d, s)[1] = d /\ Headed(e, t)[1] = e
  BY DEF Headed, Item
<1>2. QED
  BY <1>1

\* A bundle's bytes are its own, up to the JSON of its hashes.
THEOREM BundleBytesTell ==
  ASSUME Json, NEW b \in Bundle, NEW c \in Bundle, BundleBytes(b) = BundleBytes(c)
  PROVE  /\ b.version = c.version /\ b.payload = c.payload
         /\ Marshal(b.hashes) = Marshal(c.hashes)
<1>1. /\ b.version \in Text /\ b.payload \in Text /\ Marshal(b.hashes) \in Text
      /\ c.version \in Text /\ c.payload \in Text /\ Marshal(c.hashes) \in Text
  BY DEF Bundle, Json
<1> DEFINE d == "bundle 3"
           m == Marshal(b.hashes)
           n == Marshal(c.hashes)
<1>2. d \in Preamble
  BY DEF Preamble
<1>3. Pae3(d, b.version, m, b.payload) = Pae3(d, c.version, n, c.payload)
  BY DEF BundleBytes
<1> HIDE DEF d, m, n
<1>4. m \in Text /\ n \in Text
  BY <1>1 DEF m, n
<1>5. b.version = c.version /\ m = n /\ b.payload = c.payload
  BY <1>1, <1>2, <1>3, <1>4, Pae3Tells, SMTT(60)
<1>6. QED
  BY <1>5 DEF m, n

LEMMA ReceiptBytesTell ==
  ASSUME Json, NEW r \in Receipt, NEW s \in Receipt, ReceiptBytes(r) = ReceiptBytes(s)
  PROVE  Marshal(r) = Marshal(s)
<1>1. Marshal(r) \in Text /\ Marshal(s) \in Text
  BY DEF Json
<1>2. "receipt 1" \in Preamble
  BY DEF Preamble
<1>3. QED
  BY <1>1, <1>2, Pae1Tells DEF ReceiptBytes

\* One signature is never good for both a bundle and a receipt.
THEOREM TypesAreApart ==
  ASSUME Json, NEW b \in Bundle, NEW r \in Receipt
  PROVE  BundleBytes(b) # ReceiptBytes(r)
<1>1. /\ b.version \in Text /\ b.payload \in Text
      /\ Marshal(b.hashes) \in Text /\ Marshal(r) \in Text
  BY DEF Bundle, Json
<1>2. Field(b.payload, <<>>) \in Seq(Item) /\ Field(Marshal(r), <<>>) \in Seq(Item)
  BY <1>1, FieldType
<1>3. Field(Marshal(b.hashes), Field(b.payload, <<>>)) \in Seq(Item)
  BY <1>1, <1>2, FieldType
<1>4. Field(b.version, Field(Marshal(b.hashes), Field(b.payload, <<>>))) \in Seq(Item)
  BY <1>1, <1>3, FieldType
<1>5. "bundle 3" \in Preamble /\ "receipt 1" \in Preamble /\ "bundle 3" # "receipt 1"
  BY DEF Preamble
<1>6. QED
  BY <1>2, <1>4, <1>5, HeadTells DEF BundleBytes, ReceiptBytes, Pae1, Pae3

-----------------------------------------------------------------------------
(* The collector.                                                          *)

\* A signature that verifies over a receipt was made over a receipt.
LEMMA VerifiedWasSigned ==
  ASSUME Json, TypeOK, NEW r \in Receipt, NEW sig \in Made \cup {<<>>},
         Verifies(trusted, ReceiptBytes(r), sig)
  PROVE  SignedAsReceipt(r)
<1>1. sig = <<trusted, ReceiptBytes(r)>> /\ trusted \in Keys
  BY DEF Verifies, EdSign
<1>2. sig # <<>>
  BY <1>1
<1>3. CASE \E x \in bundles : sig = EdSign(x[1], BundleBytes(x[2]))
  <2>1. PICK x \in bundles : sig = <<x[1], BundleBytes(x[2])>>
    BY <1>3 DEF EdSign
  <2>2. x[2] \in Bundle /\ BundleBytes(x[2]) = ReceiptBytes(r)
    BY <1>1, <2>1 DEF TypeOK
  <2>3. QED
    BY <2>2, TypesAreApart
<1>4. CASE \E x \in receipts : sig = EdSign(x[1], ReceiptBytes(x[2]))
  <2>1. PICK x \in receipts : sig = <<x[1], ReceiptBytes(x[2])>>
    BY <1>4 DEF EdSign
  <2>2. /\ x = <<trusted, x[2]>> /\ x[2] \in Receipt
        /\ ReceiptBytes(x[2]) = ReceiptBytes(r)
    BY <1>1, <2>1 DEF TypeOK
  <2>3. Marshal(x[2]) = Marshal(r)
    BY <2>2, ReceiptBytesTell
  <2>4. QED
    BY <1>1, <2>1, <2>2, <2>3 DEF SignedAsReceipt
<1>5. QED
  BY <1>2, <1>3, <1>4 DEF Made

\* LoadVerified returns only what the holder of the trusted key signed as a
\* bundle, up to the JSON of its hashes.
THEOREM LoadedWasSigned ==
  ASSUME Json, TypeOK, NEW b \in Bundle, NEW sig \in Made \cup {<<>>}, NEW key,
         Verify(b, sig, key)
  PROVE  \E c \in Bundle : /\ <<key, c>> \in bundles
                           /\ c.version = b.version /\ c.payload = b.payload
                           /\ Marshal(c.hashes) = Marshal(b.hashes)
<1>1. sig = <<key, BundleBytes(b)>> /\ sig # <<>>
  BY DEF Verify, Verifies, EdSign
<1>2. CASE \E x \in bundles : sig = EdSign(x[1], BundleBytes(x[2]))
  <2>1. PICK x \in bundles : sig = <<x[1], BundleBytes(x[2])>>
    BY <1>2 DEF EdSign
  <2>2. x = <<key, x[2]>> /\ x[2] \in Bundle /\ BundleBytes(x[2]) = BundleBytes(b)
    BY <1>1, <2>1 DEF TypeOK
  <2>3. QED
    BY <2>1, <2>2, BundleBytesTell
<1>3. CASE \E x \in receipts : sig = EdSign(x[1], ReceiptBytes(x[2]))
  <2>1. PICK x \in receipts : sig = <<x[1], ReceiptBytes(x[2])>>
    BY <1>3 DEF EdSign
  <2>2. x[2] \in Receipt /\ ReceiptBytes(x[2]) = BundleBytes(b)
    BY <1>1, <2>1 DEF TypeOK
  <2>3. QED
    BY <2>2, TypesAreApart
<1>4. QED
  BY <1>1, <1>2, <1>3 DEF Made

\* What a step does to the list of accepted receipts.
Accepts == \E r \in Receipt :
             accepted' = Append(accepted, r) /\ SignedAsReceipt(r) /\ r.hash \in blessed

LEMMA CollectorStep ==
  ASSUME Json, TypeOK, [Next]_vars
  PROVE  /\ TypeOK' /\ UNCHANGED <<blessed, trusted>>
         /\ receipts \subseteq receipts'
         /\ UNCHANGED accepted \/ Accepts
<1>1. CASE \E k \in Keys, b \in Bundle : Sign(k, b)
  BY <1>1 DEF Sign, TypeOK, collectorVars
<1>2. CASE \E k \in Keys, r \in Receipt : SignReceipt(k, r)
  BY <1>2 DEF SignReceipt, TypeOK, collectorVars
<1>3. CASE \E r \in Receipt, sig \in Made \cup {<<>>} : Collect(r, sig)
  <2>1. PICK r \in Receipt, sig \in Made \cup {<<>>} : Collect(r, sig)
    BY <1>3
  <2>2. UNCHANGED <<bundles, receipts, blessed, trusted>>
    BY <2>1 DEF Collect
  <2>3. CASE UNCHANGED accepted
    BY <2>2, <2>3 DEF TypeOK
  <2>4. CASE /\ Verifies(trusted, ReceiptBytes(r), sig) /\ r.hash \in blessed
             /\ accepted' = Append(accepted, r)
    BY <2>2, <2>4, VerifiedWasSigned DEF TypeOK, Accepts
  <2>5. QED
    BY <2>1, <2>3, <2>4 DEF Collect, Reject
<1>4. CASE UNCHANGED vars
  BY <1>4 DEF vars, TypeOK
<1>5. QED
  BY <1>1, <1>2, <1>3, <1>4 DEF Next

CollectorInv ==
  /\ TypeOK /\ NoHash \notin blessed
  /\ AcceptedWereSigned /\ AcceptedAreBlessed

LEMMA CollectorInvariant == ASSUME Json PROVE Spec => []CollectorInv
<1>1. Init => CollectorInv
  BY DEF Init, CollectorInv, TypeOK, AcceptedWereSigned, AcceptedAreBlessed
<1>2. CollectorInv /\ [Next]_vars => CollectorInv'
  <2> SUFFICES ASSUME CollectorInv, [Next]_vars PROVE CollectorInv'
    OBVIOUS
  <2>1. /\ TypeOK' /\ UNCHANGED <<blessed, trusted>> /\ receipts \subseteq receipts'
        /\ UNCHANGED accepted \/ Accepts
    BY CollectorStep DEF CollectorInv
  <2>2. \A r : SignedAsReceipt(r) => SignedAsReceipt(r)'
    BY <2>1 DEF SignedAsReceipt
  <2>3. CASE UNCHANGED accepted
    BY <2>1, <2>2, <2>3 DEF CollectorInv, AcceptedWereSigned, AcceptedAreBlessed
  <2>4. CASE Accepts
    <3>1. PICK r \in Receipt : /\ accepted' = Append(accepted, r)
                              /\ SignedAsReceipt(r) /\ r.hash \in blessed
      BY <2>4 DEF Accepts
    <3>2. ASSUME NEW i \in 1..Len(accepted')
          PROVE  accepted'[i] = r \/ (i \in 1..Len(accepted) /\ accepted'[i] = accepted[i])
      BY <3>1 DEF CollectorInv, TypeOK
    <3>3. QED
      BY <2>1, <2>2, <3>1, <3>2 DEF CollectorInv, AcceptedWereSigned, AcceptedAreBlessed
  <2>5. QED
    BY <2>1, <2>3, <2>4
<1>3. QED
  BY <1>1, <1>2, PTL DEF Spec

\* Every receipt the collector accepts was signed, as a receipt, by the holder
\* of the trusted key, even if that key also signs bundles and whatever
\* signatures are sent along; and its policy is a blessed one.
THEOREM AcceptedIsEvidence ==
  ASSUME Json PROVE Spec => [](AcceptedWereSigned /\ AcceptedAreBlessed)
<1>1. CollectorInv => AcceptedWereSigned /\ AcceptedAreBlessed
  BY DEF CollectorInv
<1>2. QED
  BY <1>1, CollectorInvariant, PTL

\* Fail-closed: without a blessed policy, or without a key of the right size,
\* nothing is ever accepted.
THEOREM NothingBlessedNothingAccepted ==
  ASSUME Json PROVE Spec => [](blessed = {} \/ trusted \notin Keys => accepted = <<>>)
<1>1. ASSUME CollectorInv, blessed = {} \/ trusted \notin Keys PROVE accepted = <<>>
  <2>1. ~\E i \in 1..Len(accepted) : TRUE
    BY <1>1 DEF CollectorInv, AcceptedWereSigned, AcceptedAreBlessed, SignedAsReceipt
  <2>2. QED
    BY <1>1, <2>1 DEF CollectorInv, TypeOK
<1>2. QED
  BY <1>1, CollectorInvariant, PTL

\* A sink: what was accepted stays, as it was and where it was.
THEOREM AcceptedStays ==
  ASSUME Json
  PROVE  Spec => [][/\ Len(accepted') >= Len(accepted)
                    /\ \A i \in 1..Len(accepted) : accepted'[i] = accepted[i]]_vars
<1>1. ASSUME CollectorInv, [Next]_vars
      PROVE  /\ Len(accepted') >= Len(accepted)
             /\ \A i \in 1..Len(accepted) : accepted'[i] = accepted[i]
  <2>1. accepted \in Seq(Receipt) /\ (UNCHANGED accepted \/ Accepts)
    BY <1>1, CollectorStep DEF CollectorInv, TypeOK
  <2>2. QED
    BY <2>1 DEF Accepts
<1>2. QED
  BY <1>1, CollectorInvariant, PTL DEF Spec

\* The backend the report judges is the one that was signed, if JSON keeps it:
\* it cannot be changed on the way to the collector.
THEOREM BackendIsAsSigned ==
  ASSUME Json, \A r, s \in Receipt : Marshal(r) = Marshal(s) => r.backend = s.backend
  PROVE  Spec => []BackendAsSigned
<1>1. ASSUME CollectorInv, NEW i \in 1..Len(accepted)
      PROVE  \E s \in Receipt : <<trusted, s>> \in receipts /\ s.backend = accepted[i].backend
  <2>1. accepted[i] \in Receipt
    BY <1>1 DEF CollectorInv, TypeOK
  <2>2. QED
    BY <1>1, <2>1 DEF CollectorInv, AcceptedWereSigned, SignedAsReceipt
<1>2. CollectorInv => BackendAsSigned
  BY <1>1 DEF BackendAsSigned
<1>3. QED
  BY <1>2, CollectorInvariant, PTL
=============================================================================
