-------------------------------- MODULE Fleet --------------------------------
(***************************************************************************)
(* The fleet layer (internal/fleet): policy bundles signed by the security *)
(* team, receipts signed by hosts, and the collector that takes receipts   *)
(* in.  A library: no command calls it yet.                                *)
(*                                                                         *)
(* Ed25519 is external and taken to be unforgeable: a signature exists if  *)
(* the holder of the key made it.  What it is made over is modelled as the *)
(* sequence pae builds, in which a number and the blank that ends it are   *)
(* one item.  json.Marshal is an operator of which nothing is assumed, so  *)
(* two values may have the same JSON.                                      *)
(***************************************************************************)
EXTENDS Integers, Sequences

CONSTANTS Keys,        \* key pairs
          NoKey,       \* a trusted key of the wrong size
          Byte,        \* bytes
          Agents, Backends, Hashes,
          Strong,      \* strongBackends
          NoHash,      \* ""
          Marshal(_)   \* JSON

Text == Seq(Byte)

Bundle  == [version : Text, hashes : Seq(Hashes), payload : Text]
Receipt == [agent : Agents, backend : Backends, hash : Hashes]

VARIABLES
  bundles,   \* <<key, bundle>>: what Sign was called with
  receipts,  \* <<key, receipt>>: what SignReceipt was called with
  blessed,   \* the collector's set of hashes
  trusted,   \* its key
  accepted,  \* the receipts it has accepted
  rejected   \* <<agent, reason>> of those it has refused

vars == <<bundles, receipts, blessed, trusted, accepted, rejected>>

-----------------------------------------------------------------------------
(* Signing.                                                                *)

\* pae: the domain and the arity, which are one item here, then every part
\* after its length.
Preamble == {"bundle 3", "receipt 1"}
Item == Byte \cup Nat \cup Preamble
Headed(head, s) == <<head>> \o s
Field(p, s)     == (<<Len(p)>> \o p) \o s

Pae1(head, p)       == Headed(head, Field(p, <<>>))
Pae3(head, p, q, r) == Headed(head, Field(p, Field(q, Field(r, <<>>))))

BundleBytes(b)  == Pae3("bundle 3", b.version, Marshal(b.hashes), b.payload)
ReceiptBytes(r) == Pae1("receipt 1", Marshal(r))

EdSign(k, bytes) == <<k, bytes>>

\* The signatures there are.
Made == {EdSign(x[1], BundleBytes(x[2])) : x \in bundles}
        \cup {EdSign(x[1], ReceiptBytes(x[2])) : x \in receipts}

\* No signature of the right size that verifies against a key of that size.
Verifies(key, bytes, sig) == key \in Keys /\ sig = EdSign(key, bytes)

\* Verify: LoadVerified returns the bundle only if it holds.
Verify(b, sig, key) == Verifies(key, BundleBytes(b), sig)

-----------------------------------------------------------------------------
(* The collector.                                                          *)

Init ==
  /\ bundles = {}
  /\ receipts = {}
  /\ blessed \in {H \ {NoHash} : H \in SUBSET Hashes}   \* NewCollector
  /\ trusted \in Keys \cup {NoKey}
  /\ accepted = <<>>
  /\ rejected = <<>>

collectorVars == <<blessed, trusted, accepted, rejected>>

Sign(k, b) ==
  /\ bundles' = bundles \cup {<<k, b>>}
  /\ UNCHANGED <<receipts, collectorVars>>

SignReceipt(k, r) ==
  /\ receipts' = receipts \cup {<<k, r>>}
  /\ UNCHANGED <<bundles, collectorVars>>

Reject(r, reason) ==
  /\ rejected' = Append(rejected, <<r.agent, reason>>)
  /\ UNCHANGED accepted

\* A receipt arrives with some signature there is, its own, another receipt's
\* or a bundle's, or with none.
Collect(r, sig) ==
  /\ \/ ~Verifies(trusted, ReceiptBytes(r), sig) /\ Reject(r, "signature")
     \/ /\ Verifies(trusted, ReceiptBytes(r), sig)
        /\ r.hash \notin blessed
        /\ Reject(r, "hash")
     \/ /\ Verifies(trusted, ReceiptBytes(r), sig)
        /\ r.hash \in blessed
        /\ accepted' = Append(accepted, r)
        /\ UNCHANGED rejected
  /\ UNCHANGED <<bundles, receipts, blessed, trusted>>

Next ==
  \/ \E k \in Keys, b \in Bundle : Sign(k, b)
  \/ \E k \in Keys, r \in Receipt : SignReceipt(k, r)
  \/ \E r \in Receipt, sig \in Made \cup {<<>>} : Collect(r, sig)

Spec == Init /\ [][Next]_vars

\* Collector.Verify.
Report ==
  [accepted |-> Len(accepted), rejected |-> Len(rejected),
   weak |-> SelectSeq(accepted, LAMBDA r : r.backend \notin Strong)]

-----------------------------------------------------------------------------
(* Properties.                                                             *)

\* Types of what the properties look at.
TypeOK ==
  /\ bundles \subseteq Keys \X Bundle
  /\ receipts \subseteq Keys \X Receipt
  /\ accepted \in Seq(Receipt)

\* The holder of the trusted key signed, as a receipt, one with the same JSON.
SignedAsReceipt(r) ==
  trusted \in Keys /\ \E s \in Receipt : <<trusted, s>> \in receipts /\ Marshal(s) = Marshal(r)

\* "The collector stores and verifies": what it accepts was signed as a receipt,
\* though the same key may sign bundles and any signature may come with it.
AcceptedWereSigned == \A i \in 1..Len(accepted) : SignedAsReceipt(accepted[i])

\* It was made under a policy of the blessed set, never under an empty one.
AcceptedAreBlessed == \A i \in 1..Len(accepted) : accepted[i].hash \in blessed \ {NoHash}

\* "Post-signing tampering is caught": the backend the report looks at is one
\* that was signed.
BackendAsSigned ==
  \A i \in 1..Len(accepted) : \E s \in Receipt :
    <<trusted, s>> \in receipts /\ s.backend = accepted[i].backend
=============================================================================
