---------------------------- MODULE ReceiptFiles ----------------------------
(***************************************************************************)
(* What cmdHere leaves behind (cli.writeRunReceipt): the receipt in clear, *)
(* then the machine's key, then the signed envelope.  Both files are       *)
(* written in place, under the box name.  `runclave verify` (cmdVerify,    *)
(* ledger.VerifyEnvelope) reads the envelope.                              *)
(*                                                                         *)
(* A receipt is identified with its run and a file with the runs whose     *)
(* bytes are in it: {} is missing, empty or truncated, {r} is r's receipt, *)
(* anything more does not parse.                                           *)
(***************************************************************************)
EXTENDS HostRuns, ReceiptKey, Naturals, FiniteSets

VARIABLES
  json,      \* runclave-<name>-receipt.json
  envelope,  \* runclave-<name>-receipt.dsse.json
  flawed     \* since a run last began to write there alone, another one wrote
             \* beside it, or a writer failed or was cut short

fileVars == <<json, envelope, flawed>>

FilesInit ==
  /\ json = [b \in Boxes |-> {}]
  /\ envelope = [b \in Boxes |-> {}]
  /\ flawed = [b \in Boxes |-> FALSE]

\* From the first file opened to the last one written.
Writing == {"jsonData", "sign", "envelope", "envelopeData"}
Writers(b) == {r \in Runs : Box[r] = b /\ at[r] \in Writing}

\* Mutant: opened without O_TRUNC.
TruncateNot(r, file) == file

\* os.WriteFile opens with O_TRUNC ...
Truncate(r, file) == [file EXCEPT ![Box[r]] = {}]
\* ... and writes from the start: what is there by then is overwritten, or
\* sticks out behind.
Overwrites(r, file) ==
  {[file EXCEPT ![Box[r]] = {r}], [file EXCEPT ![Box[r]] = @ \cup {r}]}

Flaw(r) == flawed' = [flawed EXCEPT ![Box[r]] = TRUE]

OpenJson(r) ==
  /\ "cache" \in use[r]
  /\ Step(r, "json", "jsonData")
  /\ json' = Truncate(r, json)
  /\ flawed' = [flawed EXCEPT ![Box[r]] = Writers(Box[r]) # {}]
  /\ UNCHANGED envelope

WriteJson(r) ==
  /\ Step(r, "jsonData", "sign")
  /\ json' \in Overwrites(r, json)
  /\ UNCHANGED <<envelope, flawed>>

\* SignReceipt with the key receiptSigningKey returned; without one the
\* receipt stays unsigned.
Sign(r) ==
  /\ pc[r] = "done"
  /\ IF held[r] # NoKey
     THEN Step(r, "sign", "envelope") /\ UNCHANGED flawed
     ELSE Step(r, "sign", "cleanup") /\ Flaw(r)
  /\ UNCHANGED <<json, envelope>>

OpenEnvelope(r) ==
  /\ Step(r, "envelope", "envelopeData")
  /\ envelope' = Truncate(r, envelope)
  /\ UNCHANGED <<json, flawed>>

WriteEnvelope(r) ==
  /\ Step(r, "envelopeData", "cleanup")
  /\ envelope' \in Overwrites(r, envelope)
  /\ UNCHANGED <<json, flawed>>

\* No place for receipts: receiptDir fails.
NoReceipt(r) ==
  /\ "cache" \notin use[r]
  /\ Step(r, "json", "cleanup")
  /\ UNCHANGED fileVars

\* A receipt that cannot be written is not an error of the run.
WriteFails(r) ==
  /\ "cache" \in use[r]
  /\ \/ \E s \in {"json", "jsonData"} : Step(r, s, "sign")
     \/ \E s \in {"envelope", "envelopeData"} : Step(r, s, "cleanup")
  /\ Flaw(r)
  /\ UNCHANGED <<json, envelope>>

\* cmdVerify: an envelope that parses and whose signature holds is one run's
\* in full; then the signer is compared with this machine's key.
VerifyReceipt(v) ==
  /\ \E r \in Runs : envelope[Box[r]] = {r} /\ held[r] # NoKey
  /\ Verify(v)

-----------------------------------------------------------------------------
\* The two files of a box name speak of the same run, in full, whenever no
\* run is writing them, unless writers overlapped, failed or were cut short.
\* In particular the signed one is then never empty or mixed, and `verify`
\* vouches for the receipt that lies beside it.
ReceiptPairAgrees ==
  \A b \in Boxes :
    Writers(b) = {} /\ ~flawed[b] =>
      json[b] = envelope[b] /\ Cardinality(json[b]) <= 1
=============================================================================
