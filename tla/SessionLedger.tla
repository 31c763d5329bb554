--------------------------- MODULE SessionLedger ---------------------------
(***************************************************************************)
(* A session's egress ledger while the proxy serves requests and while the *)
(* session is finished (session.Start, session.Finish, egress.Decide,      *)
(* ledger.Append).                                                         *)
(*                                                                         *)
(* net/http runs every request on a goroutine of its own and Append takes  *)
(* no lock, so Append is four steps here: read the length and the last     *)
(* hash, read the slice and the last hash again, store the slice with the  *)
(* entry added, store the new last hash.                                   *)
(***************************************************************************)
EXTENDS Ledger, FiniteSets

CONSTANTS Requests,  \* CONNECT requests, one goroutine each
          Main       \* the goroutine that calls Finish

ASSUME SessionAssumption == Main \notin Requests

Writers == Requests \cup {Main}
Start   == <<Main, "sessionStart">>
Stop    == <<Main, "sessionFinish">>
Verdict == {"allowed", "denied"}
None    == "none"

VARIABLES
  entries, last,  \* the ledger
  counters,       \* the proxy's atomic counters
  verdict,        \* what was decided on each request
  wpc,            \* where each writer is inside Append
  local,          \* what it has read
  fpc,            \* where Finish is
  receipt,        \* what Finish has put into the receipt
  overlap,        \* two calls of Append have overlapped
  late            \* a decision was made or recorded while Finish ran

vars == <<entries, last, counters, verdict, wpc, local, fpc, receipt, overlap,
          late>>
ledgerVars == <<entries, last>>

Payload(w) == IF w = Main THEN Stop ELSE <<w, verdict[w]>>

\* The locals of Append before it has read anything.
Unread == [seq |-> 0, hash |-> Genesis, prev |-> Genesis, base |-> <<>>]

Init ==
  /\ entries = Rebuilt(<<Start>>)
  /\ last = HeadHash(entries)
  /\ counters = [v \in Verdict |-> 0]
  /\ verdict = [q \in Requests |-> None]
  /\ wpc = [w \in Writers |-> "idle"]
  /\ local = [w \in Writers |-> Unread]
  /\ fpc = "running"
  /\ receipt = [counted |-> counters, len |-> 0, head |-> Genesis,
                file |-> <<>>]
  /\ overlap = FALSE
  /\ late = FALSE

Inside(w)  == wpc[w] \in {"stored", "read", "built"}
Finishing  == fpc # "running"
Busy(w)    == wpc[w] \notin {"idle", "done"}
Step(w, next) == wpc' = [wpc EXCEPT ![w] = next]

\* Mutant: the hook runs before the verdict is set.
DecideHookFirst(q) ==
  /\ wpc[q] = "idle"
  /\ \E v \in Verdict : counters' = [counters EXCEPT ![v] = @ + 1]
  /\ Step(q, "append")
  /\ late' = (late \/ Finishing)
  /\ UNCHANGED <<ledgerVars, verdict, local, fpc, receipt, overlap>>

\* egress.Decide: the verdict, its counter, then the hook.  Server.Close does
\* not wait for the goroutines of requests that were accepted before it.
Decide(q) ==
  /\ wpc[q] = "idle"
  /\ \E v \in Verdict :
       /\ verdict' = [verdict EXCEPT ![q] = v]
       /\ counters' = [counters EXCEPT ![v] = @ + 1]
  /\ Step(q, "append")
  /\ late' = (late \/ Finishing)
  /\ UNCHANGED <<ledgerVars, local, fpc, receipt, overlap>>

-----------------------------------------------------------------------------
(* ledger.Append by writer w.                                              *)

\* seq := len(l.entries); hash := hashEntry(l.last, seq, kind, raw)
AppendRead(w) ==
  /\ wpc[w] = "append"
  /\ local' = [local EXCEPT ![w].seq = Len(entries),
                            ![w].hash = HashEntry(last, Len(entries), Payload(w))]
  /\ Step(w, "read")
  /\ overlap' = (overlap \/ \E x \in Writers \ {w} : Inside(x))
  /\ late' = (late \/ (Finishing /\ w # Main))
  /\ UNCHANGED <<ledgerVars, counters, verdict, fpc, receipt>>

\* The operands of append: the slice and a second read of l.last.
AppendBuild(w) ==
  /\ wpc[w] = "read"
  /\ local' = [local EXCEPT ![w].prev = last, ![w].base = entries]
  /\ Step(w, "built")
  /\ UNCHANGED <<ledgerVars, counters, verdict, fpc, receipt, overlap, late>>

\* l.entries = append(...)
AppendStore(w) ==
  /\ wpc[w] = "built"
  /\ LET l == local[w]
     IN entries' = Append(l.base, Entry(l.seq, Payload(w), l.prev, l.hash))
  /\ Step(w, "stored")
  /\ UNCHANGED <<last, counters, verdict, local, fpc, receipt, overlap, late>>

\* Mutant: the last hash is not stored.
AppendEndKeepsLast(w) ==
  /\ wpc[w] = "stored"
  /\ Step(w, "done")
  /\ local' = [local EXCEPT ![w] = Unread]
  /\ late' = (late \/ (Finishing /\ w # Main))
  /\ UNCHANGED <<ledgerVars, counters, verdict, fpc, receipt, overlap>>

\* l.last = hash
AppendEnd(w) ==
  /\ wpc[w] = "stored"
  /\ last' = local[w].hash
  /\ Step(w, "done")
  /\ local' = [local EXCEPT ![w] = Unread]
  /\ late' = (late \/ (Finishing /\ w # Main))
  /\ UNCHANGED <<entries, counters, verdict, fpc, receipt, overlap>>

-----------------------------------------------------------------------------
(* session.Finish: its own record, Close, then the receipt field by field. *)

FinishStep(from, next) == fpc = from /\ fpc' = next

FinishAppend ==
  /\ FinishStep("running", "append")
  /\ Step(Main, "append")
  /\ late' = \E q \in Requests : Busy(q)
  /\ UNCHANGED <<ledgerVars, counters, verdict, local, receipt, overlap>>

Close ==
  /\ FinishStep("append", "close")
  /\ wpc[Main] = "done"
  /\ UNCHANGED <<ledgerVars, counters, verdict, wpc, local, receipt, overlap,
                 late>>

ReadCounters(from, v, next) ==
  /\ FinishStep(from, next)
  /\ receipt' = [receipt EXCEPT !.counted[v] = counters[v]]
  /\ UNCHANGED <<ledgerVars, counters, verdict, wpc, local, overlap, late>>

\* Mutant: the length does not count Finish's own record.
ReadLenBeforeFinish ==
  /\ FinishStep("len", "head")
  /\ receipt' = [receipt EXCEPT !.len = Len(entries) - 1]
  /\ UNCHANGED <<ledgerVars, counters, verdict, wpc, local, overlap, late>>

ReadLen ==
  /\ FinishStep("len", "head")
  /\ receipt' = [receipt EXCEPT !.len = Len(entries)]
  /\ UNCHANGED <<ledgerVars, counters, verdict, wpc, local, overlap, late>>

ReadHead ==
  /\ FinishStep("head", "file")
  /\ receipt' = [receipt EXCEPT !.head = last]
  /\ UNCHANGED <<ledgerVars, counters, verdict, wpc, local, overlap, late>>

\* WriteJSONL, then WriteReceipt.
WriteFiles ==
  /\ FinishStep("file", "finished")
  /\ receipt' = [receipt EXCEPT !.file = entries]
  /\ UNCHANGED <<ledgerVars, counters, verdict, wpc, local, overlap, late>>

Finish ==
  \/ FinishAppend \/ Close
  \/ ReadCounters("close", "allowed", "denied")
  \/ ReadCounters("denied", "denied", "len")
  \/ ReadLen \/ ReadHead \/ WriteFiles

Terminated ==
  /\ fpc = "finished"
  /\ \A q \in Requests : ~Busy(q)
  /\ UNCHANGED vars

Next ==
  \/ \E q \in Requests : Decide(q)
  \/ \E w \in Writers :
       AppendRead(w) \/ AppendBuild(w) \/ AppendStore(w) \/ AppendEnd(w)
  \/ Finish
  \/ Terminated

Spec == Init /\ [][Next]_vars

-----------------------------------------------------------------------------
(* Properties.                                                             *)

PayloadSet == {Start, Stop} \cup (Requests \X Verdict)

\* Types of the variables; hashes are left alone.
TypeOK ==
  /\ \A i \in 1..Len(entries) :
       entries[i].seq \in Nat /\ entries[i].payload \in PayloadSet
  /\ counters \in [Verdict -> Nat]
  /\ verdict \in [Requests -> Verdict \cup {None}]
  /\ wpc \in [Writers -> {"idle", "append", "read", "built", "stored", "done"}]
  /\ fpc \in {"running", "append", "close", "denied", "len", "head", "file",
              "finished"}
  /\ overlap \in BOOLEAN /\ late \in BOOLEAN

Quiet == \A w \in Writers : ~Inside(w)

Recorded(v) ==
  Cardinality({i \in 1..Len(entries) :
                 \E q \in Requests : entries[i].payload = <<q, v>>})

\* As long as calls of Append have not overlapped, the ledger verifies
\* whenever no call is under way, its last hash is its head, and it holds
\* exactly one entry per decision whose hook has run.
SerialLedgerIntact ==
  ~overlap /\ Quiet =>
    /\ Verifies(entries)
    /\ last = HeadHash(entries)
    /\ \A q \in Requests :
         wpc[q] = "done" =>
           \E i \in 1..Len(entries) : entries[i].payload = <<q, verdict[q]>>
    /\ Len(entries) = 1 + Cardinality({w \in Writers : wpc[w] = "done"})

\* A session finished while no request was being served has a receipt that
\* agrees with the ledger file: length, head and both counts.
QuietReceiptAgrees ==
  fpc = "finished" /\ ~late /\ ~overlap =>
    /\ receipt.len = Len(receipt.file)
    /\ receipt.head = HeadHash(receipt.file)
    /\ \A v \in Verdict : receipt.counted[v] = Recorded(v)

\* The ledger file is tamper-evident the way the package comment says: an
\* edit of one payload breaks Verify, and an edit with the whole chain
\* recomputed, or a cut tail, no longer has the receipt's length and head.
TamperEvident ==
  fpc = "finished" /\ ~late /\ ~overlap =>
    /\ \A i \in 1..Len(receipt.file), p \in PayloadSet :
         p # receipt.file[i].payload =>
           LET edited == [receipt.file EXCEPT ![i].payload = p]
               redone == Rebuilt(Payloads(edited))
           IN /\ ~Verifies(edited)
              /\ Verifies(redone) /\ HeadHash(redone) # receipt.head
    /\ \A n \in 0..(Len(receipt.file) - 1) :
         LET cut == SubSeq(receipt.file, 1, n)
         IN Verifies(cut) /\ Len(cut) # receipt.len /\ HeadHash(cut) # receipt.head

\* session.Start: "Every egress decision is appended to the ledger as it
\* happens."
EveryDecisionRecorded ==
  Quiet => \A q \in Requests :
    wpc[q] = "done" =>
      \E i \in 1..Len(entries) : entries[i].payload = <<q, verdict[q]>>
=============================================================================
