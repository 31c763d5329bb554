------------------------------- MODULE Ledger -------------------------------
(***************************************************************************)
(* The hash-chained ledger of a session (internal/ledger), as operators on *)
(* sequences of entries.  The hash is an injective constructor: two        *)
(* entries have the same hash only if their predecessor's hash, their      *)
(* number and their payload are the same.                                  *)
(***************************************************************************)
EXTENDS Naturals, Sequences

Genesis == <<>>

\* Mutant: the payload is not hashed.
HashEntryWithoutPayload(prev, seq, payload) == <<prev, seq>>
HashEntry(prev, seq, payload) == <<prev, seq, payload>>

\* The record Append adds; `prev` is read a second time after the hash.
Entry(seq, payload, prev, hash) ==
  [seq |-> seq, payload |-> payload, prev |-> prev, hash |-> hash]

\* The hash entry i must name as its predecessor's.
PrevHash(entries, i) == IF i = 1 THEN Genesis ELSE entries[i - 1].hash

\* Ledger.Verify: every entry has its number, its link and its hash.
Verifies(entries) ==
  \A i \in 1..Len(entries) :
    /\ entries[i].seq = i - 1
    /\ entries[i].prev = PrevHash(entries, i)
    /\ entries[i].hash = HashEntry(PrevHash(entries, i), i - 1,
                                   entries[i].payload)

\* Ledger.Head of a chain that was appended to one entry at a time.
HeadHash(entries) == PrevHash(entries, Len(entries) + 1)

\* A chain with the given payloads, every hash computed afresh.
Rebuilt(payloads) ==
  LET hash[i \in 0..Len(payloads)] ==
        IF i = 0 THEN Genesis
        ELSE HashEntry(hash[i - 1], i - 1, payloads[i])
  IN [i \in 1..Len(payloads) |->
        Entry(i - 1, payloads[i], hash[i - 1], hash[i])]

Payloads(entries) == [i \in 1..Len(entries) |-> entries[i].payload]
=============================================================================
