# A TLA+ model of runclave

runclave runs a coding agent in a disposable container: a box on a network
without a route out, an egress gateway that is the box's only way to the
internet, a daemon on the host that hands out short-lived git credentials, and
a signed receipt of what happened. This directory holds a model of that program:
TLA+ modules written from the Go source under `src/`, configurations that check
them with TLC, and proofs of the most important invariants for TLAPS.

    tlc -workers 2 -config lifecycle_solo.cfg MCRunLifecycle     # one run
    tlapm RunLifecycleProofs.tla                                 # one proof module

`PROJECT.json` is the machine-readable index: components, runs, the map from
definitions to source lines, mutants, findings, hazards and theorems.

## 1. Inventory: the system's parts

| part | source (`src/internal/`) | state it keeps | operations | what is hard | what makes it correct |
|---|---|---|---|---|---|
| run lifecycle | `cli/cli.go` cmdHere, `box/lifecycle.go` Execute/Destroy, `box/runner.go` | list of cleanups, two `sync.Once`, the Docker objects of the name, the receipt's disposition | prepare, provision, run the agent, tear down, handle SIGINT/SIGTERM, `destroy` | two goroutines, several processes on one name, docker failures, `os.Exit` beside a running command | receipts say what is true; the removal order is right; cleanups registered are run; a signal ends the process |
| plan and guard | `box/lifecycle.go` BuildPlan, VerifyEgressInvariants; `workspace` HasHostEscape | none | build, check, execute | a regression in a flag or in the order of steps | the guard accepts what is built, but for reasons one can name, and what it accepts keeps the box inside |
| receipt key | `cli/cli.go` receiptSigningKey, loadReceiptKey, cmdVerify | one key file, temporary files | load, generate, link, reload, verify | processes race on first use; kills between steps | one identity, never a partial key |
| session ledger | `ledger/ledger.go`, `session/session.go`, `egress` Decide | entries, last hash, counters | append, verify, finish | concurrent unlocked appends; Finish reads while requests run | the chain verifies and the receipt agrees with it |
| egress proxy | `egress/egress.go`, `inject.go`, `ca.go` | allowlist, semaphore, certificate cache, deadlines, pipes | CONNECT: deny, pipe, or terminate TLS and inject a credential | many goroutines, deadlines, half-open pipes | slots are not leaked, idle clients are dropped, pipes end |
| credential broker | `broker/broker.go`, `serve.go` | semaphore, anomaly trail | accept, serve one call, mint | slow or silent clients, an unlocked trail, slow minting | bounded connections and trail, mismatches are logged, every answer has its cause, queries end |
| GitHub minter | `broker/github.go` | none | JWT, HTTP exchange | no HTTP timeout | (a step of the broker) |
| broker session | `cli/cli.go` sessionBrokerSocket, startBrokerd, cmdBrokerd | socket directory per box name, child process, registered cleanup | make, start, poll, mount, stop | stale sockets, runs sharing a name, a signal before the cleanup is registered | no daemon outlives a run that ends in order, no box gets a dead run's socket |
| receipt files, envelope | `cli/cli.go` writeRunReceipt, `ledger/sign.go` | two files per box name | write, sign, write, verify | written in place; concurrent runs, failures, kills | receipt and envelope are of one run |
| workspace seed | `workspace/workspace.go` | bundles in a temp dir, one temporary ref per repository | create, copy, apply | a kill between two git commands, two runs in a repository | the ref is transient, the changes taken are the run's own |
| policy packs, embed | `policy/` | a pack file that may be edited | find, parse, validate, hash | the same file is read twice; an empty list must not mean everything | the receipt names the policy that ran (it need not: section 5); the gateway permits what the pack says |
| backend selection | `backend/` | none | detect, sort, select | | never weaker than what was asked for or is there |
| Apple backend | `box/apple.go` | none | build, check, execute | the order of steps carries the isolation and the guard does not look at it | nothing runs in the box before its firewall |
| fleet | `fleet/` | accepted and rejected receipts | sign, verify, collect, report | what bytes are signed; signatures moved between values and types | what is accepted was signed as such, under a blessed policy |
| IDE, other commands | `ide/`, `cli/cli.go` | none | | each runs one command | not modelled |

How the parts meet. cmdHere calls the seed, the broker session, BuildPlan, the
guard, Execute and Destroy in that order and writes the receipt; its signal
goroutine shares the list of cleanups and the two Onces with it. All runs in
directories with the same base name share three Docker objects, one socket
directory and two receipt files; all runs of a machine share the receipt key.
The box talks to the gateway over the internal network and to the broker over
the mounted socket. In the session library the proxy calls back into the ledger.

## 2. Modules

| module | models | composed with |
|---|---|---|
| `Docker` | the engine's objects under one box name and what the nine commands do to them (external, from how `internal/box` uses it) | extended by `RunLifecycle` |
| `RunLifecycle` | cmdHere from MkdirTemp to exit, any number of runs, signals, `runclave destroy` | `MCRunLifecycle` |
| `RunLifecycleProofs` | theorems about `RunLifecycle` | extends it |
| `BoxPlan` | BuildPlan, the guard, Execute | `MCBoxPlan` |
| `BoxPlanProofs` | theorems about `BoxPlan` | extends it |
| `WriteOnceKey` | abstract: a key that is chosen once and never replaced | implemented by `ReceiptKey` |
| `ReceiptKey` | the key protocol, system call by system call | `MCReceiptKey` |
| `Ledger` | hash, chain, verification as operators | extended by `SessionLedger` |
| `SessionLedger` | Append in four steps per writer, Decide, Finish | `MCSessionLedger` |
| `SessionLedgerProofs` | theorems about `Ledger` and `SessionLedger` | extends them |
| `EgressProxy` | ServeHTTP after the decision, mitmInject, LeafFor, the pipe | `MCEgressProxy` |
| `Broker` | Serve, serveConn, Handle, Query | `MCBroker` |
| `BrokerProofs` | theorems about `Broker` | extends it |
| `HostRuns` | the invocations of `runclave .` on one machine: directory, box name, what each is given | extended by the four below |
| `PackFile` | Find and RawBytes on a file that is edited | `HostSide` |
| `Seed` | CreateSeedArtifacts and its ref | `HostSide` |
| `BrokerSession` | sessionBrokerSocket, startBrokerd, cmdBrokerd up to Serve, the cleanup | `HostSide` |
| `ReceiptFiles` | writeRunReceipt, cmdVerify; extends `ReceiptKey` | `HostSide` |
| `HostSide` | cmdHere as the composition of these parts, with interrupts and kills | `MCReceiptKey` |
| `HostSideProofs` | theorems about `ReceiptKey` (that it implements `WriteOnceKey` included) and `HostSide`, and that the second implements the first | extends both |
| `Allowlist` | from a pack's lists to the proxy's decision and the hosts it injects for | `EgressProofs` |
| `EgressProofs` | theorems about `EgressProxy` and `Allowlist` | extends both |
| `Fleet`, `FleetProofs` | signed bundles and receipts, the collector | |
| `Backends`, `BackendsProofs` | the choice of the driver and the run on the Apple one | |

`Allowlist`, `Fleet` and `Backends` have no run of TLC's. What they claim is of
all names, byte strings and plans, and small instances add little to the proofs;
the first two are operators over sequences, and TLC would have to be given sets
of those.

Definitions starting with the comment "Mutant" are deliberately wrong variants
of the definition below them. They belong to no specification; each is the
bug that the property named in `PROJECT.json` notices.

### RunLifecycle and Docker

`mpc[r]` is where the main goroutine of run r is, `hpc[r]` where its signal
goroutine is. Every statement that changes shared state or calls docker is a
step of its own: MkdirTemp, signal.Notify, each append to `cleanups`, each docker
command, each entry into and exit from a Once, each cleanup, the receipt, the
exit. `teardownBox` is StartTeardown, one Remove per command, EndTeardown, or
SkipTeardown when the Once is used up, which is where the Go closure returns a
nil error. A thread may be in it as main (after a failure or with --rm) or as the
cleanup "box", which is run by either goroutine inside `cleanupOnce`.

A docker command succeeds, is refused because of the state of the objects, or
fails by itself with or without having taken effect (`Faulty`). An object knows
which run created it, because "is it there" and "is it mine" differ once two
runs share a name. `Straggler` is the docker client that outlives `os.Exit`.
Interactive shells differ in what an error of the exec step means (AfterError).
The seed copies and commands between the box's creation and the agent are one
command, "seedBox": all they need is the box.

### BoxPlan

A step is the record of what the guard and the engine read from its command
line: networks, capabilities, what it takes from the host, the proxy command and
its allowlist, and whether its text says `docker.sock` anywhere. Build makes the
plan from a request (broker socket good, bad or absent, login mounts, allowlist
empty or not, and where that text comes from: the task, a login path, the name of
the repository's directory, or nowhere). The guard reads flags after it has taken the
sanctioned mounts away, and looks for the text before: a task that runs in the box
may have it, a login path or a name may not, and such a plan is refused as built. Edit then loses, repeats or moves a step or changes one flag, up to
`MaxEdits` times (a move takes a step anywhere); no edit is the program itself, one or more are the regressions
the guard's own comment says it is for. Verify is VerifyEgressInvariants,
Execute carries the plan out and stops at the first error. `BestEffort` is set
on the readiness probe only and no edit sets it elsewhere. A command that runs
in the box is never one of docker's.

### ReceiptKey and WriteOnceKey

A key is identified with the process that made it, a file is its owner and
whether its bytes are there. Each system call of receiptSigningKey is a step and
may fail, the read of `runclave verify` included: the code drops that error and
calls the signer unknown, so a verdict records whether the key could be read. A process may be killed at any point. `WriteOnceKey` says what callers
rely on: the machine's key is set once and never changes.

### Ledger and SessionLedger

The hash is an injective constructor over predecessor, number and payload.
Append takes no lock, so it is modelled as the reads and writes Go performs:
length and last hash, slice and last hash, store the slice, store the hash.
Slices are values: two appends into the same spare capacity are not
distinguished from two appends into different arrays, the later store wins in
both. `overlap` and `late` are history variables that say whether Append calls
overlapped and whether a decision was made or recorded while Finish ran.

### EgressProxy

A host is a host as the client spells it, which is what the certificate cache is
keyed by. One goroutine per CONNECT; `pc` follows ServeHTTP and mitmInject. Deadlines are
numbers of ticks; a tick takes one from each that runs. RoundTrip includes the
drain of the request body. A pipe is two copying goroutines and two sockets.

### Broker

The listener's backlog, one accept goroutine that may hold one connection while
the semaphore is full, and one goroutine per served connection. Checking the
trail's length, loading it and storing it are separate steps; `lost` counts the
entries that a store of a stale slice drops. A client that says nothing, or that waits
for the answer of a get, may hang up at any time (`HangUp`): the read then ends, or the write
fails with the deadline still ahead. `api` is what became of the call that mints.
Kill is the run ending the daemon.

### The host side

`at[r]` is where a run is in cmdHere, `before[r]` the runs of its box name that
were over when it began. Two runs in one directory share the repository and the
name, two in directories of one base name the name alone. A run ends in order
(`"done"`) or is cut short (`"cut"`). `Interrupt` is a signal at a place where
everything made so far is registered for cleanup. `CutShort` is a kill at any
place, or a signal where something is not: before the handler exists, while
the stash has its ref, and while startBrokerd waits for its daemon. After either a run
takes no further step here, although the main goroutine of the program goes on
until the handler calls `os.Exit`; `RunLifecycle` has that overlap for the Docker objects,
the cleanups and the receipt's text, and the claims of this module except those about a
key speak of runs that were not cut short, or of what they may have left.

`PackFile` has the two reads of cmdHere, `Find` and `RawBytes`, and a file that may change
between them; it is a step of every run's way through and has no property of its own. A failed
second read gives the hash of no bytes. `Seed` identifies a
stash with the run that made it; `git bundle --all` takes whatever the ref
names. `BrokerSession` keeps a socket file apart from the daemon behind it: the
file stays when the daemon dies, the parent polls for the file alone, and the
cleanup removes the directory whoever's socket is in it. `ReceiptFiles` has each
file opened (and truncated) and written in two steps; `flawed` says that since a run
last began to write alone, writers of the name overlapped, failed or were cut
short. In `HostSide` the box is one step that may succeed for two runs of one
name: docker would refuse the second, so the model has more behaviours than the
program.

### Allowlist

A host name is the sequence of its labels, with `Fold` for lower case. An entry is
blank, the bare star, `*.` before a name, or a name. A domain of a pack is a string
and therefore a list of entries with blanks around them: cmdHere joins all of
them with commas and cmdProxy splits the result. A CONNECT without a port is never
injected. `Permits` is the reference
definition, in terms of the pack alone.

### Fleet

A signature exists if the holder of the key made it; this is all that is assumed of
Ed25519. What is signed is modelled by what pae does: type and number of
fields, then every field after its length. `Marshal` is arbitrary, so the theorems
say what is known up to equal JSON. Any existing signature may come with any
receipt, bundles' signatures included.

### Backends

A step is what it does, the words a guard would find in its command line, whether
it runs in the box, and the gateway's allowlist. The words of the last step are
the user's task, so they may be any the guard looks for. Execute may fail at
every step. On Docker the run goes on in `BoxPlan`.

## 3. Runs

| run | instance | shows |
|---|---|---|
| `lifecycle_solo` | one run, all 16 flag combinations, signal, faults, destroy | TeardownCompletes, PersistedReceiptHonest, CleanupsHonoured; under fairness SignalEndsRun, RunEnds |
| `lifecycle_pair` | two runs with or without --rm, one signalled, faults | DestroyedReceiptHonest, CleanTeardownLeavesNothing |
| `lifecycle_dryrun`, `lifecycle_rerun`, `lifecycle_interrupt` | the smallest instance of each | violations, see section 5 |
| `receipt_key` | the host side of three runs on one name, one verifier, one edit of the pack file, faults, interrupts and kills | OneIdentity, NeverPartial, EveryoneSigns, OwnReceiptsRecognised, refinement of WriteOnceKey; StashRefTransient, SeedIsFresh, NoStrayBroker, MountedBrokerIsOwn, ReceiptPairAgrees |
| `session_ledger` | two requests and Finish | SerialLedgerIntact, QuietReceiptAgrees, TamperEvident |
| `session_ledger_race` | the same | violation |
| `egress_proxy` | three CONNECTs, two slots, one pipe | SlotsAreHolders, OneLeafPerHost, PipeStaysWhole; under fairness PipeIsTornDown, SilentClientsDropped |
| `egress_stream` | one injected connection | violation |
| `broker` | three clients, two slots, a trail of one | ConnectionsBounded, TrailBounded, MismatchLoggedBeforeMint, AnswersHaveACause; under fairness QueriesEnd |
| `box_plan` | every request that is `Wanted` and some that are not, up to three edits of the plan | BuiltPlanRuns, BoxHasNoWayOut, OnlyTheProxyLeadsOut |

Bounds and why they are enough. *Runs on one name*: the interesting conflicts
are between the run that created an object and one other; the proofs cover any
number. *Processes racing for the key*: a winner, a loser, and one that arrives
after the link; proved for any number. *Host side*: the parts of a run share no variable
but the place it is at, so `receipt_key` starts in four families of
states: two runs with a pack directory (pack, seed), two with a GitHub App
(broker session), three at their receipts (files, key), and one run with
everything, for the way through. Two runs under way and one edit are
enough for each conflict of those parts: a read, an edit, a read; a ref or a
socket made by one run and met by another. A third run at the receipts leaves a
loser and a latecomer for the key. The proofs have any number of runs,
directories, names and edits. *Requests in the session*: two suffice for
every overlap of Append, since a lost entry needs one writer between another's
read and store. *Connections and slots*: one more connection than slots, so that
shedding, blocking and reuse of a slot happen; both constants stand for 256 and
64. *Ticks*: a deadline of one tick already separates "before" and "after"; two
ticks in `egress_stream`, so that the handshake and the response fall at
different times. *maxAnomalies*: one, so that the trail is full with one client
and overrun with the second; the bound of `TrailBounded` contains `lost` because
without it it fails for a second slot's worth of clients (six clients, three slots, a
cap of two), and it is proved for all numbers. *Edits*: three are enough to repeat a step, change
the copy and move another between them. Of the requests that are refused as built
`FullInit` of MCBoxPlan keeps those with a broker socket and a login path, which have the most to lose in
an edit. *Clients of the broker*: in
`CrowdedInit` of MCBroker one or more say nothing, among others of any kind, because only such a
connection holds its slot to the deadline; or all three claim another repository,
which is what overruns the trail. The initial states `OrderedInit` and `CrowdedInit` of MCBroker and
`OnePipeInit` of MCEgressProxy drop instances that differ by the names of clients or
by pipes that share nothing. `receipt_key` uses symmetry and checks no liveness.

Deadlock is checked in every run: each module has a `Terminated` step for the
states where everybody is done, so any other state without a successor is an
error.

Fairness. Go runs every goroutine that can run, and local system calls and
docker commands return: weak fairness on the program's own steps. Nothing is
assumed about the agent (it may run for ever), about clients and upstream hosts
of the proxy, or about the clients of the broker: their steps have no fairness.
Time passes (weak fairness on Tick). The broker's `QueriesEnd` also assumes that
the GitHub API answers, which the code does not enforce: its HTTP client has no
timeout. Strong fairness on Accept stands for the backlog's order.

## 4. Proofs

| theorem | says |
|---|---|
| `RunLifecycleProofs!TypeCorrect` | `Spec => []TypeOK` |
| `RunLifecycleProofs!DestroyedIsHonest` | `Spec => []DestroyedReceiptHonest` |
| `RunLifecycleProofs!CleanTeardown` | `Spec => CleanTeardownLeavesNothing`, an action property |
| `RunLifecycleProofs!CleanupsAreHonoured` | `Spec => []CleanupsHonoured` |
| `RunLifecycleProofs!PersistedIsHonest`, `TeardownRemovesAll` | `Spec => []PersistedReceiptHonest`, `Spec => []TeardownCompletes` |
| `RunLifecycleProofs!SettledRuns` | `Spec => SettledRunsLeaveDocker`, an action property: a dry run without --rm, or a run that has decided to persist, changes no object of the engine |
| `RunLifecycleProofs!OncesDoNotDeadlock` | `Spec => []OneGoesOn`: main and the handler never wait for each other |
| `SessionLedgerProofs!LedgerTypes`, `SerialLedger`, `QuietReceipt`, `FileTamperEvident` | the four invariants of the session ledger |
| `SessionLedgerProofs!SerialLedgerGrows` | `Spec => LedgerOnlyGrows`, an action property: without overlap the ledger is append-only |
| `BoxPlanProofs!TypeCorrect` | `Spec => []TypeOK` |
| `BoxPlanProofs!NoWayOut`, `ProxyOnly` | `Spec => []BoxHasNoWayOut`, `Spec => []OnlyTheProxyLeadsOut` |
| `BoxPlanProofs!GuardAcceptsTheBuilt` | `Spec => []BuiltPlanRuns`: which built plans are refused, and that every other runs to its end |
| `HostSideProofs!TypeCorrect`, `KeyIsShared`, `KeyIsComplete`, `SignerIsRecognised`, `LosersSign` | the five invariants of the key; `SignerIsRecognised` is of verdicts for which the key could be read |
| `HostSideProofs!Refinement` | `Spec => RefinesWriteOnceKey` |
| `HostSideProofs!HostUsesKeyProtocol` | `HostSpec => Spec`: the whole host side implements `ReceiptKey` |
| `HostSideProofs!HostSignsWithOneKey` | `HostSpec => []OneIdentity`, from the one before |
| `HostSideProofs!StashRefIsTransient`, `SeedStaysFresh`, `NoBrokerLeftBehind`, `MountedBrokerIsTheRuns`, `ReceiptsAgree` | the five invariants of the host side's parts |
| `BrokerProofs!BrokerTypes`, `BrokerConnections`, `BrokerTrail`, `BrokerLogsFirst`, `BrokerAnswers` | the five invariants of the broker |
| `EgressProofs!GatewayTypes`, `GatewaySlots`, `GatewayLeaves`, `GatewayPipes` | the four invariants of the proxy |
| `EgressProofs!GatewayClosesPipes`, `GatewayTimesWaits` | `Spec => []SocketsHaveOwners`, `Spec => []WaitsAreTimed` |
| `EgressProofs!AllowedIsWhatThePackSays`, `EmptyAllowlistDeniesAll`, `EverySpellingIsInjected`, `ValidPackPermits` | the gateway's decision is the pack's, for every pack, name and spelling |
| `EgressProofs!WarningIsExact`, `WarningMissesAList` | when the allow-all warning is right, and that it may be missing otherwise |
| `FleetProofs!BundleBytesTell`, `TypesAreApart`, `LoadedWasSigned` | what is signed has one reading, so what verifies was signed |
| `FleetProofs!AcceptedIsEvidence`, `NothingBlessedNothingAccepted`, `AcceptedStays`, `BackendIsAsSigned` | the collector |
| `BackendsProofs!SelectionNeverDegrades`, `BuiltAppleRuns`, `AgentIsLockedIn` | `Spec => []NeverDegraded`, `[]BuiltPlanAccepted`, `[]AgentLockedIn` |
| `BackendsProofs!GuardMissesTheOrder` | the Apple guard accepts a plan that is not locked down |

They hold for every set of runs, processes, requests, clients or connections, every set of
options and every number of edits, slots and ticks; the only
assumptions are the ASSUMEs of the modules (`Nobody` is no run, `NoKey` no
process, the goroutine of Finish no request, bounds are natural numbers, the option records have their four
Boolean fields, runs in one directory have one box name) and, in the modules
without a run, those a theorem states itself: lower case of lower case is itself;
JSON is a sequence of bytes; equal JSON has equal backends
(`BackendIsAsSigned` only).

*A clean teardown.* Why is nothing left when the three removals report no error?
While run r's teardown is under way without an error so far, the box was gone at
one moment and the gateway at a later one, but another run may have created both
again. What saves the claim is the last command: the engine removes the network
only when no container is attached, so its success implies that box and gateway
are absent *at that moment*. The inductive fact is about the engine: a container
exists only while the network does (`Attached`), and it makes the removal of the
network a proof of emptiness, whoever else is working.

*A receipt that says destroyed.* `DestroyedReceiptHonest` is not inductive: it
does not say how main came to the decision, nor why an object of r cannot appear
afterwards. The strengthening ties the phase of the Once, the next removal and
`terr` to the places main can be in (`TornByMain`, `RemovedSoFar`,
`TeardownInv`): once main has begun the removal it never provisions again, so
what is removed of r stays removed; and it decides "destroyed" only past the end
of the three commands with no error. The condition `by = "main"` is needed: the
run `lifecycle_interrupt` shows the claim false without it.

*Cleanups.* `CleanupsHonoured` speaks of the end of a run, its invariant
(`CleanupInv`) of every place on the way. `MadeSoFar`: what a cleanup undoes is made
before it is registered and never again, so what has been undone stays undone.
`LoopPlace`: the loop, whoever runs it, has undone the cleanups between its place and
the number it began with; if main runs it nothing is registered any more, if the handler
does main may go on appending behind its back, which is why the property
speaks of the cleanups that were there when the loop began. `EndPlace`: only
behind the Once does a run end by itself.

*Alone on a name.* `PersistedReceiptHonest` and `TeardownCompletes` say nothing while
somebody else works on the name, and a step of somebody else could make a run alone
only by undoing that it has begun, which no step does (`AloneBefore`). While a
run is alone the engine is therefore what its own commands have made of it
(`EngineInv`): as long as nobody tears down, main's place tells the objects
(`BuiltSoFar`); once main does, and no docker command has failed by itself, the next
removal tells what is left (`LeftSoFar`), and each removal finds what it requires.
`DecidedSoFar` says which goroutine may have torn down when main decides:
without --rm the handler does not, so a box that is to persist is whole.

*Runs that leave Docker alone.* The dry-run finding of section 5 needs --rm. `SettledRuns` is
the other half: a dry run never comes to Plan.Execute nor past it (`DryPlace`), and the
handler tears down for --rm only, so without it the sentence is true for any signals.

*The two Onces.* That a signal ends a run is a liveness property and stays with TLC. Its
safety half is that nobody waits for somebody who waits: the goroutine that holds a Once
is at work in its function (`HoldersWork`) until it frees it; the box's Once may be asked
for by who holds the cleanups', never the other way round.

*The ledger.* The hash chain is defined by recursion over the payloads, and what is true
of it needs an induction. The library's induction theorems take an operator; the
module proves the form it needs (`Induction`: a set that has 0 and every successor has
all numbers) from the fact that finite sets are well founded under inclusion. From
it: the recursion defines a chain of any length, a rebuilt chain verifies, and two
chains of one length that differ anywhere end in different hashes (`HeadsDiffer`, since the
hash is injective). The invariant of the concurrent part is `Serial`: while calls of
Append have not overlapped at most one writer is inside, and what it has read is what
is there, so its entry continues the chain. `Counted` ties counters and entries
to the requests' places, and `Undisturbed` keeps what Finish has read equal to
what is there as long as `late` is false. That the ledger only grows (`SerialLedgerGrows`) is a
step of the same invariant: every store replaces the whole slice, and what it stores
extends what is there.

*Isolation.* Both properties speak of containers, the guard of steps. The
strengthening (`Isolated`) says where a container comes from: one that is not the
gateway was made by an accepted step and never connected; the gateway was made by
one of the plan's gateway steps; the plan carried out is the plan that was
accepted. That edits keep the plan a sequence of steps is four lemmas on SubSeq
and `\o`. The other direction is two lemmas about the seven steps of the plan BuildPlan makes: it is accepted
if the request is `Wanted` (`BuiltPlanAccepted`) and refused if it is not
(`UnwantedPlanRefused`); and `Progress` says what exists when the
engine comes to each of them, so that Docker refuses none.

*One identity.* The strengthening says that a temporary file at the link step is
complete, that the key file has an owner exactly when it is there, that nobody holds a
key before the end of the protocol, and that whatever is held is the file's owner. The
refinement maps the abstract key to the file's owner; Link establishes it, Load and
Reload obtain it, every other step is a stutter. That losers sign needs one fact more
(`NothingFailed`): without a fault a process comes to the reload only because the key
is there.

*The host side.* A run's place bounds what it can have left: `RunInv` says that runs
that were over when another began stay over, so `before` is a set of runs
that can do nothing more. `SeedInv` says that a ref which is not its maker's to delete
belongs to a run that was cut short, that a run which has named its own stash has
replaced what a run before it left, and that what is in a bundle was the ref then.
`BrokerInv` ties daemon, socket, directory and registered cleanup to the place
of the run, and its mount to the socket's maker. `FileInv` follows the files of
one name through a run that writes alone. `HostSpec => Spec` needs no invariant:
each host step is a key step or changes none of its variables.

*The broker.* `SlotInv`: the served connections are a finite set as large as the
count, so a slot is freed when one leaves it; with at most one connection in the accept
loop this is ConnectionsBounded. The trail: every goroutine between its check and
its append adds at most one entry beyond the cap, which `TrailInv` says of the
set of those goroutines; an append that stores a stale length shortens the trail
by what it adds to `lost`. `AnswerInv` says that behind the check the mismatch is logged and
that a goroutine past the read serves a get
that was sent, that at the write a token was minted, and that a connection that is not closed
has no answer. AnswersHaveACause is then a step for each way of closing: behind the read a get
can end empty only in Mint and Write, so no other goroutine, whatever it does to the trail,
stops one on its way.

*The proxy.* The same counting argument for `SlotsAreHolders`, with `Injecting` (only hosts
with a rule get there); `LeafInv`: who is minting holds the mutex and the cache has
no leaf for its host, so the leaf stored is the first. Two theorems are what
PipeIsTornDown and SilentClientsDropped rest on: a pipe's socket is open exactly as long as the
goroutine that closes it runs, and every wait for a client has a read deadline.

*The allowlist.* Lower(h) = Lower(n) exactly if the names agree label by label
(`LowerIsSame`), likewise for suffixes (`LowerIsBelow`), and the fields of the joined
list are the entries of the domains. The rest is first-order.

*The fleet.* `Field` can be taken apart in one way because the length comes first
(`FieldParses`, from facts on `\o`); so two equal encodings have equal parts, and the
preamble keeps the types apart. The collector's invariant is then the check at the time
of acceptance, and the sets of signed values only grow.

*The Apple backend.* The plan is the builder's while it is executed, so the place of
the next step decides what has run: the firewall is up behind the fourth, the
gateway behind the second.

Every invariant and action property of a passing run is stated by a theorem. Left to TLC
are the liveness properties (SignalEndsRun, RunEnds, PipeIsTornDown,
SilentClientsDropped, QueriesEnd), since TLAPS supports neither fairness nor
ENABLED here, and the counterexamples of section 5. Of the first, third and fourth
the safety half is proved (`OncesDoNotDeadlock`, `GatewayClosesPipes`, `GatewayTimesWaits`).

## 5. What the runs found

Each violation run checks one sentence of the repository against the model.

1. `runclave . --rm --dry-run` issues the three teardown commands
   (`cli.go:1422`): the README says a dry run does not touch Docker.
2. A second `runclave .` on the name of a persisted box fails at `network
   create` and removes the first box (`cli.go:1481`): the comment says the box is
   persistent until `runclave destroy`.
3. An interrupt during an --rm teardown can make the receipt say "destroyed"
   although a removal failed (`cli.go:1416`).
4. Concurrent egress decisions lose ledger entries (`ledger.go:70`).
5. Injected responses that run past 60 s after the handshake are cut
   (`inject.go:50`), which the comment above the loop says is avoided.

Other places where text and code differ, or where a neighbour can be met, seen
while modelling and not given a run:

- Interrupted and refused runs write no receipt (README "Every run writes a
  receipt").
- The broker socket is per box name, not per session. startBrokerd's comment
  (`cli.go:877`) says that it never mounts a dead socket, but the poll takes any file at
  the path (`cli.go:907`): one that a killed run left, or a namesake's.
- The pack is read twice, once to build the box and once to be hashed for the receipt
  (`cli.go:1283`): with `--policies` and an edit in between, the receipt names a policy that
  was not active (README "Every run writes a receipt: which policy was active"). A state of
  `PackFile` with `hashed[r]` and `parsed[r]` apart is one edit away from the start.
- A signal while startBrokerd waits leaves the daemon and its directory, because the
  cleanup is registered after it returns (`cli.go:1374`); the comment at
  `cli.go:1320` and the README's "nothing left behind" say otherwise.
- `--dry-run` with an App makes the socket directory and removes it at the end
  (`cli.go:1371`), with the socket of a namesake that is running.
- A stash ref that a killed or a concurrent run left in the repository is carried by
  the history bundle of the next, `--clean` included (`git bundle --all`).
- The error of the second read of the pack is dropped (`cli.go:1283`): the receipt has
  the hash of no bytes.
- `runclave verify` drops the error of reading the key (`cli.go:739`) and then prints UNKNOWN
  for a receipt that this machine signed.
- The guard looks for `docker.sock` in the whole command of a host step, the mounts it sanctions
  included (`lifecycle.go:472`): with that text in a login path or in the name of the
  repository's directory, the plan BuildPlan makes is refused.
- The allow-all warning compares a domain with `*` (`cli.go:1288`) while the gateway
  splits, trims and lowers: `WarningMissesAList`.
- The list of flags that are warned about when they follow the task (`cli.go:1235`) has no `--rm`.
- The anomaly trail is said to be bounded by maxAnomalies (`broker.go:35`); `TrailBounded`
  states the real bound.
- The Apple guard looks for text: the task's words can satisfy it, an allowlist that
  begins with the pack's is accepted though its message says "exactly"
  (`apple.go:142`), and the order of steps is not looked at
  (`GuardMissesTheOrder`). The builder makes no such plan.

The guard lets the last
gateway step decide whether the gateway runs the proxy (`lifecycle.go:542`): a
plan whose gateway runs something else, with a second gateway step after the
agent, is accepted, and Execute fails at it when the agent has already run.
BuildPlan makes no such plan; `OnlyTheProxyLeadsOut` is stated for plans with one
gateway step, and without that condition TLC finds the plan after three edits.

## 6. What is not modelled

Argument strings, messages, log parsing and file contents; flags and the checks
before MkdirTemp, which change no shared state; cryptography (a key is an
identity, a hash a constructor, a signature an existing pair); the Go memory model below the level of single
loads and stores (a torn slice header); file-system durability (no fsync);
payload bytes of pipes and the rewriting of headers; the YAML and JSON codecs; the
GitHub minter's JWT and HTTP exchange, of which `Broker` keeps that it may take any
time and fail; destroy on the Apple backend, which the code calls unverified, and what
`runclave lockdown` does inside the guest; the commands that only print or run
one docker command.

## 7. Plan

Done, most important first: the run lifecycle with Docker; the receipt key; the
session ledger; the proxy; the broker; the plan and its guard; the host side (pack,
seed, broker session, receipt files) and its implementation of the key protocol;
the allowlist; the fleet; backend selection and the Apple plan; the proofs of section 4.

Next, proofs: what does hold where the runs of section 5 show that a sentence does not,
with the condition that makes it true; done for the ledger and the dry run.

Next, model: `RunLifecycle` and `HostSide` both model cmdHere, one in the depth of
Docker's objects and the two Onces, the other in that of the host's files; a refinement from the first
to the second's box step would join them. The minter's checks of the API's answer.
