# TLA+ model of zk-stf

zk-stf replicates a ledger with Basic HotStuff. Each node agrees on the next
block of a pre-generated workload and validates it either by re-executing its
transactions or by verifying a zero-knowledge proof of them. This directory
models the consensus node (its protocol rules, its pipeline of validation and
execution, how nodes connect, and a cluster of them), the state transition
function, and the life of a workload directory from generator to node.

## The system

| Part | Source (`src/...`) | State | Operations | Model |
|---|---|---|---|---|
| Protocol rules and handlers | `consensus/{mod,rules,handlers,qc}.rs`, `state.rs` | view, `locked_qc`, `prepare_qc`, per-view messages, staged QCs and fire-once flags | `handle_msg` (4 kinds), `handle_timer`, `enter_new_view`, 8 rules run by `try_advance` | `Replica` |
| Validation and execution | `consensus/execute.rs`, `validator.rs` | tree, decided nodes, validation results, pending validation, post-states and roots, live state, chained root | `maybe_kick_validation`, `try_kick_pending_validations`, `try_execute_chain`, `retry_pending_execute`, `ingest_validation` | `Execute` |
| Main loop | `main.rs` | channels for messages, timers and outcomes | start, one turn per event, exit after the last block | `HotStuff` |
| Messages | `messages.rs` | - | kinds of message, node hash, signatures | in `Replica`; signatures abstract |
| Connections | `network.rs`, start of `main.rs` | `peer_writers`, `peer_keys`, two connections per pair of nodes | `listen_task`, `dial_task`, `install_connection`, its reader task, `wait_for_peers` | `Transport`; `broadcast`, `send_to`, `arm_timer` in `Replica` and `HotStuff` |
| Ledger | `crates/ledger-core` | balances | `apply_block`, `compute_state_root`, `hash_transactions` | `Ledger` |
| Workload generator | `zkvm/script/src/bin/network.rs`, `zkvm/program` | seed, ledger, files of each block | writes per block, kill, `--resume-from`; the guest's public values | `WorkloadDir` |
| Workload replay | `node/run-workload` | ledger, files | one block at a time | `WorkloadDir` |
| Workload at a node | `workload.rs` | block directory of each node | `block(h)` | constant `Workload`; `block_at` in `WorkloadDir` |
| One-shot drivers | `zkvm/script/src/bin/{main,vkey}.rs` | - | the ledger operators, once | no |
| Logging, deployment, evaluation | `logging.rs`, `*.sh`, `summarize-sweep.py` | - | output and scripting | no |

Paths without a directory are below `src/node/consensus-node/src/`.

How the parts interact: a generator writes the workload directory, which is
copied to every node and may be checked with `run-workload`. At start-up every
node listens and dials every peer, and enters its event loop when it has a writer
for each. The loop takes one event (a message, a timer, a validation outcome),
runs its handler, and then makes one `try_advance` pass, which evaluates the
eight rules once each in a fixed order and then retries execution and deferred
validations. PREPARE votes wait for the local validation of the proposed block;
PRE-COMMIT and COMMIT votes do not. Every send is a task of its own, so messages
overtake one another even between two nodes.

What is hard here: a COMMIT or DECIDE can overtake the PROPOSAL it belongs to; a
DECIDE can arrive before the block is validated, or after the view was left on a
timeout; validation is one deep and takes its input state when it is submitted;
a leader may have to continue from a QC whose node it has not seen; nodes may
have different workload directories; two nodes that dial each other may each drop
the connection the other keeps; the generator may be killed between any two
writes. `PROJECT.json` lists these hazards at their lines.

## Modules

`Execute` <- `Replica` <- `HotStuff` <- `Evidence` <- `Safety` <- `Pipeline`
(each EXTENDS the one to its left); `PartialSynchrony` also extends `HotStuff`.
`Transport`, `Ledger` and `WorkloadDir` stand alone; `LedgerWorkload` extends the
last two.

* **Execute**: operators on an execution record `ex`, named after the Rust
  functions. A tree node is the sequence of commands from genesis to it
  (`node_hash` is taken to be injective). A ledger state is the sequence of
  blocks applied, and a Merkle root is the state it commits to. The validator's
  channel is `ex.queue`.
* **Replica**: operators on a replica record `r`, one per handler and rule.
  Packets to send are collected in `r.out`. `view_data` is kept as sets over all
  views; a QC keeps its set of signers. `timeout` doubles; the saturation of the
  `u64` is not reached within the bound on views.
* **HotStuff**: `rs` (the replica of each node) and `net` (packets in flight).
  One action per event source: `Start`, `ReceiveProposal`, `ReceivePhaseQc`,
  `ReceiveVote`, `ReceiveNewView`, `ValidationDone`, `NextViewTimer`,
  `StaleTimer`. Each is the handler and the whole `try_advance` pass. A packet
  that is never received models loss; a node that takes no more steps models a
  crash. Nodes do not restart: nothing is persisted.
* **PartialSynchrony**: the same system with timers that mostly expire only when
  nothing else is left to do; `MaxEarly` of them may expire too early.
* **Evidence**, **Safety**, **Pipeline**: the inductive invariants behind locks,
  agreement and execution (see Proofs). `Pipeline` also holds the mapping from
  the cluster to `ReplicatedLog`.
* **ReplicatedLog**: what the cluster promises. There is one log that is only
  added to, and every member's ledger is the result of a prefix of it that only
  grows. The mapping takes the log to be the longest chain anybody has decided
  and a ledger to be `live_state` (re-executing) or `chained_root` (verifying).
* **Transport**: `proc` (each node's process), `end` (how far each end of each
  connection has come in `install_connection`), `writers`, `keys`, and the
  connections the network has broken. `Boot` and `Ready` are `main` up to and
  after `wait_for_peers`; `Connect`, `Accept`, `InsertKey`, `HandshakeFails`,
  `InsertWriter` and `ReaderEnds` are the steps of the connection tasks between
  two awaits, so that the two mutexes are taken one after the other. `Cut` and
  `Exit` are faults. A node has two ends towards each peer: one it dialled, one
  it accepted.
* **Ledger**: `apply_block` on balances of `W` bits (arithmetic wraps, as in a
  release build), `compute_state_root` with its padding, `hash_transactions`,
  the generator's transactions. SHA-256 is taken to be injective. The padding
  leaves are those of absent accounts with balance 0, as the code has it; the doc
  comment at `lib.rs:55` calls them "zero-hash leaves".
* **WorkloadDir**: the generator with one action per file it writes, killed at
  any of them (`Crash`, which may leave the file unreadable) and started again
  with `--resume-from k` for any k whose earlier blocks are all readable; then
  accidents on the way to a node (`Truncate`, `Swap`); then `run-workload`, one
  action per block. The ledger's operators are parameters. The seed's
  pseudo-random numbers are abstracted to a plan: the transactions each block
  gets and the states they lead through.
* **LedgerWorkload**: `WorkloadDir` with `Ledger` as its state transition function.
* **MCHotStuff**, **MCPartialSynchrony**, **MCWorkloadDir**: instances for TLC.
  The second also defines the action constraints used with four nodes; the third
  enumerates the plans of a small workload. `Transport` is checked as it is.
* **HotStuffProofs** <- **EvidenceProofs** <- **OriginProofs** <-
  **PipelineProofs** (which also extends **PipelineLemmas**) <- **SafetyProofs**,
  **TransportProofs**, **WorkloadDirProofs**: theorems and proofs. The first five
  prove the invariants; `SafetyProofs` proves the properties of the cluster from them.

Operators named `X_Something` beside an operator `X` are variants with a
plausible mistake in it. Every property below is violated when one of them
replaces `X`; no specification uses them.

Faults in scope: loss, reordering, timeouts at any moment, a node that stops,
broken connections, unusable block files, different workload directories, a
generator killed at any write, truncated and swapped files. Nodes follow the
code: equivocating or forging nodes are out of scope, so signatures are not
modelled.

## Runs

`tlc -config <name>.cfg <module>`; the sizes are distinct states.

| Run | Instance | Shows | States |
|---|---|---|---|
| `views2` | 2 nodes, one re-executing and one verifying, 3 blocks, 4 views, every interleaving | `TypeOK`, `SingleInFlight`, `StateMatchesLog`, `NoChainBreak`, `PipelineHolds`, `TimerArmed`, `NothingGoesBack` over several views | 223,904 |
| `quorum4` | 4 nodes, 1 block, 1 view, one unusable file, every interleaving | `LockedMeansStored`, `DecidedWasValidated`, `SafeNodeNeverBlocks` with real partial quorums | 251,551 |
| `lag4` | 4 nodes, 2 views, one node at a time arbitrarily late | `StateMatchesLog`, `InputIsParentState`, `ValidatedParentIsEnough`, `DecidedNeverWaits`, `SafeNodeNeverBlocks`, `ReadyLeaderProposes` | 445,919 |
| `odd4` | 4 nodes, node 1 has another second block, 4 views, 2 early timers | `EvidenceHolds`, `OriginsHold`, `LockedMeansStored`, `HighQcCoversLocks`, `Agreement`, `DecidedWasValidated`, `DecidedIsWorkload`, `OneLeafToKick`, `ImplementsLog` | 111,974 |
| `settle4` | 4 nodes, the first leader has stopped, 7 views, 1 early timer | `FirstBlockExecuted`, `DecidedIsExecuted`, `AllBlocksExecuted` | 9,747 |
| `links` | 2 nodes, one of which may exit, 2 broken connections | `KeysBeforeStart`, `WriterIsLive`, `LinkOrCrossed`, `QuietLinksAgree`, `LinksAgree` | 4,452 |
| `workload` | 2 blocks, 3 accounts, 2 runs of the generator, 1 accident | `FinishedReplays`, `AcceptedIsIntact`, `SupplyConserved`, `RootsTellApart` | 403,356 |

Deadlock is not checked: nodes exit after the last block, the bound on views
stops the others, connections settle, and a generated directory is finished.

What the properties say:

* *Locks and agreement.* A lock means n - f stored prepareQCs
  (`LockedMeansStored`); a proposal's highQC is at least as new as every earlier
  lock (`HighQcCoversLocks`), so no replica that still has to vote refuses the
  proposal, not even one whose COMMIT overtook it (`SafeNodeNeverBlocks`; that
  takes a quorum without the replica, so four nodes); decided nodes lie on one chain (`Agreement`) and were
  validated by n - f nodes (`DecidedWasValidated`), in whose workload directories
  they are the first blocks (`DecidedIsWorkload`).
* *Execution.* One validation at a time (`SingleInFlight`), always on the parent's
  state (`InputIsParentState`); what is applied is the decided chain
  (`StateMatchesLog`); no applied block is undone, neither in `live_state` nor in
  `chained_root` (`NothingGoesBack`); the chain check never fails
  (`NoChainBreak`); and the
  whole is a replicated log (`ImplementsLog`).
* *No lost wake-up.* Work is resumed only by the next event, so a pass that leaves
  something undone that could be done may leave it for ever. A node in a view has a
  timer to come (`TimerArmed`); a decided chain is executed as far as it is
  validated, and the next block is under validation unless it was rejected or is
  not the local one (`DecidedNeverWaits`); a re-executing node with nothing under
  validation has no leaf left whose parent is validated (`ValidatedParentIsEnough`). A leader that
  skipped its proposal because the node of its highQC was missing makes it in the
  turn that brings the node (`ReadyLeaderProposes`).
* *Progress.* Every DECIDE a healthy node has seen is executed, also when it
  comes late; a leader that has stopped does not keep the others from executing
  everything, unless a timer expires too early near the end (`last_block` below).
  There the leader stops before its view; one that stops in the middle of it is
  covered for safety only.
* *Connections.* A node that has started knows every key (`KeysBeforeStart`); a
  writer belongs to an installed connection (`WriterIsLive`); after the last fault
  no node keeps writing into a connection the peer has dropped (`LinksAgree`), and
  this is so in every state where the tasks have nothing left to do
  (`QuietLinksAgree`);
  without faults, the only way to lose a peer is two crossed drops
  (`LinkOrCrossed`).
* *Workload.* What the generator finishes replays (`FinishedReplays`), and what
  replays is what an undisturbed generator writes (`AcceptedIsIntact`). Transfers
  conserve the supply (`SupplyConserved`), and roots tell the states of a workload
  apart (`RootsTellApart`).

### Where the code and its documentation disagree

| Run | What TLC finds |
|---|---|
| `idempotent` | `try_advance` is documented as idempotent, but `leader_prepare` is evaluated before `replica_decide` enters the new view. A second pass would propose; the code waits for the next event. |
| `verify_defer` | `maybe_kick_validation` says a leaf waits until its parent is committed or validated. A verifying node has no post-state for a validated parent, so it waits until the parent is *executed*. |
| `last_block` | The README says a failed view is retried from the same block. If a prepareQC was stored, the next leader extends it and proposes the *next* block. At the end of the workload there is none, and the leader proposes nothing. |
| `dial_race` | `network.rs` says each node maintains a writer per peer. When two nodes dial each other at once, each can install one connection and drop the other as a duplicate, a different one on each side. Both connections close, both writers are removed, and `dial_task` has returned. |
| `swapped` | `workload.rs` says the block number is verified at load time to catch files swapped between heights. Only `commit.json` is compared; swapped `transactions.bin` files load. |

Some of them cost more than a delay. In `last_block`, every later highQC is for
the last block and `leader_prepare` returns for a height past the workload, so
the block is never decided. In `verify_defer`, if more than f nodes verify
proofs and a view is lost after its prepareQC is stored, every later leader
extends that QC. Its child needs the votes of nodes that defer it until the
parent is executed, and the parent is executed only when the child is decided.
In `dial_race`, the two nodes either wait for their peers for ever or run without
the messages they send each other.

### Bounds

* `N`: with `N <= 3`, f = 0 and a quorum is everyone. Four nodes are the
  smallest cluster with f = 1, where quorums differ and a node can be missing.
  Connections concern pairs of nodes; only `Ready` counts peers, so `links` uses
  two. The theorems cover every `N`.
* `NumBlocks`: two blocks are needed for chains and deferred validation; three
  in `views2`, where leaders extend undecided nodes repeatedly. Two blocks
  suffice for a resumed generator and for a swap.
* `MaxView`: a node past it takes no more events. Four views contain a lock, a
  lost view, and a leader that must learn of the lock. `settle4` has enough views
  to recover from a stopped leader twice.
* `MaxEarly`: the timers that expire too early.
* `MaxCuts`, `MayExit`: both connections of the pair may break, and one process
  may end.
* `MaxStarts`, `MaxDamage`: a generator killed once and resumed, one accident.
* `W`, `NumAccounts`, `InitialBalance`, `Draws`: three accounts, so that the
  Merkle tree has a padding leaf, with a balance of 3. The amounts drawn are 1,
  within the balance, and 4, above it.
* Action constraints: with four nodes and several views, the full interleaving
  is out of reach. `NobodyIsFree` makes the nodes take what is due in a fixed
  order, with timers at any moment. `OneLags` also leaves one node
  unconstrained, so that its messages and validations come arbitrarily late: the
  last node through both views or, if the leader of view 2 starts so late that
  view 1 is decided without its vote, that leader until it has proposed.
  The runs `lag4` and `odd4` therefore cover a subset of the interleavings; the
  theorems cover all of them.

### Fairness

In `Transport`, `TransportFairness` is weak fairness of each process's start, of
`wait_for_peers`, and of each connection's task: tokio runs every task that can
go on. Faults are not fair. A connection that breaks is noticed by the readers of
both ends, as with a FIN or RST; one that goes silent is not modelled, and the
code has no keepalive that would notice it.

In `PartialSynchrony`, `Fairness` says only that the cluster does not stop while
a message, an outcome or a due timer waits at a running node: each event loop is
a `select!` over channels that keeps running until its exit condition. It is weak
fairness of the whole next-state relation, stated with `CanStep` instead of
ENABLED, which TLC cannot evaluate in reasonable time for these handlers. All
behaviours up to `MaxView` are finite, so nothing stronger is needed. That timers
stop expiring early is the partial-synchrony assumption of HotStuff; the doubled
timeout in `handle_timer` is how the code gets there. A node that is behind times
out before one that is ahead, since its timer was armed earlier and is shorter.

## Proofs

`tlapm <Module>.tla`.

| Theorem | Module | Statement |
|---|---|---|
| `TypeCorrectness` | `HotStuffProofs` | `Spec => []TypeOK` |
| `TimersAreArmed` | `HotStuffProofs` | `Spec => []TimerArmed` |
| `EvidenceIsInvariant` | `EvidenceProofs` | `Spec => [](TypeOK /\ EvidenceHolds)` |
| `LeadersCatchUp` | `EvidenceProofs` | `Spec => ReadyLeaderProposes` (an action property) |
| `OriginsAreKnown` | `OriginProofs` | `Spec => [](TypeOK /\ EvidenceHolds /\ OriginsHold)` |
| `PipelineIsInvariant` | `PipelineProofs` | `Spec => []PipelineHolds` |
| `LocksAreStored` | `SafetyProofs` | `Spec => []LockedMeansStored` |
| `ProposalsCoverLocks` | `SafetyProofs` | `Spec => []HighQcCoversLocks` |
| `DecisionsAgree` | `SafetyProofs` | `Spec => []Agreement` |
| `SafeNodeIsRedundant` | `SafetyProofs` | `Spec => []SafeNodeNeverBlocks` |
| `DecisionsWereValidated` | `SafetyProofs` | `Spec => []DecidedWasValidated` |
| `StatesMatch`, `InputsAreParents`, `OneInFlight`, `ChainsNeverBreak`, `OneLeafAtATime` | `SafetyProofs` | `StateMatchesLog`, `InputIsParentState`, `SingleInFlight`, `NoChainBreak`, `OneLeafToKick` |
| `DecisionsAreWorkload` | `SafetyProofs` | `Spec => []DecidedIsWorkload` |
| `NoDecisionWaits` | `SafetyProofs` | `Spec => []DecidedNeverWaits` |
| `ParentsAreEnough` | `SafetyProofs` | `Spec => []ValidatedParentIsEnough`, if every node re-executes |
| `NothingIsUndone` | `SafetyProofs` | `Spec => NothingGoesBack` (an action property) |
| `ClusterImplementsLog` | `SafetyProofs` | `Spec => ImplementsLog` (refinement of `ReplicatedLog`) |
| `KeysKnown`, `OneWriterPerPeer`, `OnlyCrossingLosesAPeer` | `TransportProofs` | `KeysBeforeStart`, `WriterIsLive`, `LinkOrCrossed` |
| `NoLinkIsHalfOpen` | `TransportProofs` | `TransportSpec => []QuietLinksAgree` |
| `ResumedIsReplayable`, `ReplayIsSound` | `WorkloadDirProofs` | `FinishedReplays`, `AcceptedIsIntact` |
| `MoneyIsConserved` | `WorkloadDirProofs` | `DirSpec => []SupplyConserved`, if the supply fits a balance |
| `RootsAreInjective` | `WorkloadDirProofs` | `DirSpec => []RootsTellApart` |

They hold for every number of nodes, blocks and views, every workload, every set
of crashed, re-executing and corrupt nodes, any number of broken connections,
kills and accidents; the first two of `WorkloadDirProofs` hold for every ledger,
the last two for `Ledger` with any number of accounts and any width. `HotStuffProofs`
holds the lemmas on the types of `Execute`'s and `Replica`'s operators, and
`PipelineLemmas` shows that each operator of `Execute` keeps a node's pipeline in
step.

The assumptions are `SizeAssumption`, `WorkloadAssumption`, `ModeAssumption` and
`ClusterAssumption` (at least one node and one block, a workload of `NumBlocks`
commands at each node, subsets of nodes where subsets are meant),
`TransportAssumption`, `DirAssumption`, `PlanAssumption` (a plan's states follow
from its transactions), `HashAssumption` (hashes tell the transaction lists of
a workload apart), `LedgerAssumption`, `LedgerUsed` and `TxsAssumption` (at least
two accounts, and blocks of transactions that `generate_txs` can draw). TLC
evaluates them in the runs. Two theorems have a hypothesis of their own.
`MoneyIsConserved` needs `SupplyFits`: `apply_block` adds to the receiver's balance
unchecked, and the initial balance is a `u64` from the command line, so the whole
supply must fit a `u64`; the defaults (10,000 accounts of 10,000) do by far.
`ParentsAreEnough` needs `Reexecutes = Replicas`; `verify_defer` shows that it
fails otherwise.

### Locks: `EvidenceHolds`

The repository's argument for HotStuff is "a lock means n - f stored prepareQCs,
and the next leader's n - f NEW-VIEWs contain one of them". Neither sentence is
inductive. A certificate speaks of votes cast earlier by replicas that have since
moved on, and a proposal of NEW-VIEWs collected before some locks were taken.
`EvidenceHolds` says what each piece of evidence guarantees for good:

1. a replica's PRE-COMMIT votes are of views it has reached, none newer than its
   `prepare_qc`;
2. a precommitQC has n - f signers who voted PRE-COMMIT in its view;
3. a NEW-VIEW's QC is at least as new as every PRE-COMMIT vote its sender casts
   up to that view, and the sender has left the view;
4. a proposal's highQC has this property for some n - f replicas.

Each holds of a replica *now* and stays true as replicas advance, because views
and prepareQCs only grow and PRE-COMMIT votes are cast only in the current view
(`Advances`). The proof therefore has two halves: evidence survives a step of
somebody else (lemmas `...Along` over `Advances`), and each handler and rule
produces only sound evidence, one lemma per rule. `LocksAreStored` follows from
1 and 2. `ProposalsCoverLocks` follows from 2, 4 and the intersection of two
quorums (`QuorumsMeet`).

### Agreement: `OriginsHold`

`EvidenceHolds` compares views; agreement is about nodes. `OriginsHold` traces
every vote, certificate, proposal, tree node and decision back to the proposal
its leader stored, of which there is one per view, and to the votes and
validations of n - f replicas. A decided node was voted PRE-COMMIT by n - f
replicas, so the highQC of every later proposal is at least as new, and following
highQCs down from proposal to proposal leads to the decided one: every later
proposal extends it. Hence two decided nodes lie on one chain.

### Execution: `PipelineHolds`

That one validation is in flight, on the right input, with a matching chain of
roots, is not checked at the call sites: `maybe_kick_validation` overwrites
`pending_validation`. It holds because a node validates only blocks of its own
workload directory whose parent it has validated. So at every moment the valid
nodes are the first K of its own workload, at most the (K+1)-th is under
validation or was rejected, a prefix of the K has been executed, and each cached
state or root is that of its node. A DECIDE for a chain that is not the node's
own finds a block that was never validated and is not applied. The proof needs
`OriginsHold` for the trees (every node of a tree was proposed on top of a
validated parent) and for the decisions; `Flow` collects what each handler does
to the execution record, and one lemma per handler shows it.

### Nothing is left undone: `AtRest`

`PipelineHolds` says that what a node has done is right, not that it has done
enough. `retry_pending_execute` and `try_kick_pending_validations` run once, in
this order, at the end of each pass. `Settled` is what one pass through them leaves
behind if the decided nodes lie on one chain: no decided block that could be
applied, and with nothing in flight no leaf that could be submitted. Executing
first is what makes one pass enough: it can only make more leaves submittable, and
submitting makes no block executable. `Settled` alone does not bound where a
decided chain stops: a valid node might be missing from the tree, or its state from
the caches. `Rooted` (what was submitted or accepted is in the tree) together with
`PipelineHolds` and `OriginsHold` excludes that. `TimersAreArmed` has an invariant of
its own inside the turn, `Waits`: the timer of the view is to come, or a DECIDE is
staged and the same pass leaves the view.

`LeadersCatchUp` is about the other rule that may skip, `leader_prepare`. It sets
its fire-once flag only when it stores the proposal (`FlagMeansStored`), and after
it in the pass no rule adds to the tree or to the NEW-VIEWs of the view, so what it
waits for at the end of a turn was there when it ran (`Stays`). A turn that enters
a new view is excepted: there the rule has run before the view began, which is
what `idempotent` shows.

`DecisionsAreWorkload` combines `DecisionsWereValidated` with `PipelineHolds` at
the validating nodes. `ClusterImplementsLog` combines `Agreement` (the longest decided chain only
grows, and every decided node is a prefix of it), `StatesMatch` and
`NothingIsUndone`. By `SyncIsACase`, all of this also holds of the specification
under partial synchrony that `lag4`, `odd4` and `settle4` check.

### Connections and workload

`TransportInv` adds to `WriterIsLive` and `KeysBeforeStart` that a key precedes
its writer (`KeyFirst`) and, as long as nothing fails, why an end was dropped or
closed (`DropsExplained`): a node drops an end only while, or after, its other end
is installed, and closes one only because the peer dropped it. `NoLinkIsHalfOpen`
admits every fault; it needs that an open end belongs to a running process and that
an installed one has met the peer's (`OpenEnds`). `DirInv` says what
the generator holds in memory at each write, what a readable file can hold before
and after an accident, and that what the replay has accepted so far is right.

`MoneyIsConserved` and `RootsAreInjective` are inductions over the transactions of a
block, the accounts and the layers of the Merkle tree. `Ledger` writes them as
recursive functions, and each induction is over the set of numbers for which the
claim holds, so that it is a first-order statement (`Induction`). A transfer
conserves the sum because both balances stay below the supply, which fits the
width. Two equal roots have equal layers all the way down, and the leaves are the
balances. `RootsAreInjective` compares ledgers of one size, as all states of a workload are:
three accounts, and the same three with an empty fourth, have one root.

### Only model-checked

The liveness properties (`FirstBlockExecuted`, `DecidedIsExecuted`,
`AllBlocksExecuted`, `LinksAgree`): liveness under fairness is out of the prover's
reach. `DecidedNeverWaits`, `TimerArmed` and `QuietLinksAgree` are the parts of them
that are invariants, and these are proved. Every other property of a passing run
has a theorem.

## Not modelled

* Restarting a node: nothing is persisted, keys are generated at start-up, and
  `dial_task` of the others does not dial again.
* The writer task's error path (`network.rs:142-149`): a write fails only on a
  connection whose reader ends too, and only the reader removes the writer.
* The ELF of a workload directory as a file of its own: it is written with the
  manifest in one step (`Begin`).
* Signatures, framing, back-off times, argument parsing, throughput accounting:
  no control that a property could be about, or replaced by who signed what.
* The internals of the SP1 prover: external. A stored proof has the public values
  of the guest program on the inputs it was given, or the file is unreadable.
* Inside the cluster, files are usable or not; what a node does with blocks whose
  files were swapped is covered only as far as `block_at` (`swapped`).
* `zkvm/script/src/bin/{main,vkey}.rs` and `build.rs`: they call the operators of
  `Ledger` once, print, and keep no state.
* `logging.rs`, deployment and evaluation scripts: output.
