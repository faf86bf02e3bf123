------------------------------ MODULE Execute ------------------------------
(***************************************************************************)
(* Validation and execution on one node: consensus/execute.rs, the         *)
(* validator worker (validator.rs) and the part of ReplicaState they use.  *)
(*                                                                         *)
(* Every operator maps an execution record `ex` to the record the Rust     *)
(* function leaves behind.  `id` is the node's my_id.                      *)
(*                                                                         *)
(* Data abstraction.  node_hash is injective and a leaf's height is one    *)
(* more than its parent's, so a tree node is identified with the sequence  *)
(* of commands from genesis to it.  A ledger state is identified with the  *)
(* sequence of blocks applied to the initial state, and a Merkle root with *)
(* the state it commits to.                                                *)
(***************************************************************************)
EXTENDS Integers, Sequences, FiniteSets

CONSTANTS
    N,           \* number of nodes, my_id ranges over 0 .. N-1
    NumBlocks,   \* manifest.num_blocks
    Cmds,        \* block identifiers (tx_hash of commit.json)
    Workload,    \* Workload[i]: node i's local workload directory, in height order
    Reexecutes,  \* nodes whose validator re-executes; the others verify proofs
    Corrupt      \* <<i, h>>: node i's transactions.bin / proof.bin at h is unusable

Replicas == 0 .. N - 1

ASSUME SizeAssumption == N \in Nat \ {0} /\ NumBlocks \in Nat \ {0}

ASSUME WorkloadAssumption ==
    /\ Workload \in [Replicas -> Seq(Cmds)]
    /\ \A i \in Replicas : Len(Workload[i]) = NumBlocks

ASSUME ModeAssumption ==
    Reexecutes \subseteq Replicas /\ Corrupt \subseteq Replicas \X Nat

-----------------------------------------------------------------------------
GENESIS_HASH == << >>                    \* the virtual parent of height 0
Height(n) == Len(n) - 1
Parent(n) == SubSeq(n, 1, Len(n) - 1)
Ancestor(n, h) == SubSeq(n, 1, h + 1)     \* n's ancestor (or n) at height h

Nodes == {n \in Seq(Cmds) : Len(n) \in 1 .. NumBlocks}

NoPending == << >>                       \* pending_validation = None
ZeroRoot == << "zero" >>                 \* chained_root before the first block

Block(id, h) == Workload[id][h + 1]      \* workload.block(h).cmd

\* HashMap::insert and HashMap::remove
Put(f, n, x) == [m \in DOMAIN f \cup {n} |-> IF m = n THEN x ELSE f[m]]
Drop(f, S) == [m \in DOMAIN f \ S |-> f[m]]
EmptyMap == [m \in {} |-> m]

Highest(S) == CHOOSE x \in S : \A y \in S : y <= x

NewExecution ==
    [ tree |-> {}, decided_nodes |-> {},
      valid |-> {}, invalid |-> {},        \* validation_result: true / false
      pending_validation |-> NoPending,
      post_state_by_node |-> EmptyMap,
      pre_root_by_node |-> EmptyMap, post_root_by_node |-> EmptyMap,
      live_state |-> << >>, chained_root |-> ZeroRoot,
      last_executed_height |-> -1,
      queue |-> << >>,                     \* requests the worker has not answered
      panicked |-> FALSE ]

(***************************************************************************)
(* Types                                                                   *)
(***************************************************************************)
ExecutionFields ==
    {"tree", "decided_nodes", "valid", "invalid", "pending_validation",
     "post_state_by_node", "pre_root_by_node", "post_root_by_node", "live_state",
     "chained_root", "last_executed_height", "queue", "panicked"}

Requests == [node : Nodes, input : Seq(Cmds)]
Roots == Seq(Cmds) \cup {ZeroRoot}

\* a HashMap from nodes of the tree to ledger states (or roots)
IsMap(f) == DOMAIN f \subseteq Nodes /\ \A n \in DOMAIN f : f[n] \in Seq(Cmds)

ExecutionOK(ex) ==
    /\ DOMAIN ex = ExecutionFields
    /\ ex.tree \subseteq Nodes /\ ex.decided_nodes \subseteq Nodes
    /\ ex.valid \subseteq Nodes /\ ex.invalid \subseteq Nodes
    /\ ex.pending_validation \in Nodes \cup {NoPending}
    /\ IsMap(ex.post_state_by_node)
    /\ IsMap(ex.pre_root_by_node)
    /\ IsMap(ex.post_root_by_node)
    /\ ex.live_state \in Seq(Cmds) /\ ex.chained_root \in Roots
    /\ ex.last_executed_height \in -1 .. NumBlocks - 1
    /\ ex.queue \in Seq(Requests)
    /\ ex.panicked \in BOOLEAN

-----------------------------------------------------------------------------
(***************************************************************************)
(* maybe_kick_validation                                                   *)
(***************************************************************************)
ParentCommitted(ex, leaf) ==
    IF Parent(leaf) = GENESIS_HASH
    THEN ex.last_executed_height < 0
    ELSE /\ Parent(leaf) \in ex.tree
         /\ Height(leaf) - 1 <= ex.last_executed_height

\* mutant: cached post-states are not used
ParentValidated_Never(ex, leaf) == FALSE

ParentValidated(ex, leaf) ==
    /\ Parent(leaf) # GENESIS_HASH
    /\ Parent(leaf) \in ex.tree
    /\ Parent(leaf) \in DOMAIN ex.post_state_by_node

\* mutant: the block named is not compared with the local one
CanKick_AnyBlock(id, ex, leaf) ==
    /\ leaf \notin ex.valid \cup ex.invalid
    /\ leaf # ex.pending_validation
    /\ leaf \in ex.tree
    /\ ParentCommitted(ex, leaf) \/ ParentValidated(ex, leaf)

\* mutant: the in-flight hash is not consulted
CanKick_NoDedup(id, ex, leaf) ==
    /\ leaf \notin ex.valid \cup ex.invalid
    /\ leaf \in ex.tree
    /\ Block(id, Height(leaf)) = leaf[Len(leaf)]
    /\ ParentCommitted(ex, leaf) \/ ParentValidated(ex, leaf)

CanKick(id, ex, leaf) ==
    /\ leaf \notin ex.valid \cup ex.invalid
    /\ leaf # ex.pending_validation
    /\ leaf \in ex.tree
    /\ Block(id, Height(leaf)) = leaf[Len(leaf)]
    /\ ParentCommitted(ex, leaf) \/ ParentValidated(ex, leaf)

\* mutant: validate against whatever live_state happens to be
InputState_Live(ex, leaf) == ex.live_state

InputState(ex, leaf) ==
    IF ParentCommitted(ex, leaf) THEN ex.live_state
                                 ELSE ex.post_state_by_node[Parent(leaf)]

MaybeKickValidation(id, ex, leaf) ==
    IF CanKick(id, ex, leaf)
    THEN [ex EXCEPT
            !.pending_validation = leaf,
            !.queue = Append(@, [node |-> leaf, input |-> InputState(ex, leaf)])]
    ELSE ex

(***************************************************************************)
(* try_kick_pending_validations walks the tree in arbitrary order and      *)
(* stops at the first request.  OneLeafToKick says that there is never a   *)
(* second leaf it could stop at, so the order does not matter.             *)
(***************************************************************************)
\* mutant: deferred validations are not retried
TryKickPendingValidations_Never(id, ex) == ex

TryKickPendingValidations(id, ex) ==
    LET ready == {n \in ex.tree : CanKick(id, ex, n)}
    IN  IF ex.pending_validation = NoPending /\ ready # {}
        THEN MaybeKickValidation(id, ex, CHOOSE n \in ready : TRUE)
        ELSE ex

-----------------------------------------------------------------------------
(***************************************************************************)
(* try_execute_chain.  The parent walk yields the heights above            *)
(* last_executed_height when every ancestor there is known, and a chain    *)
(* that starts too high (nothing is applied) otherwise.  The loop applies  *)
(* the validated heights in order and stops at the first that is not.      *)
(***************************************************************************)
ChainKnown(ex, d) ==
    \A h \in ex.last_executed_height + 1 .. Height(d) : Ancestor(d, h) \in ex.tree

AppliedTo(ex, d) ==
    Highest({h \in ex.last_executed_height .. Height(d) :
                \A k \in ex.last_executed_height + 1 .. h : Ancestor(d, k) \in ex.valid})

\* mutant: chained_root is not advanced
ChainedBefore_Stuck(ex, d, h) == ex.chained_root

\* chained_root when the loop reaches height h
ChainedBefore(ex, d, h) ==
    LET rooted == {k \in ex.last_executed_height + 1 .. h - 1 :
                      Ancestor(d, k) \in DOMAIN ex.pre_root_by_node
                                         \cap DOMAIN ex.post_root_by_node}
    IN  IF rooted = {} THEN ex.chained_root
                       ELSE ex.post_root_by_node[Ancestor(d, Highest(rooted))]

ChainBreak(ex, d, h) ==
    /\ h > 0
    /\ Ancestor(d, h) \in DOMAIN ex.pre_root_by_node
    /\ ex.pre_root_by_node[Ancestor(d, h)] # ChainedBefore(ex, d, h)

\* mutant: one height too many is marked executed
ApplyChain_OffByOne(ex, d, top) ==
    [ex EXCEPT !.last_executed_height = top + 1]

ApplyChain(ex, d, top) ==
    LET applied == ex.last_executed_height + 1 .. top
        nodes == {Ancestor(d, h) : h \in applied}
        stated == {h \in applied : Ancestor(d, h) \in DOMAIN ex.post_state_by_node}
    IN  [ex EXCEPT
           !.live_state = IF stated = {} THEN @
                          ELSE ex.post_state_by_node[Ancestor(d, Highest(stated))],
           !.post_state_by_node = Drop(@, nodes),
           !.chained_root = ChainedBefore(ex, d, top + 1),
           !.post_root_by_node = Drop(@, nodes \cap DOMAIN ex.pre_root_by_node),
           !.last_executed_height = top,
           !.panicked = @ \/ \E h \in applied : ChainBreak(ex, d, h)]

TryExecuteChain(id, ex, d) ==
    IF ~ChainKnown(ex, d) \/ Height(d) <= ex.last_executed_height
    THEN ex
    ELSE LET top == AppliedTo(ex, d)
             next == Ancestor(d, top + 1)
             done == ApplyChain(ex, d, top)
         IN  IF top < Height(d) /\ next \notin ex.invalid
             THEN MaybeKickValidation(id, done, next)
             ELSE done

(***************************************************************************)
(* retry_pending_execute tries every decided node.  Of two decided nodes   *)
(* on one chain the longer known one applies whatever the shorter one      *)
(* does, so the longest known one stands for the loop.                     *)
(***************************************************************************)
\* mutant: a DECIDE is acted on only when its view ends
RetryPendingExecute_Never(id, ex) == ex

RetryPendingExecute(id, ex) ==
    LET known == {d \in ex.decided_nodes : ChainKnown(ex, d)}
    IN  IF known = {} THEN ex
        ELSE TryExecuteChain(id, ex,
               CHOOSE d \in known : \A e \in known : Len(e) <= Len(d))

-----------------------------------------------------------------------------
(***************************************************************************)
(* run_validation on the oldest request, and ingest_validation of its      *)
(* outcome.  The worker is serial and the outcome is a function of the     *)
(* request, so when the worker computes it does not matter.                *)
(***************************************************************************)
Usable(id, n) == << id, Height(n) >> \notin Corrupt

IngestValidation(id, ex) ==
    LET req == Head(ex.queue)
        n == req.node
        ok == Usable(id, n)
        states == ok /\ id \in Reexecutes
        proofs == ok /\ id \notin Reexecutes
    IN  [ex EXCEPT
           !.queue = Tail(@),
           !.valid = IF ok THEN @ \cup {n} ELSE @,
           !.invalid = IF ok THEN @ ELSE @ \cup {n},
           !.post_state_by_node =
               IF states THEN Put(@, n, Append(req.input, Block(id, Height(n)))) ELSE @,
           !.pre_root_by_node =
               IF proofs THEN Put(@, n, SubSeq(Workload[id], 1, Height(n))) ELSE @,
           !.post_root_by_node =
               IF proofs THEN Put(@, n, SubSeq(Workload[id], 1, Height(n) + 1)) ELSE @,
           !.pending_validation = IF @ = n THEN NoPending ELSE @]
=============================================================================
