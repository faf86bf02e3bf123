------------------------------ MODULE Replica ------------------------------
(***************************************************************************)
(* One consensus node between two events: state.rs, consensus/qc.rs,       *)
(* consensus/rules.rs and consensus/handlers.rs.                           *)
(*                                                                         *)
(* As in the code, a handler or rule takes the replica's state and leaves  *)
(* a new one behind; here it is an operator on a replica record `r`.  What *)
(* it sends is collected in r.out, what execute.rs owns is r.ex.           *)
(*                                                                         *)
(* The view_data map is kept as sets over all views: `proposals`,          *)
(* `new_view_msgs`, `votes` hold the messages stored, `staged` the QCs of  *)
(* the three staged_*_qc maps (seen_*_qc is set exactly when one is        *)
(* staged), `voted` and `broadcast` the pairs <<phase, view>> whose        *)
(* fire-once flag is set.  A QC keeps its set of signers; signatures       *)
(* themselves are not modelled, every node signs with its own key and      *)
(* every node has every key when the event loop starts (wait_for_peers).   *)
(***************************************************************************)
EXTENDS Execute

\* Option<QC> = None; its view is below every real view, its node is genesis
NoQC == [msg_type |-> "none", view |-> 0, node |-> GENESIS_HASH, sigs |-> {}]

\* mutants: f + 1 votes, f votes
Quorum_FPlusOne == (N - 1) \div 3 + 1
Quorum_F == (N - 1) \div 3

Quorum == N - ((N - 1) \div 3)                      \* n - f

leader_for(v) == IF v = 0 THEN 0 ELSE (v - 1) % N

NewReplica(i) ==
    [ id |-> i, view |-> 0, locked_qc |-> NoQC, prepare_qc |-> NoQC,
      timeout |-> 1,                                \* in multiples of the base
      proposals |-> {}, new_view_msgs |-> {}, votes |-> {}, staged |-> {},
      voted |-> {}, broadcast |-> {},
      timers |-> {},                                \* views with a timer to come
      ex |-> NewExecution,
      out |-> {} ]

-----------------------------------------------------------------------------
(***************************************************************************)
(* messages.rs and network.rs, as the rules use them                       *)
(***************************************************************************)
Proposal(v, node, justify, s) ==
    [kind |-> "Proposal", view |-> v, node |-> node, justify |-> justify, sender |-> s]
PhaseQc(type, v, justify, s) ==
    [kind |-> "PhaseQc", msg_type |-> type, view |-> v, justify |-> justify, sender |-> s]
Vote(type, v, node, i) ==
    [kind |-> "Vote", msg_type |-> type, view |-> v, node |-> node, voter |-> i]
NewView(v, justify, s) ==
    [kind |-> "NewView", view |-> v, justify |-> justify, sender |-> s]

SendTo(r, to, m) == [r EXCEPT !.out = @ \cup {[to |-> to, msg |-> m]}]

Broadcast(r, m) ==
    [r EXCEPT !.out = @ \cup {[to |-> j, msg |-> m] : j \in Replicas \ {r.id}}]

(***************************************************************************)
(* Types                                                                   *)
(***************************************************************************)
VoteTypes == {"prepare", "pre_commit", "commit"}
Phases == {"proposal", "pre_commit", "commit", "decide"}

QCs == [msg_type : VoteTypes, view : Nat, node : Nodes, sigs : SUBSET Replicas]
OptQCs == QCs \cup {NoQC}

Proposals == [kind : {"Proposal"}, view : Nat, node : Nodes, justify : OptQCs,
              sender : Replicas]
PhaseQcs == [kind : {"PhaseQc"}, msg_type : {"pre_commit", "commit", "decide"},
             view : Nat, justify : QCs, sender : Replicas]
Votes == [kind : {"Vote"}, msg_type : VoteTypes, view : Nat, node : Nodes,
          voter : Replicas]
\* a NEW-VIEW carries no QC from after the view it leaves
NewViewMsgs ==
    {m \in [kind : {"NewView"}, view : Nat, justify : OptQCs, sender : Replicas] :
        m.justify.view <= m.view}
Messages == Proposals \cup PhaseQcs \cup Votes \cup NewViewMsgs
Packets == [to : Replicas, msg : Messages]

ReplicaFields ==
    {"id", "view", "locked_qc", "prepare_qc", "timeout", "proposals", "new_view_msgs",
     "votes", "staged", "voted", "broadcast", "timers", "ex", "out"}

ReplicaOK(r) ==
    /\ DOMAIN r = ReplicaFields
    /\ r.id \in Replicas /\ r.view \in Nat /\ r.timeout \in Nat
    /\ r.locked_qc \in OptQCs
    /\ r.prepare_qc \in OptQCs /\ r.prepare_qc.view <= r.view
    /\ r.proposals \subseteq Proposals /\ r.new_view_msgs \subseteq NewViewMsgs
    /\ r.votes \subseteq Votes /\ r.staged \subseteq QCs
    /\ r.voted \subseteq VoteTypes \X Nat /\ r.broadcast \subseteq Phases \X Nat
    /\ r.timers \subseteq Nat
    /\ ExecutionOK(r.ex)
    /\ r.out \subseteq Packets

-----------------------------------------------------------------------------
(***************************************************************************)
(* state.rs: SafeNode                                                      *)
(***************************************************************************)
\* mutant: a node does not extend itself
extends_from_Strict(node, target, tree) ==
    /\ Len(target) < Len(node)
    /\ target = SubSeq(node, 1, Len(target))
    /\ \A h \in Height(target) + 1 .. Height(node) - 1 : Ancestor(node, h) \in tree

extends_from(node, target, tree) ==
    /\ Len(target) <= Len(node)
    /\ target = SubSeq(node, 1, Len(target))
    /\ \A h \in Height(target) + 1 .. Height(node) - 1 : Ancestor(node, h) \in tree

safe_node(node, qc, locked, tree) ==
    \/ locked = NoQC
    \/ extends_from(node, locked.node, tree)
    \/ qc # NoQC /\ qc.view > locked.view

(***************************************************************************)
(* qc.rs.  A quorum is a majority, so at most one node of a bucket has one *)
(***************************************************************************)
Voters(r, type, v, node) ==
    {m.voter : m \in {x \in r.votes : x.msg_type = type /\ x.view = v /\ x.node = node}}

Certified(r, type, v) ==
    {n \in {m.node : m \in r.votes} : Cardinality(Voters(r, type, v, n)) >= Quorum}

form_qc(r, type, v) ==
    LET n == CHOOSE n \in Certified(r, type, v) : TRUE
    IN  [msg_type |-> type, view |-> v, node |-> n, sigs |-> Voters(r, type, v, n)]

verify_qc(qc) == Cardinality(qc.sigs \cap Replicas) >= Quorum

-----------------------------------------------------------------------------
(***************************************************************************)
(* handlers.rs: enter_new_view                                             *)
(***************************************************************************)
\* mutant: the timer of the new view is not armed
enter_new_view_NoTimer(r, new_view) ==
    LET m == NewView(r.view, r.prepare_qc, r.id)
        to == leader_for(new_view)
        moved == [r EXCEPT !.view = new_view]
    IN  IF to = r.id
        THEN [moved EXCEPT !.new_view_msgs = @ \cup {m}]
        ELSE SendTo(moved, to, m)

enter_new_view(r, new_view) ==
    LET m == NewView(r.view, r.prepare_qc, r.id)
        to == leader_for(new_view)
        moved == [r EXCEPT !.view = new_view, !.timers = @ \cup {new_view}]
    IN  IF to = r.id
        THEN [moved EXCEPT !.new_view_msgs =
                {x \in @ : x.view # m.view \/ x.sender # r.id} \cup {m}]
        ELSE SendTo(moved, to, m)

-----------------------------------------------------------------------------
(***************************************************************************)
(* rules.rs: the eight per-phase rules                                     *)
(***************************************************************************)
Kick(r, leaf) == [r EXCEPT !.ex = MaybeKickValidation(r.id, @, leaf)]

\* the first proposal of a view is kept
StoreProposal(r, p) ==
    IF \E x \in r.proposals : x.view = p.view
    THEN r ELSE [r EXCEPT !.proposals = @ \cup {p}]

Learn(r, node) == [r EXCEPT !.ex.tree = @ \cup {node}]

NewViews(r) == {m \in r.new_view_msgs : m.view = r.view - 1}
Senders(ms) == {m.sender : m \in ms}

HighQc(ms) ==
    LET qcs == {m.justify : m \in ms}
    IN  CHOOSE q \in qcs : \A x \in qcs : x.view <= q.view

\* mutant: a leader that lacks the node of the highQC gives its view up
leader_prepare_GivesUp(r) ==
    LET ms == NewViews(r)
        high == HighQc(ms)
        leaf == Append(high.node, Block(r.id, Len(high.node)))
        p == Proposal(r.view, leaf, high, r.id)
        marked == [r EXCEPT !.broadcast = @ \cup {<< "proposal", r.view >>}]
    IN  IF /\ leader_for(r.view) = r.id
           /\ << "proposal", r.view >> \notin r.broadcast
           /\ Cardinality(Senders(ms)) >= Quorum
           /\ Len(high.node) < NumBlocks
        THEN IF high = NoQC \/ high.node \in r.ex.tree
             THEN Kick(StoreProposal(Broadcast(Learn(marked, leaf), p), p), leaf)
             ELSE marked
        ELSE r

leader_prepare(r) ==
    LET ms == NewViews(r)
        high == HighQc(ms)
        leaf == Append(high.node, Block(r.id, Len(high.node)))
        p == Proposal(r.view, leaf, high, r.id)
        sent == [StoreProposal(Broadcast(Learn(r, leaf), p), p)
                   EXCEPT !.broadcast = @ \cup {<< "proposal", r.view >>}]
    IN  IF /\ leader_for(r.view) = r.id
           /\ << "proposal", r.view >> \notin r.broadcast
           /\ Cardinality(Senders(ms)) >= Quorum
           /\ high = NoQC \/ high.node \in r.ex.tree
           /\ Len(high.node) < NumBlocks             \* workload exhausted
        THEN Kick(sent, leaf)
        ELSE r

\* sign_vote, then self-deliver or send_to the leader; sets the fire-once flag
CastVote(r, type, node) ==
    LET m == Vote(type, r.view, node, r.id)
        marked == [r EXCEPT !.voted = @ \cup {<< type, r.view >>}]
    IN  IF leader_for(r.view) = r.id
        THEN [marked EXCEPT !.votes = @ \cup {m}]
        ELSE SendTo(marked, leader_for(r.view), m)

\* mutant: votes without waiting for validation
replica_prepare_Ungated(r) ==
    LET ps == {x \in r.proposals : x.view = r.view}
    IN  IF ps = {} \/ << "prepare", r.view >> \in r.voted THEN r
        ELSE CastVote(r, "prepare", (CHOOSE x \in ps : TRUE).node)

replica_prepare(r) ==
    LET ps == {x \in r.proposals : x.view = r.view}
        p == CHOOSE x \in ps : TRUE
    IN  IF \/ ps = {}
           \/ << "prepare", r.view >> \in r.voted
           \/ p.node \notin r.ex.valid \cup r.ex.invalid
        THEN r
        ELSE IF p.node \in r.ex.valid /\ safe_node(p.node, p.justify, r.locked_qc, r.ex.tree)
        THEN CastVote(r, "prepare", p.node)
        ELSE [r EXCEPT !.voted = @ \cup {<< "prepare", r.view >>}]

Staged(r, type) == {q \in r.staged : q.msg_type = type /\ q.view = r.view}

Stage(r, qc) ==
    IF \E q \in r.staged : q.msg_type = qc.msg_type /\ q.view = qc.view
    THEN r ELSE [r EXCEPT !.staged = @ \cup {qc}]

\* the shape leader_pre_commit, leader_commit and leader_decide share
LeaderAggregate(r, vote, phase) ==
    IF \/ leader_for(r.view) # r.id
       \/ << phase, r.view >> \in r.broadcast
       \/ Certified(r, vote, r.view) = {}
    THEN r
    ELSE LET qc == form_qc(r, vote, r.view)
             sent == Broadcast(r, PhaseQc(phase, r.view, qc, r.id))
         IN  Stage([sent EXCEPT !.broadcast = @ \cup {<< phase, r.view >>}], qc)

leader_pre_commit(r) == LeaderAggregate(r, "prepare", "pre_commit")
leader_commit(r) == LeaderAggregate(r, "pre_commit", "commit")
leader_decide(r) == LeaderAggregate(r, "commit", "decide")

\* mutant: votes PRE-COMMIT without storing the prepareQC
replica_pre_commit_NotStored(r) ==
    LET qcs == Staged(r, "prepare")
    IN  IF qcs = {} \/ << "pre_commit", r.view >> \in r.voted THEN r
        ELSE CastVote(r, "pre_commit", (CHOOSE q \in qcs : TRUE).node)

replica_pre_commit(r) ==
    LET qcs == Staged(r, "prepare")
        qc == CHOOSE q \in qcs : TRUE
    IN  IF qcs = {} \/ << "pre_commit", r.view >> \in r.voted THEN r
        ELSE CastVote([r EXCEPT !.prepare_qc = qc], "pre_commit", qc.node)

replica_commit(r) ==
    LET qcs == Staged(r, "pre_commit")
        qc == CHOOSE q \in qcs : TRUE
    IN  IF qcs = {} \/ << "commit", r.view >> \in r.voted THEN r
        ELSE CastVote([r EXCEPT !.locked_qc = qc], "commit", qc.node)

Decided(ex, node) == [ex EXCEPT !.decided_nodes = @ \cup {node}]

replica_decide(r) ==
    LET qcs == Staged(r, "commit")
        qc == CHOOSE q \in qcs : TRUE
    IN  IF qcs = {} THEN r
        ELSE enter_new_view(
               [r EXCEPT !.ex = TryExecuteChain(r.id, Decided(@, qc.node), qc.node),
                         !.timeout = 1],
               r.view + 1)

(***************************************************************************)
(* mod.rs: one pass over all the rules, in the order of the code           *)
(***************************************************************************)
ExecutePass(r) ==
    [r EXCEPT !.ex = TryKickPendingValidations(r.id, RetryPendingExecute(r.id, @))]

try_advance(r) ==
    LET r1 == leader_prepare(r)
        r2 == replica_prepare(r1)
        r3 == leader_pre_commit(r2)
        r4 == replica_pre_commit(r3)
        r5 == leader_commit(r4)
        r6 == replica_commit(r5)
        r7 == leader_decide(r6)
        r8 == replica_decide(r7)
    IN  ExecutePass(r8)

-----------------------------------------------------------------------------
(***************************************************************************)
(* handlers.rs: what each event does before try_advance runs               *)
(***************************************************************************)
handle_proposal(r, m) ==
    IF /\ m.sender = leader_for(m.view)
       /\ m.justify = NoQC \/ verify_qc(m.justify)
       /\ Parent(m.node) = m.justify.node
    THEN Kick(StoreProposal(Learn(r, m.node), m), m.node)
    ELSE r

QcTypeOf(phase) ==
    CASE phase = "pre_commit" -> "prepare"
      [] phase = "commit" -> "pre_commit"
      [] phase = "decide" -> "commit"

handle_phase_qc(r, m) ==
    IF \/ m.sender # leader_for(m.view)
       \/ m.justify.msg_type # QcTypeOf(m.msg_type)
       \/ m.justify.view # m.view
       \/ ~verify_qc(m.justify)
       \/ \E q \in r.staged : q.msg_type = m.justify.msg_type /\ q.view = m.view
    THEN r
    ELSE LET staged == Stage(r, m.justify)
         IN  IF m.msg_type = "decide"
             THEN [staged EXCEPT !.ex = Decided(@, m.justify.node)]
             ELSE staged

handle_vote(r, m) ==
    IF \/ leader_for(m.view) # r.id
       \/ \E x \in r.votes :
             x.msg_type = m.msg_type /\ x.view = m.view /\ x.voter = m.voter
    THEN r ELSE [r EXCEPT !.votes = @ \cup {m}]

handle_new_view(r, m) ==
    IF \/ leader_for(m.view + 1) # r.id
       \/ m.justify # NoQC /\ ~verify_qc(m.justify)
       \/ \E x \in r.new_view_msgs : x.view = m.view /\ x.sender = m.sender
    THEN r ELSE [r EXCEPT !.new_view_msgs = @ \cup {m}]

\* mutant: a stale timer moves to the view after its own
handle_timer_Stale(r, v) ==
    enter_new_view([r EXCEPT !.timers = @ \ {v}, !.timeout = 2 * @], v + 1)

\* mutant: any staged QC of the view makes the timer stand down, not only a DECIDE's
handle_timer_AnyQc(r, v) ==
    LET fired == [r EXCEPT !.timers = @ \ {v}]
    IN  IF v # r.view \/ \E q \in r.staged : q.view = r.view
        THEN fired
        ELSE enter_new_view([fired EXCEPT !.timeout = 2 * @], r.view + 1)

handle_timer(r, v) ==
    LET fired == [r EXCEPT !.timers = @ \ {v}]
    IN  IF v # r.view \/ Staged(r, "commit") # {}
        THEN fired
        ELSE enter_new_view([fired EXCEPT !.timeout = 2 * @], r.view + 1)

handle_validation(r) == [r EXCEPT !.ex = IngestValidation(r.id, @)]
=============================================================================
