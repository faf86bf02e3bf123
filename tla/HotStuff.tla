------------------------------ MODULE HotStuff ------------------------------
(***************************************************************************)
(* The cluster: N consensus nodes (main.rs), each a single event loop that *)
(* takes one wire message, timer event or validation outcome, runs its     *)
(* handler and then one try_advance pass before it takes the next.         *)
(*                                                                         *)
(* `net` is the set of messages sent and not yet received.  broadcast and  *)
(* send_to hand every send to a task of its own, so messages overtake each *)
(* other even between two nodes.  A message is received at most once.  A   *)
(* message that is never received, and a node that takes no more steps,    *)
(* model a lost connection and a crash.                                    *)
(***************************************************************************)
EXTENDS Replica

CONSTANTS
    MaxView,      \* bound: a node past this view takes no more events
    Crashed       \* nodes that stop right after start_protocol

ASSUME ClusterAssumption == MaxView \in Nat /\ Crashed \subseteq Replicas

VARIABLES rs,     \* rs[i]: the state of node i
          net     \* packets [to, msg] in flight

vars == << rs, net >>

Flush(r) == [r EXCEPT !.out = {}]

Init ==
    /\ rs = [i \in Replicas |-> NewReplica(i)]
    /\ net = {}

-----------------------------------------------------------------------------
\* the loop condition of main, and the bound
Running(i) ==
    /\ rs[i].view \in 1 .. MaxView
    /\ rs[i].ex.last_executed_height + 1 < NumBlocks
    /\ ~rs[i].ex.panicked
    /\ i \notin Crashed

\* the end of one turn of node i's event loop: try_advance after handler r
Turn(i, r, received) ==
    LET done == try_advance(r)
    IN  /\ rs' = [rs EXCEPT ![i] = Flush(done)]
        /\ net' = (net \ received) \cup done.out

Start(i) ==
    /\ rs[i].view = 0
    /\ Turn(i, enter_new_view(rs[i], 1), {})

ReceiveProposal(i) ==
    /\ Running(i)
    /\ \E p \in net :
          /\ p.to = i /\ p.msg.kind = "Proposal"
          /\ Turn(i, handle_proposal(rs[i], p.msg), {p})

ReceivePhaseQc(i) ==
    /\ Running(i)
    /\ \E p \in net :
          /\ p.to = i /\ p.msg.kind = "PhaseQc"
          /\ Turn(i, handle_phase_qc(rs[i], p.msg), {p})

ReceiveVote(i) ==
    /\ Running(i)
    /\ \E p \in net :
          /\ p.to = i /\ p.msg.kind = "Vote"
          /\ Turn(i, handle_vote(rs[i], p.msg), {p})

ReceiveNewView(i) ==
    /\ Running(i)
    /\ \E p \in net :
          /\ p.to = i /\ p.msg.kind = "NewView"
          /\ Turn(i, handle_new_view(rs[i], p.msg), {p})

ValidationDone(i) ==
    /\ Running(i)
    /\ rs[i].ex.queue # << >>
    /\ Turn(i, handle_validation(rs[i]), {})

\* the NEXTVIEW timer of the current view
NextViewTimer(i) ==
    /\ Running(i)
    /\ rs[i].view \in rs[i].timers
    /\ Turn(i, handle_timer(rs[i], rs[i].view), {})

\* The timer of a view the node has left: the handler drops it, but the
\* try_advance pass still runs.  One that changes nothing else is left out.
StaleTimer(i) ==
    /\ Running(i)
    /\ \E v \in rs[i].timers :
          LET r == handle_timer(rs[i], v)
          IN  /\ v < rs[i].view
              /\ [try_advance(r) EXCEPT !.timers = rs[i].timers] # rs[i]
              /\ Turn(i, r, {})

Receive(i) ==
    ReceiveProposal(i) \/ ReceivePhaseQc(i) \/ ReceiveVote(i) \/ ReceiveNewView(i)

Next ==
    \E i \in Replicas :
        Start(i) \/ Receive(i) \/ ValidationDone(i) \/ NextViewTimer(i) \/ StaleTimer(i)

Spec == Init /\ [][Next]_vars

-----------------------------------------------------------------------------
\* Every field of every node and every message in flight has its type.
TypeOK ==
    /\ DOMAIN rs = Replicas
    /\ \A i \in Replicas : ReplicaOK(rs[i]) /\ rs[i].id = i /\ rs[i].out = {}
    /\ net \subseteq Packets

-----------------------------------------------------------------------------
(***************************************************************************)
(* Safety                                                                  *)
(***************************************************************************)
\* README: "if any correct replica is locked on a prepareQC, then at least
\* n - f replicas have that prepareQC stored locally" (or a later one).
LockedMeansStored ==
    \A i \in Replicas :
        rs[i].locked_qc # NoQC =>
            Cardinality({j \in Replicas :
                rs[j].prepare_qc.view >= rs[i].locked_qc.view}) >= Quorum

\* README: the next leader's n - f NEW-VIEWs "include at least one copy of
\* that prepareQC": leader_prepare never proposes on a highQC older than a
\* lock some node took, or takes later, in an earlier view.
HighQcCoversLocks ==
    \A i, j \in Replicas : \A p \in rs[i].proposals :
        rs[j].locked_qc.view < p.view => rs[j].locked_qc.view <= p.justify.view

\* replica_prepare's consensus gate never turns a leader's proposal down: as long
\* as a node has not settled its PREPARE vote of the view, the proposal it holds
\* passes SafeNode, also when the COMMIT of the view overtook the proposal and
\* replica_commit has already locked the node on it.
SafeNodeNeverBlocks ==
    \A i \in Replicas : \A p \in rs[i].proposals :
        p.view = rs[i].view /\ << "prepare", p.view >> \notin rs[i].voted =>
            safe_node(p.node, p.justify, rs[i].locked_qc, rs[i].ex.tree)

\* Any two nodes decided anywhere (decided_nodes) lie on one chain.
Agreement ==
    \A i, j \in Replicas :
        \A d \in rs[i].ex.decided_nodes : \A e \in rs[j].ex.decided_nodes :
            Len(d) <= Len(e) => d = SubSeq(e, 1, Len(d))

\* Validation gating: a decided node passed validation at n - f nodes, although
\* PRE-COMMIT and COMMIT votes are cast without looking at it.
DecidedWasValidated ==
    \A i \in Replicas : \A d \in rs[i].ex.decided_nodes :
        Cardinality({j \in Replicas : d \in rs[j].ex.valid}) >= Quorum

\* What is decided is the workload: every decided chain is the beginning of the
\* workload directory of n - f nodes, although a leader proposes from its own
\* (leader_prepare) and a decision is executed without comparing it again.
DecidedIsWorkload ==
    \A i \in Replicas : \A d \in rs[i].ex.decided_nodes :
        Cardinality({j \in Replicas : d = SubSeq(Workload[j], 1, Len(d))}) >= Quorum

\* What a node has applied is a decided chain: its ledger state (re-executing)
\* or chained root (verifying) is the one after exactly the decided blocks up
\* to last_executed_height, each once and in order.
StateMatchesLog ==
    \A i \in Replicas :
        LET ex == rs[i].ex
            h == ex.last_executed_height
        IN  h >= 0 =>
              \E d \in ex.decided_nodes :
                 /\ Height(d) >= h
                 /\ Ancestor(d, h) = IF i \in Reexecutes THEN ex.live_state
                                                         ELSE ex.chained_root

\* "each validation must use the parent's post-state as input, not whatever the
\* current live_state happens to be" (maybe_kick_validation).
InputIsParentState ==
    \A i \in Reexecutes : \A k \in DOMAIN rs[i].ex.queue :
        rs[i].ex.queue[k].input = Parent(rs[i].ex.queue[k].node)

\* pending_validation is the "single in-flight validation": the worker never
\* holds a second request, and a pending hash is one the worker will answer.
SingleInFlight ==
    \A i \in Replicas :
        LET ex == rs[i].ex
        IN  /\ Len(ex.queue) <= 1
            /\ ex.pending_validation =
                  IF ex.queue = << >> THEN NoPending ELSE ex.queue[1].node

\* At any time at most one leaf of a node's tree is under validation or could be
\* submitted (maybe_kick_validation), whatever was proposed: so a proposal that
\* arrives during a validation never overwrites pending_validation, and the
\* order in which try_kick_pending_validations walks the tree does not matter.
OneLeafToKick ==
    \A i \in Replicas :
        LET ex == rs[i].ex
        IN  Cardinality({n \in ex.tree : n = ex.pending_validation \/ CanKick(i, ex, n)}) <= 1

\* The verify-mode chain check of try_execute_chain never panics.
NoChainBreak == \A i \in Replicas : ~rs[i].ex.panicked

\* maybe_kick_validation defers a known leaf only "until the parent is either
\* committed or independently validated": when the event loop is at rest with
\* no validation under way, no leaf with a validated parent is left waiting.
ValidatedParentIsEnough ==
    \A i \in Replicas : \A n \in rs[i].ex.tree :
        LET ex == rs[i].ex
        IN  (/\ Running(i)
             /\ ex.pending_validation = NoPending
             /\ Parent(n) \in ex.valid
             /\ Block(i, Height(n)) = n[Len(n)])
            => n \in ex.valid \cup ex.invalid

\* No decision is forgotten: when the event loop is at rest, a decided chain whose
\* blocks are known has been executed as far as it is validated, and the block it
\* stops at is under validation, was rejected, or is not the local one
\* (retry_pending_execute, try_kick_pending_validations).
DecidedNeverWaits ==
    \A i \in Replicas : \A d \in rs[i].ex.decided_nodes :
        LET ex == rs[i].ex
            n == Ancestor(d, ex.last_executed_height + 1)
        IN  ex.last_executed_height < Height(d) /\ ChainKnown(ex, d) =>
              /\ n \notin ex.valid
              /\ \/ n \in ex.invalid \/ n = ex.pending_validation
                 \/ Block(i, Height(n)) # n[Len(n)]

\* A node never waits without a NEXTVIEW timer for the view it is in, although
\* handle_timer drops the one that fires when a DECIDE is staged: the same pass
\* then leaves the view (replica_decide) and arms the next one.
TimerArmed == \A i \in Replicas : rs[i].view > 0 => rs[i].view \in rs[i].timers

\* try_advance is "Idempotent": a second pass right after the first does nothing.
TryAdvanceIdempotent ==
    \A i \in Replicas : Running(i) => try_advance(rs[i]) = rs[i]

\* the blocks a node's ledger state, or chained root, is the result of
LedgerOf(id, ex) ==
    IF id \in Reexecutes THEN ex.live_state
    ELSE IF ex.last_executed_height < 0 THEN << >> ELSE ex.chained_root

\* No step undoes an applied block (of live_state, or of chained_root where the
\* node verifies), loses a lock or a prepareQC for an older one, or returns to an
\* earlier view (try_execute_chain, replica_commit, replica_pre_commit,
\* enter_new_view).
NothingGoesBack ==
    [][\A i \in Replicas :
          LET old == rs[i]
              new == rs'[i]
              before == LedgerOf(i, old.ex)
              after == LedgerOf(i, new.ex)
          IN  /\ old.view <= new.view
              /\ old.locked_qc.view <= new.locked_qc.view
              /\ old.prepare_qc.view <= new.prepare_qc.view
              /\ Len(before) <= Len(after)
              /\ before = SubSeq(after, 1, Len(before))]_vars

\* all that leader_prepare waits for, but for its fire-once flag
MayPropose(r) ==
    LET high == HighQc(NewViews(r))
    IN  /\ leader_for(r.view) = r.id
        /\ Cardinality(Senders(NewViews(r))) >= Quorum
        /\ high = NoQC \/ high.node \in r.ex.tree
        /\ Len(high.node) < NumBlocks

\* "Skip until we have it": a leader that holds n - f NEW-VIEWs before the node of
\* their highQC catches up with it.  Whatever an event brings to a node that stays
\* in its view, the turn does not end with a proposal that could be made and was
\* not (leader_prepare).
ReadyLeaderProposes ==
    [][\A i \in Replicas :
          rs'[i] # rs[i] /\ rs'[i].view = rs[i].view /\ MayPropose(rs'[i]) =>
              \E p \in rs'[i].proposals : p.view = rs'[i].view]_vars
=============================================================================
