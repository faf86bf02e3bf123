---------------------------- MODULE SafetyProofs ----------------------------
(***************************************************************************)
(* What follows from the invariants of the cluster.                        *)
(*                                                                         *)
(* From EvidenceHolds: LockedMeansStored and HighQcCoversLocks.  From      *)
(* OriginsHold with it: Agreement, SafeNodeNeverBlocks and                 *)
(* DecidedWasValidated.  From PipelineHolds with both: a node has one      *)
(* validation under way at a time, the verify-mode chain check never       *)
(* fails, no decision is forgotten, nothing is undone, and the cluster     *)
(* implements ReplicatedLog.                                               *)
(***************************************************************************)
EXTENDS PipelineProofs, PartialSynchrony

\* What the theorems below use of a well-typed replica record.
LEMMA ReplicaTypes ==
    ASSUME NEW r, ReplicaOK(r)
    PROVE  /\ ExecutionOK(r.ex) /\ r.view \in Nat
           /\ r.ex.last_executed_height \in -1 .. NumBlocks - 1
           /\ r.ex.decided_nodes \subseteq Nodes /\ r.ex.queue \in Seq(Requests)
<1>1. ExecutionOK(r.ex) /\ r.view \in Nat
  BY DEF ReplicaOK
<1>. QED  BY <1>1 DEF ExecutionOK

\* Whenever a replica is locked on a certificate (replica_commit), n - f
\* replicas hold a prepareQC of that view or a later one (replica_pre_commit),
\* for every cluster, workload and schedule.
THEOREM LocksAreStored == Spec => []LockedMeansStored
<1>1. TypeOK /\ EvidenceHolds => LockedMeansStored
  <2>. SUFFICES ASSUME TypeOK, EvidenceHolds, NEW i \in Replicas, rs[i].locked_qc # NoQC
                PROVE  Cardinality({j \in Replicas :
                         rs[j].prepare_qc.view >= rs[i].locked_qc.view}) >= Quorum
    BY DEF LockedMeansStored
  <2>. DEFINE L == rs[i].locked_qc
              holders == {j \in Replicas : rs[j].prepare_qc.view >= L.view}
  <2>1. L \in QCs /\ L.view \in Nat /\ L.sigs \subseteq Replicas
    BY DEF TypeOK, ReplicaOK, OptQCs, QCs
  <2>2. Cardinality(L.sigs) >= Quorum /\ \A s \in L.sigs : L.view \in PreCommits(rs[s])
    BY DEF EvidenceHolds, ReplicaBacked, QcBacked
  <2>3. L.sigs \subseteq holders
    <3>. SUFFICES ASSUME NEW s \in L.sigs
                  PROVE  rs[s].prepare_qc.view >= L.view
      BY <2>1
    <3>1. s \in Replicas /\ L.view <= rs[s].prepare_qc.view
      BY <2>1, <2>2 DEF EvidenceHolds, ReplicaBacked
    <3>2. rs[s].prepare_qc.view \in Nat
      BY <3>1, OptQcFields DEF TypeOK, ReplicaOK
    <3>. QED  BY <2>1, <3>1, <3>2
  <2>4. IsFiniteSet(holders)
    BY ReplicasAreN, FS_Subset
  <2>. HIDE DEF holders
  <2>5. Cardinality(L.sigs) <= Cardinality(holders)
    BY <2>3, <2>4, FS_Subset
  <2>6. Cardinality(L.sigs) \in Nat /\ Cardinality(holders) \in Nat
    BY <2>3, <2>4, FS_Subset, FS_CardinalityType
  <2>7. Cardinality(holders) >= Quorum
    BY <2>2, <2>5, <2>6, QuorumIsMajority, SizeAssumption
  <2>. QED  BY <2>7 DEF holders
<1>. QED  BY <1>1, EvidenceIsInvariant, PTL

\* n - f replicas voted PRE-COMMIT for a lock and n - f backed a proposal.
LEMMA HighQcCovers ==
    ASSUME TypeOK, EvidenceHolds
    PROVE  HighQcCoversLocks
<1>. SUFFICES ASSUME NEW i \in Replicas, NEW j \in Replicas,
                     NEW p \in rs[i].proposals, rs[j].locked_qc.view < p.view
              PROVE  rs[j].locked_qc.view <= p.justify.view
  BY DEF HighQcCoversLocks
<1>. DEFINE L == rs[j].locked_qc
<1>1. p \in Proposals /\ p.view \in Nat /\ p.justify.view \in Nat
  <2>1. p \in Proposals
    BY DEF TypeOK, ReplicaOK
  <2>. QED  BY <2>1, OptQcFields DEF Proposals
<1>2. CASE L = NoQC
  BY <1>1, <1>2 DEF NoQC
<1>3. CASE L # NoQC
  <2>1. L.view \in Nat /\ L.sigs \subseteq Replicas
    BY <1>3 DEF TypeOK, ReplicaOK, OptQCs, QCs
  <2>2. Cardinality(L.sigs) >= Quorum /\ \A s \in L.sigs : L.view \in PreCommits(rs[s])
    BY <1>3 DEF EvidenceHolds, ReplicaBacked, QcBacked
  <2>3. PICK Q \in SUBSET Replicas :
           /\ Cardinality(Q) >= Quorum
           /\ \A s \in Q : Covers(p.justify, p.view - 1, rs[s])
    BY DEF EvidenceHolds, ReplicaBacked, ProposalBacked
  <2>4. PICK s \in L.sigs : s \in Q
    BY <2>1, <2>2, <2>3, QuorumsMeet
  <2>5. L.view \in PreCommits(rs[s]) /\ Covers(p.justify, p.view - 1, rs[s])
    BY <2>2, <2>3, <2>4
  <2>6. L.view <= p.view - 1
    BY <1>1, <2>1
  <2>. QED  BY <2>5, <2>6 DEF Covers
<1>. QED  BY <1>2, <1>3

\* The highQC a leader proposes on (leader_prepare) is at least as new as every
\* lock of an earlier view (replica_commit), taken before or after the
\* proposal was made, for every cluster, workload and schedule.
THEOREM ProposalsCoverLocks == Spec => []HighQcCoversLocks
<1>1. TypeOK /\ EvidenceHolds => HighQcCoversLocks
  BY HighQcCovers
<1>. QED  BY <1>1, EvidenceIsInvariant, PTL

-----------------------------------------------------------------------------
\* n lies on the chain from genesis to m.
Extends(m, n) == Len(n) <= Len(m) /\ n = SubSeq(m, 1, Len(n))

\* Extending is a partial order in which the ancestors of a node form a chain.
LEMMA PrefixFacts ==
    ASSUME NEW a \in Nodes, NEW b \in Nodes, NEW c \in Nodes
    PROVE  /\ Extends(a, a)
           /\ Extends(Parent(b), a) => Extends(b, a)
           /\ Extends(c, a) /\ Extends(c, b) /\ Len(a) <= Len(b) => Extends(b, a)
           /\ Extends(c, b) /\ Extends(b, a) => Extends(c, a)
<1>1. a \in Seq(Cmds) /\ b \in Seq(Cmds) /\ c \in Seq(Cmds)
      /\ Len(a) \in Nat /\ Len(b) \in Nat /\ Len(c) \in Nat /\ Len(b) >= 1
  BY SeqLen DEF Nodes
<1>2. Extends(a, a)
  BY <1>1, SeqSub DEF Extends
<1>3. Extends(Parent(b), a) => Extends(b, a)
  BY <1>1, SeqSub DEF Extends, Parent
<1>4. Extends(c, a) /\ Extends(c, b) /\ Len(a) <= Len(b) => Extends(b, a)
  BY <1>1, SeqSub DEF Extends
<1>5. Extends(c, b) /\ Extends(b, a) => Extends(c, a)
  BY <1>1, SeqSub DEF Extends
<1>. QED  BY <1>2, <1>3, <1>4, <1>5

\* One node is proposed in a view, and no proposal is of view 0.
LEMMA UniqueProposal ==
    ASSUME TypeOK, OriginsHold, NEW v \in Nat, NEW n, Proposed(v, n, rs)
    PROVE  /\ v > 0 /\ n \in Nodes
           /\ \A m : Proposed(v, m, rs) => m = n
           /\ \A i \in Replicas : \A p \in rs[i].proposals : p.view = v => p.node = n
<1>. DEFINE l == leader_for(v)
<1>1. l \in Replicas
  BY LeaderIsReplica
<1>2. PICK x \in rs[l].proposals : x.view = v /\ x.node = n
  BY DEF Proposed
<1>3. x \in Proposals /\ ProposalKnown(x, rs) /\ OnePerView(rs[l])
  BY <1>1 DEF TypeOK, ReplicaOK, OriginsHold, ReplicaKnown
<1>4. x.justify.view \in Nat /\ x.justify.view < x.view /\ n \in Nodes
  BY <1>2, <1>3, OptQcFields DEF Proposals, ProposalKnown
<1>5. \A y \in rs[l].proposals : y.view = v => y.node = n
  BY <1>2, <1>3 DEF OnePerView
<1>6. \A m : Proposed(v, m, rs) => m = n
  BY <1>5 DEF Proposed
<1>7. ASSUME NEW i \in Replicas, NEW p \in rs[i].proposals, p.view = v
      PROVE  p.node = n
  <2>1. p \in rs[l].proposals
    BY <1>7 DEF OriginsHold, ReplicaKnown, ProposalKnown
  <2>. QED  BY <1>5, <1>7, <2>1
<1>. QED  BY <1>2, <1>4, <1>6, <1>7

\* A proposal of view v or later extends the node that n - f replicas voted
\* PRE-COMMIT for in view v: by induction on the proposal's view, since its
\* highQC is of view v or later (QuorumsMeet) and certifies its parent.
LEMMA ProposalsExtend ==
    ASSUME TypeOK, EvidenceHolds, OriginsHold,
           NEW v \in Nat, NEW n, Proposed(v, n, rs), PreCommitted(v, rs),
           NEW i \in Replicas, NEW p \in rs[i].proposals, v <= p.view
    PROVE  Extends(p.node, n)
<1>. DEFINE Bad == {w \in Nat : \E j \in Replicas : \E x \in rs[j].proposals :
                       x.view = w /\ v <= w /\ ~Extends(x.node, n)}
<1>. SUFFICES ASSUME Bad # {} PROVE FALSE
  <2>1. p.view \in Nat
    BY DEF TypeOK, ReplicaOK, Proposals
  <2>. QED  BY <2>1
<1>1. PICK w \in Bad : \A u \in Bad : w <= u
  BY LeastNat
<1>1a. PICK j \in Replicas : \E x \in rs[j].proposals :
          x.view = w /\ v <= w /\ ~Extends(x.node, n)
  BY <1>1
<1>2. PICK x \in rs[j].proposals : x.view = w /\ v <= w /\ ~Extends(x.node, n)
  BY <1>1a
<1>3. /\ x \in Proposals /\ w \in Nat /\ x.node \in Nodes /\ x.justify \in OptQCs
      /\ x.justify.view \in Nat
  <2>1. x \in Proposals
    BY DEF TypeOK, ReplicaOK
  <2>. QED  BY <1>1, <2>1, OptQcFields DEF Proposals
<1>4. v > 0 /\ n \in Nodes
  BY UniqueProposal
<1>5. v # w
  BY <1>2, <1>4, UniqueProposal, PrefixFacts
<1>6. v <= x.justify.view
  <2>1. PICK Q \in SUBSET Replicas :
           /\ Cardinality(Q) >= Quorum
           /\ \A s \in Q : Covers(x.justify, x.view - 1, rs[s])
    BY DEF EvidenceHolds, ReplicaBacked, ProposalBacked
  <2>2. PICK V \in SUBSET Replicas :
           Cardinality(V) >= Quorum /\ \A s \in V : v \in PreCommits(rs[s])
    BY DEF PreCommitted
  <2>3. PICK s \in V : s \in Q
    BY <2>1, <2>2, QuorumsMeet
  <2>4. v \in PreCommits(rs[s]) /\ Covers(x.justify, x.view - 1, rs[s])
    BY <2>1, <2>2, <2>3
  <2>5. v <= x.view - 1
    BY <1>2, <1>3, <1>5
  <2>. QED  BY <2>4, <2>5 DEF Covers
<1>7. ProposalKnown(x, rs)
  BY DEF OriginsHold, ReplicaKnown
<1>8. x.justify # NoQC
  BY <1>3, <1>4, <1>6 DEF NoQC
<1>9. Proposed(x.justify.view, x.justify.node, rs)
  BY <1>7, <1>8 DEF ProposalKnown, QcKnown
<1>10. leader_for(x.justify.view) \in Replicas
  BY <1>3, LeaderIsReplica
<1>11. PICK y \in rs[leader_for(x.justify.view)].proposals :
          y.view = x.justify.view /\ y.node = x.justify.node
  BY <1>9 DEF Proposed
<1>12. x.justify.view < w
  BY <1>2, <1>7 DEF ProposalKnown
<1>13. x.justify.view \notin Bad
  BY <1>1, <1>3, <1>12
<1>14. Extends(x.justify.node, n)
  BY <1>3, <1>6, <1>10, <1>11, <1>13
<1>15. Extends(Parent(x.node), n)
  BY <1>7, <1>14 DEF ProposalKnown
<1>. QED  BY <1>2, <1>3, <1>4, <1>15, PrefixFacts

\* Any two nodes decided anywhere lie on one chain, for every cluster, workload
\* and schedule (replica_decide, handle_phase_qc).
THEOREM DecisionsAgree == Spec => []Agreement
<1>1. TypeOK /\ EvidenceHolds /\ OriginsHold => Agreement
  <2>. SUFFICES ASSUME TypeOK, EvidenceHolds, OriginsHold,
                       NEW i \in Replicas, NEW j \in Replicas,
                       NEW d \in rs[i].ex.decided_nodes, NEW e \in rs[j].ex.decided_nodes,
                       Len(d) <= Len(e)
                PROVE  d = SubSeq(e, 1, Len(d))
    BY DEF Agreement
  <2>1. DecisionKnown(d, rs) /\ DecisionKnown(e, rs) /\ d \in Nodes /\ e \in Nodes
    <3>1. ReplicaKnown(rs[i], rs) /\ ReplicaKnown(rs[j], rs)
      BY DEF OriginsHold
    <3>2. DecisionKnown(d, rs) /\ DecisionKnown(e, rs)
      BY <3>1 DEF ReplicaKnown
    <3>3. ReplicaOK(rs[i]) /\ ReplicaOK(rs[j])
      BY DEF TypeOK
    <3>. QED  BY <3>2, <3>3, ReplicaTypes
  <2>2a. PICK a \in Replicas : \E p \in rs[a].proposals :
            p.node = d /\ PreCommitted(p.view, rs)
    BY <2>1 DEF DecisionKnown
  <2>2. PICK p \in rs[a].proposals : p.node = d /\ PreCommitted(p.view, rs)
    BY <2>2a
  <2>3a. PICK b \in Replicas : \E q \in rs[b].proposals :
            q.node = e /\ PreCommitted(q.view, rs)
    BY <2>1 DEF DecisionKnown
  <2>3. PICK q \in rs[b].proposals : q.node = e /\ PreCommitted(q.view, rs)
    BY <2>3a
  <2>4. Proposed(p.view, d, rs) /\ Proposed(q.view, e, rs)
    BY <2>2, <2>3 DEF OriginsHold, ReplicaKnown, ProposalKnown, Proposed
  <2>5. p.view \in Nat /\ q.view \in Nat
    BY DEF TypeOK, ReplicaOK, Proposals
  <2>6. CASE p.view <= q.view
    <3>1. Extends(e, d)
      BY <2>2, <2>3, <2>4, <2>5, <2>6, ProposalsExtend
    <3>. QED  BY <3>1 DEF Extends
  <2>7. CASE q.view <= p.view
    <3>1. Extends(d, e)
      BY <2>2, <2>3, <2>4, <2>5, <2>7, ProposalsExtend
    <3>2. Len(d) \in Nat /\ Len(e) \in Nat /\ d \in Seq(Cmds) /\ e \in Seq(Cmds)
      BY <2>1, SeqLen DEF Nodes
    <3>3. Len(d) = Len(e) /\ e = SubSeq(d, 1, Len(d))
      BY <3>1, <3>2 DEF Extends
    <3>4. d = SubSeq(d, 1, Len(d))
      BY <2>1, PrefixFacts DEF Extends
    <3>. QED  BY <3>3, <3>4
  <2>. QED  BY <2>5, <2>6, <2>7
<1>. QED  BY <1>1, OriginsAreKnown, PTL

\* replica_prepare's safe_node check never turns a proposal of the current view
\* down, for every cluster, workload and schedule; it passes after the PREPARE
\* vote as well, so that part of the property is not used.
THEOREM SafeNodeIsRedundant == Spec => []SafeNodeNeverBlocks
<1>1. TypeOK /\ EvidenceHolds /\ OriginsHold => SafeNodeNeverBlocks
  <2>. SUFFICES ASSUME TypeOK, EvidenceHolds, OriginsHold,
                       NEW i \in Replicas, NEW p \in rs[i].proposals,
                       p.view = rs[i].view, rs[i].locked_qc # NoQC
                PROVE  safe_node(p.node, p.justify, rs[i].locked_qc, rs[i].ex.tree)
    BY DEF SafeNodeNeverBlocks, safe_node
  <2>. DEFINE L == rs[i].locked_qc
  <2>1. /\ p \in Proposals /\ p.view \in Nat /\ p.node \in Nodes /\ p.justify \in OptQCs
        /\ p.justify.view \in Nat
    <3>1. p \in Proposals
      BY DEF TypeOK, ReplicaOK
    <3>. QED  BY <3>1, OptQcFields DEF Proposals
  <2>2. L \in QCs /\ L.view \in Nat /\ L.sigs \subseteq Replicas
    BY DEF TypeOK, ReplicaOK, OptQCs, QCs
  <2>3. PreCommitted(L.view, rs)
    BY <2>2 DEF EvidenceHolds, ReplicaBacked, QcBacked, PreCommitted
  <2>4. Proposed(L.view, L.node, rs) /\ L.view <= p.view
    <3>1. ReplicaKnown(rs[i], rs)
      BY DEF OriginsHold
    <3>2. QcKnown(L, rs) /\ L.view <= p.view
      BY <3>1 DEF ReplicaKnown
    <3>. QED  BY <3>2 DEF QcKnown
  <2>5. L.view > 0 /\ L.node \in Nodes
    BY <2>2, <2>4, UniqueProposal
  <2>6. ProposalKnown(p, rs)
    BY DEF OriginsHold, ReplicaKnown
  <2>7. HighQcCoversLocks
    BY HighQcCovers
  <2>8. Extends(p.node, L.node)
    BY <2>2, <2>3, <2>4, ProposalsExtend
  <2>9. Len(L.node) >= Len(p.node) - 1 => extends_from(p.node, L.node, rs[i].ex.tree)
    <3>1. Len(L.node) \in Nat /\ Len(p.node) \in Nat
      BY <2>1, <2>5, SeqLen DEF Nodes
    <3>. QED  BY <2>8, <3>1 DEF extends_from, Extends, Height
  <2>10. CASE L.view = p.view
    <3>1. p.node = L.node
      BY <2>2, <2>4, <2>10, UniqueProposal
    <3>2. Len(p.node) \in Nat
      BY <2>1, SeqLen DEF Nodes
    <3>. QED  BY <2>9, <3>1, <3>2 DEF safe_node
  <2>11. CASE L.view < p.view /\ L.view = p.justify.view
    <3>1. NoQC.view = 0 /\ L.view # 0
      BY <2>2, <2>5 DEF NoQC
    <3>2. p.justify # NoQC
      BY <2>11, <3>1
    <3>3. Proposed(L.view, p.justify.node, rs)
      BY <2>6, <2>11, <3>2 DEF ProposalKnown, QcKnown
    <3>4. p.justify.node = L.node
      BY <2>2, <2>4, <3>3, UniqueProposal
    <3>5. Parent(p.node) = L.node
      BY <2>6, <3>4 DEF ProposalKnown
    <3>6. Len(L.node) = Len(p.node) - 1
      BY <2>1, <3>5, ParentLength
    <3>7. Len(p.node) \in Nat
      BY <2>1, SeqLen DEF Nodes
    <3>. QED  BY <2>9, <3>6, <3>7 DEF safe_node
  <2>12. CASE L.view < p.view /\ L.view < p.justify.view
    <3>1. NoQC.view = 0
      BY DEF NoQC
    <3>2. p.justify # NoQC
      BY <2>2, <2>12, <3>1
    <3>. QED  BY <2>12, <3>2, <2>1, <2>2 DEF safe_node
  <2>13. L.view < p.view => L.view <= p.justify.view
    BY <2>7 DEF HighQcCoversLocks
  <2>. QED  BY <2>1, <2>2, <2>4, <2>10, <2>11, <2>12, <2>13
<1>. QED  BY <1>1, OriginsAreKnown, PTL

\* A decided node passed validation at n - f nodes (replica_prepare's validation
\* gate), for every cluster, workload and schedule.
THEOREM DecisionsWereValidated == Spec => []DecidedWasValidated
<1>1. TypeOK /\ EvidenceHolds /\ OriginsHold => DecidedWasValidated
  <2>. SUFFICES ASSUME OriginsHold, NEW i \in Replicas, NEW d \in rs[i].ex.decided_nodes
                PROVE  Cardinality({j \in Replicas : d \in rs[j].ex.valid}) >= Quorum
    BY DEF DecidedWasValidated
  <2>. DEFINE V == {j \in Replicas : d \in rs[j].ex.valid}
  <2>1. PICK Q \in SUBSET Replicas :
           Cardinality(Q) >= Quorum /\ \A s \in Q : d \in rs[s].ex.valid
    BY DEF OriginsHold, ReplicaKnown, DecisionKnown, Validated
  <2>2. Q \subseteq V /\ V \subseteq Replicas
    BY <2>1
  <2>. HIDE DEF V
  <2>3. IsFiniteSet(V) /\ IsFiniteSet(Q)
    BY <2>2, ReplicasAreN, FS_Subset
  <2>4. Cardinality(Q) <= Cardinality(V)
    BY <2>2, <2>3, FS_Subset
  <2>5. Cardinality(V) \in Nat /\ Cardinality(Q) \in Nat
    BY <2>3, FS_CardinalityType
  <2>6. Cardinality(V) >= Quorum
    BY <2>1, <2>4, <2>5, QuorumIsMajority
  <2>. QED  BY <2>6 DEF V
<1>. QED  BY <1>1, OriginsAreKnown, PTL

-----------------------------------------------------------------------------
\* Every replica is in step with its workload directory, and what it knows of the
\* decided nodes lies on one chain.
LEMMA KnownGround ==
    ASSUME Known, NEW i \in Replicas
    PROVE  /\ ExecutionOK(rs[i].ex)
           /\ \E K \in 0 .. NumBlocks : Piped(i, rs[i].ex, K)
           /\ \E V : OnOneChain(V) /\ Grounded(rs[i].ex, V)
<1>1. TypeOK /\ EvidenceHolds /\ OriginsHold /\ PipelineHolds
  BY DEF Known
<1>2. Flow(i, rs[i])
  BY <1>1, StartFlow
<1>3. Traced(rs, i, rs[i])
  BY <1>2 DEF Flow
<1>4. \E V : OnOneChain(V) /\ Grounded(rs[i].ex, V)
  BY <1>1, <1>2, <1>3, FlowGround
<1>5. ReplicaOK(rs[i]) /\ \E K \in 0 .. NumBlocks : Piped(i, rs[i].ex, K)
  BY <1>1 DEF TypeOK, PipelineHolds
<1>. QED  BY <1>4, <1>5, ReplicaTypes

\* A node's ledger state, or chained root, is the one after exactly the decided
\* blocks up to last_executed_height (try_execute_chain).
THEOREM StatesMatch == Spec => []StateMatchesLog
<1>1. Known => StateMatchesLog
  <2>. SUFFICES ASSUME Known, NEW i \in Replicas, rs[i].ex.last_executed_height >= 0
                PROVE  \E d \in rs[i].ex.decided_nodes :
                         /\ Height(d) >= rs[i].ex.last_executed_height
                         /\ Ancestor(d, rs[i].ex.last_executed_height) =
                               IF i \in Reexecutes THEN rs[i].ex.live_state
                                                   ELSE rs[i].ex.chained_root
    BY DEF StateMatchesLog
  <2>1. PICK K \in 0 .. NumBlocks : Piped(i, rs[i].ex, K)
    BY DEF Known, PipelineHolds
  <2>2. rs[i].ex.last_executed_height \in Int
    BY OnwardTypes DEF Known, TypeOK
  <2>3. (IF i \in Reexecutes THEN rs[i].ex.live_state ELSE rs[i].ex.chained_root)
          = Own(i, rs[i].ex.last_executed_height + 1)
    <3>1. CASE i \in Reexecutes
      <4>1. StatesOK(i, rs[i].ex, K)
        BY <2>1, <3>1 DEF Piped
      <4>. QED  BY <3>1, <4>1 DEF StatesOK
    <3>2. CASE i \notin Reexecutes
      <4>1. RootsOK(i, rs[i].ex, K)
        BY <2>1, <3>2 DEF Piped
      <4>2. ~(rs[i].ex.last_executed_height < 0)
        BY <2>2
      <4>. QED  BY <3>2, <4>1, <4>2 DEF RootsOK
    <3>. QED  BY <3>1, <3>2
  <2>. QED  BY <2>1, <2>3 DEF Piped
<1>. QED  BY <1>1, KnownIsInvariant, PTL

\* A validation runs on the state its parent left (maybe_kick_validation).
THEOREM InputsAreParents == Spec => []InputIsParentState
<1>1. Known => InputIsParentState
  <2>. SUFFICES ASSUME Known, NEW i \in Reexecutes, NEW k \in DOMAIN rs[i].ex.queue
                PROVE  rs[i].ex.queue[k].input = Parent(rs[i].ex.queue[k].node)
    BY DEF InputIsParentState
  <2>0. i \in Replicas
    BY ModeAssumption
  <2>1. PICK K \in 0 .. NumBlocks : Piped(i, rs[i].ex, K)
    BY <2>0 DEF Known, PipelineHolds
  <2>2. rs[i].ex.queue \in Seq(Requests)
    BY <2>0, ReplicaTypes DEF Known, TypeOK
  <2>3. DOMAIN rs[i].ex.queue = 1 .. Len(rs[i].ex.queue)
    BY <2>2, SeqLen
  <2>4. rs[i].ex.queue # << >>
    BY <2>2, <2>3, SeqEmpty
  <2>5. /\ K < NumBlocks /\ Len(rs[i].ex.queue) = 1
        /\ rs[i].ex.queue[1].node = Own(i, K + 1) /\ rs[i].ex.queue[1].input = Own(i, K)
    <3>1. InFlight(i, rs[i].ex, K)
      BY <2>1 DEF Piped
    <3>. QED  BY <2>4, <3>1 DEF InFlight
  <2>6. k = 1 /\ K \in 0 .. NumBlocks - 1
    BY <2>3, <2>5, SizeAssumption
  <2>. QED  BY <2>0, <2>5, <2>6, OwnParent
<1>. QED  BY <1>1, KnownIsInvariant, PTL

\* pending_validation is the one validation in flight.
THEOREM OneInFlight == Spec => []SingleInFlight
<1>1. Known => SingleInFlight
  <2>. SUFFICES ASSUME Known, NEW i \in Replicas
                PROVE  /\ Len(rs[i].ex.queue) <= 1
                       /\ rs[i].ex.pending_validation =
                             IF rs[i].ex.queue = << >> THEN NoPending
                                                       ELSE rs[i].ex.queue[1].node
    BY DEF SingleInFlight
  <2>1. PICK K \in 0 .. NumBlocks : Piped(i, rs[i].ex, K)
    BY DEF Known, PipelineHolds
  <2>2. rs[i].ex.queue = << >> => Len(rs[i].ex.queue) = 0
    OBVIOUS
  <2>3. InFlight(i, rs[i].ex, K)
    BY <2>1 DEF Piped
  <2>4. CASE rs[i].ex.queue = << >>
    <3>1. rs[i].ex.pending_validation = NoPending
      BY <2>2, <2>3, <2>4 DEF InFlight
    <3>. QED  BY <2>2, <2>4, <3>1
  <2>5. CASE rs[i].ex.queue # << >>
    <3>. DEFINE q == rs[i].ex.queue
    <3>1. Len(q) = 1
      BY <2>3, <2>5 DEF InFlight
    <3>2. rs[i].ex.pending_validation = q[1].node
      BY <2>3, <2>5 DEF InFlight
    <3>. HIDE DEF q
    <3>3. Len(q) <= 1
      BY <3>1
    <3>. QED  BY <2>5, <3>2, <3>3, Zenon DEF q
  <2>. QED  BY <2>4, <2>5
<1>. QED  BY <1>1, KnownIsInvariant, PTL

\* The verify-mode chain check of try_execute_chain never panics.
THEOREM ChainsNeverBreak == Spec => []NoChainBreak
<1>1. Known => NoChainBreak
  BY DEF Known, PipelineHolds, Piped, NoChainBreak
<1>. QED  BY <1>1, KnownIsInvariant, PTL

\* At most one leaf is under validation or could be submitted, so the order in
\* which try_kick_pending_validations walks the tree never matters.
THEOREM OneLeafAtATime == Spec => []OneLeafToKick
<1>1. Known => OneLeafToKick
  <2>. SUFFICES ASSUME Known, NEW i \in Replicas
                PROVE  Cardinality({n \in rs[i].ex.tree : n = rs[i].ex.pending_validation
                                      \/ CanKick(i, rs[i].ex, n)}) <= 1
    BY DEF OneLeafToKick
  <2>. DEFINE ex == rs[i].ex
              S == {n \in ex.tree : n = ex.pending_validation \/ CanKick(i, ex, n)}
  <2>1. PICK K \in 0 .. NumBlocks : Piped(i, ex, K)
    BY KnownGround
  <2>2. ExecutionOK(ex)
    BY KnownGround
  <2>3. PICK V : OnOneChain(V) /\ Grounded(ex, V)
    BY KnownGround
  <2>4. \A n \in Nodes : n # NoPending
    BY DEF Nodes, NoPending
  <2>5. ex.tree \subseteq Nodes
    BY <2>2 DEF ExecutionOK
  <2>. HIDE DEF ex
  <2>6. ASSUME NEW n \in S PROVE n = Own(i, K + 1)
    <3>1. CASE n = ex.pending_validation
      BY <2>1, <2>4, <2>5, <3>1 DEF Piped, InFlight
    <3>2. CASE CanKick(i, ex, n)
      BY <2>1, <2>2, <2>3, <3>2, KickIsNext
    <3>. QED  BY <3>1, <3>2
  <2>7. S \subseteq {Own(i, K + 1)}
    BY <2>6
  <2>. HIDE DEF S
  <2>8. IsFiniteSet({Own(i, K + 1)}) /\ Cardinality({Own(i, K + 1)}) = 1
    BY FS_Singleton
  <2>9. Cardinality(S) <= 1
    BY <2>7, <2>8, FS_Subset
  <2>. QED  BY <2>9 DEF S, ex
<1>. QED  BY <1>1, KnownIsInvariant, PTL

\* What is decided is the workload (leader_prepare, maybe_kick_validation's
\* comparison with the local block, replica_prepare's gate): in every cluster, and
\* with whatever workload directories, a decided chain is the beginning of those of
\* n - f nodes.
THEOREM DecisionsAreWorkload == Spec => []DecidedIsWorkload
<1>1. Known /\ DecidedWasValidated => DecidedIsWorkload
  <2>. SUFFICES ASSUME Known, DecidedWasValidated,
                       NEW i \in Replicas, NEW d \in rs[i].ex.decided_nodes
                PROVE  Cardinality({j \in Replicas : d = SubSeq(Workload[j], 1, Len(d))})
                         >= Quorum
    BY DEF DecidedIsWorkload
  <2>. DEFINE V == {j \in Replicas : d \in rs[j].ex.valid}
              W == {j \in Replicas : d = SubSeq(Workload[j], 1, Len(d))}
  <2>1. ASSUME NEW j \in V PROVE d = Own(j, Len(d))
    <3>1. PICK K \in 0 .. NumBlocks : Piped(j, rs[j].ex, K)
      BY DEF Known, PipelineHolds
    <3>2. 1 .. K \subseteq 0 .. NumBlocks
      BY SizeAssumption
    <3>3. d \in OwnNodes(j, 1 .. K)
      BY <3>1 DEF Piped
    <3>. QED  BY <3>2, <3>3, OwnMember
  <2>2. V \subseteq W /\ W \subseteq Replicas
    BY <2>1 DEF Own
  <2>3. Cardinality(V) >= Quorum
    BY DEF DecidedWasValidated
  <2>. HIDE DEF V, W
  <2>4. IsFiniteSet(W) /\ IsFiniteSet(V) /\ Cardinality(V) <= Cardinality(W)
    BY <2>2, ReplicasAreN, FS_Subset
  <2>5. Cardinality(V) \in Nat /\ Cardinality(W) \in Nat
    BY <2>4, FS_CardinalityType
  <2>6. Cardinality(W) >= Quorum
    BY <2>3, <2>4, <2>5, QuorumIsMajority
  <2>. QED  BY <2>6 DEF W
<1>. QED  BY <1>1, KnownIsInvariant, DecisionsWereValidated, PTL

-----------------------------------------------------------------------------
\* Between turns a node has done what it can do.
AtRest == \A i \in Replicas : Rooted(rs[i].ex) /\ Settled(i, rs[i].ex)

\* Every turn ends at rest, whatever it received.
LEMMA RestIsInvariant == Spec => []AtRest
<1>1. Init => AtRest
  BY DEF Init, NewReplica, NewExecution, AtRest, Rooted, Settled
<1>2. ASSUME Known, AtRest, [Next]_vars
      PROVE  AtRest'
  <2>1. CASE UNCHANGED vars
    BY <1>2, <2>1 DEF vars, AtRest
  <2>2. CASE Next
    <3>1. PICK s \in Replicas : StepOf(s)
      BY <1>2, <2>2, NextFlows DEF Known
    <3>. QED  BY <1>2, <3>1 DEF AtRest, StepOf
  <2>. QED  BY <1>2, <2>1, <2>2
<1>. QED  BY <1>1, <1>2, KnownIsInvariant, PTL DEF Spec

\* No decision is forgotten (retry_pending_execute, try_kick_pending_validations):
\* whatever order proposals, decisions and outcomes come in, a node between two
\* turns has executed every known decided chain as far as it is validated, and
\* waits for the next block only while it is validated, or because it was rejected
\* or is not the local one.
THEOREM NoDecisionWaits == Spec => []DecidedNeverWaits
<1>1. Known /\ AtRest => DecidedNeverWaits
  <2>. SUFFICES ASSUME Known, AtRest, NEW i \in Replicas,
                       NEW d \in rs[i].ex.decided_nodes,
                       rs[i].ex.last_executed_height < Height(d), ChainKnown(rs[i].ex, d),
                       NEW n, n = Ancestor(d, rs[i].ex.last_executed_height + 1)
                PROVE  /\ n \notin rs[i].ex.valid
                       /\ \/ n \in rs[i].ex.invalid \/ n = rs[i].ex.pending_validation
                          \/ Block(i, Height(n)) # n[Len(n)]
    BY DEF DecidedNeverWaits
  <2>1. PICK K \in 0 .. NumBlocks : Piped(i, rs[i].ex, K)
    BY KnownGround
  <2>2. ExecutionOK(rs[i].ex)
    BY KnownGround
  <2>3. PICK V : OnOneChain(V) /\ Grounded(rs[i].ex, V)
    BY KnownGround
  <2>4. Rooted(rs[i].ex) /\ Settled(i, rs[i].ex)
    BY DEF AtRest
  <2>. QED  BY <2>1, <2>2, <2>3, <2>4, SettledNeverWaits
<1>. QED  BY <1>1, KnownIsInvariant, RestIsInvariant, PTL

\* Where every node re-executes, a leaf with a validated parent never waits for
\* the parent's decision (maybe_kick_validation, post_state_by_node).
THEOREM ParentsAreEnough ==
    ASSUME Reexecutes = Replicas
    PROVE  Spec => []ValidatedParentIsEnough
<1>1. Known /\ AtRest => ValidatedParentIsEnough
  <2>. SUFFICES ASSUME Known, AtRest, NEW i \in Replicas, NEW n \in rs[i].ex.tree,
                       rs[i].ex.pending_validation = NoPending,
                       Parent(n) \in rs[i].ex.valid, Block(i, Height(n)) = n[Len(n)]
                PROVE  n \in rs[i].ex.valid \cup rs[i].ex.invalid
    BY DEF ValidatedParentIsEnough
  <2>1. PICK K \in 0 .. NumBlocks : Piped(i, rs[i].ex, K)
    BY DEF Known, PipelineHolds
  <2>2. ExecutionOK(rs[i].ex)
    BY KnownGround
  <2>3. Rooted(rs[i].ex) /\ Settled(i, rs[i].ex)
    BY DEF AtRest
  <2>. QED  BY <2>1, <2>2, <2>3, SettledParentIsEnough
<1>. QED  BY <1>1, KnownIsInvariant, RestIsInvariant, PTL

-----------------------------------------------------------------------------
\* Own prefixes are prefixes of each other.
LEMMA OwnExtends ==
    ASSUME NEW id \in Replicas, NEW h \in -1 .. NumBlocks - 1, NEW g \in -1 .. NumBlocks - 1,
           h <= g
    PROVE  Log!Prefix(Own(id, h + 1), Own(id, g + 1))
<1>. DEFINE j == h + 1
            k == g + 1
<1>1. k \in 0 .. NumBlocks /\ j \in 0 .. k /\ j \in 0 .. NumBlocks /\ j <= k
  BY SizeAssumption
<1>. HIDE DEF j, k
<1>2. SubSeq(Own(id, k), 1, j) = Own(id, j) /\ Len(Own(id, j)) = j /\ Len(Own(id, k)) = k
  BY <1>1, OwnPrefix, OwnFacts
<1>3. Log!Prefix(Own(id, j), Own(id, k))
  BY <1>1, <1>2 DEF Log!Prefix
<1>. QED  BY <1>3 DEF j, k

\* The ledger of a node is that of the blocks it has executed.
LEMMA LedgerIsOwn ==
    ASSUME NEW id \in Replicas, NEW ex, NEW K, Piped(id, ex, K),
           ex.last_executed_height \in -1 .. NumBlocks - 1
    PROVE  LedgerOf(id, ex) = Own(id, ex.last_executed_height + 1)
<1>1. ex.last_executed_height < 0 => ex.last_executed_height + 1 = 0
  BY SizeAssumption
<1>2. Own(id, 0) = << >>
  BY OwnFacts, SizeAssumption
<1>3. CASE id \in Reexecutes
  BY <1>3 DEF LedgerOf, Piped, StatesOK
<1>4. CASE id \notin Reexecutes
  BY <1>1, <1>2, <1>4 DEF LedgerOf, Piped, RootsOK
<1>. QED  BY <1>3, <1>4

\* No step undoes an applied block (of live_state, or of chained_root where the
\* node verifies), loses a lock or a prepareQC for an older one, or returns to an
\* earlier view (try_execute_chain, replica_commit, replica_pre_commit,
\* enter_new_view).
THEOREM NothingIsUndone == Spec => NothingGoesBack
<1>. DEFINE Kept(i, old, new) ==
              /\ old.view <= new.view
              /\ old.locked_qc.view <= new.locked_qc.view
              /\ old.prepare_qc.view <= new.prepare_qc.view
              /\ Len(LedgerOf(i, old.ex)) <= Len(LedgerOf(i, new.ex))
              /\ LedgerOf(i, old.ex) = SubSeq(LedgerOf(i, new.ex), 1, Len(LedgerOf(i, old.ex)))
            A == \A i \in Replicas : Kept(i, rs[i], rs'[i])
<1>1. ASSUME Known, Known', Next
      PROVE  A
  <2>1. PICK s \in Replicas : StepOf(s)
    BY <1>1, NextFlows DEF Known
  <2>2. ASSUME NEW i \in Replicas
        PROVE  /\ rs[i].view <= rs'[i].view
               /\ Onward(rs[i], rs'[i])
    <3>1. CASE i = s
      BY <2>1, <3>1 DEF StepOf
    <3>2. CASE i # s
      <4>1. rs'[i] = rs[i] /\ ReplicaOK(rs[i]) /\ rs[i].view \in Nat
        BY <1>1, <2>1, <3>2, ReplicaTypes DEF StepOf, Known, TypeOK
      <4>. QED  BY <4>1, OnwardTypes DEF Onward
    <3>. QED  BY <3>1, <3>2
  <2>3. ASSUME NEW i \in Replicas
        PROVE  Log!Prefix(LedgerOf(i, rs[i].ex), LedgerOf(i, rs'[i].ex))
    <3>1. PICK K \in 0 .. NumBlocks : Piped(i, rs[i].ex, K)
      BY <1>1 DEF Known, PipelineHolds
    <3>2. PICK L \in 0 .. NumBlocks : Piped(i, rs'[i].ex, L)
      BY <1>1 DEF Known, PipelineHolds
    <3>3. /\ rs[i].ex.last_executed_height \in -1 .. NumBlocks - 1
          /\ rs'[i].ex.last_executed_height \in -1 .. NumBlocks - 1
          /\ rs[i].ex.last_executed_height <= rs'[i].ex.last_executed_height
      BY <1>1, <2>2, ReplicaTypes DEF Known, TypeOK, Onward
    <3>4. /\ LedgerOf(i, rs[i].ex) = Own(i, rs[i].ex.last_executed_height + 1)
          /\ LedgerOf(i, rs'[i].ex) = Own(i, rs'[i].ex.last_executed_height + 1)
      BY <3>1, <3>2, <3>3, LedgerIsOwn
    <3>. QED  BY <3>3, <3>4, OwnExtends
  <2>. QED  BY <2>2, <2>3 DEF Onward, Log!Prefix
<1>2. NothingGoesBack <=> [][A]_vars
  BY DEF NothingGoesBack
<1>. HIDE DEF A
<1>3. Known /\ Known' /\ [Next]_vars => [A]_vars
  BY <1>1
<1>. QED  BY <1>2, <1>3, KnownIsInvariant, PTL DEF Spec

-----------------------------------------------------------------------------
\* What the abstract log is made of: it is a decided chain that extends every
\* other, and every ledger is the result of a prefix of it.
LogFollows ==
    /\ DecidedLog \in Seq(Cmds)
    /\ DecidedLog = << >> \/ DecidedLog \in AllDecided
    /\ \A d \in AllDecided : Log!Prefix(d, DecidedLog)
    /\ \A i \in Replicas :
          /\ LedgerOf(i, rs[i].ex) = Own(i, rs[i].ex.last_executed_height + 1)
          /\ Log!Prefix(LedgerOf(i, rs[i].ex), DecidedLog)

\* When the decided nodes are on one chain, every replica follows the longest of them.
LEMMA LogIsFollowed ==
    ASSUME Known, Agreement
    PROVE  LogFollows
<1>. DEFINE D == AllDecided
            log == DecidedLog
<1>1. D \subseteq Nodes /\ \A d \in D : d \in Seq(Cmds)
  <2>1. ASSUME NEW i \in Replicas  PROVE  rs[i].ex.decided_nodes \subseteq Nodes
    BY <2>1, ReplicaTypes DEF Known, TypeOK
  <2>2. D \subseteq Nodes
    BY <2>1 DEF AllDecided
  <2>. QED  BY <2>2 DEF Nodes
<1>2. \A d, e \in D : Len(d) <= Len(e) => d = SubSeq(e, 1, Len(d))
  BY DEF AllDecided, Agreement
<1>3. CASE D = {}
  <2>1. log = << >>
    BY <1>3 DEF DecidedLog
  <2>2. ASSUME NEW i \in Replicas
        PROVE  LedgerOf(i, rs[i].ex) = Own(i, rs[i].ex.last_executed_height + 1)
               /\ LedgerOf(i, rs[i].ex) = << >>
    <3>1. PICK K \in 0 .. NumBlocks : Piped(i, rs[i].ex, K)
      BY DEF Known, PipelineHolds
    <3>2. rs[i].ex.last_executed_height \in -1 .. NumBlocks - 1
      BY ReplicaTypes DEF Known, TypeOK
    <3>3. rs[i].ex.decided_nodes = {}
      BY <1>3 DEF AllDecided
    <3>4. rs[i].ex.last_executed_height + 1 = 0
      BY <3>1, <3>2, <3>3, SizeAssumption DEF Piped
    <3>5. LedgerOf(i, rs[i].ex) = Own(i, rs[i].ex.last_executed_height + 1)
      BY <3>1, <3>2, LedgerIsOwn
    <3>6. Own(i, 0) = << >>
      BY OwnFacts, SizeAssumption
    <3>. QED  BY <3>4, <3>5, <3>6
  <2>3. Log!Prefix(<< >>, << >>) /\ << >> \in Seq(Cmds)
    <3>1. << >> \in Seq(Cmds) /\ Len(<< >>) = 0
      BY SeqEmpty
    <3>2. SubSeq(<< >>, 1, 0) = << >>
      OBVIOUS
    <3>. QED  BY <3>1, <3>2 DEF Log!Prefix
  <2>. QED  BY <1>3, <2>1, <2>2, <2>3 DEF LogFollows
<1>4. CASE D # {}
  <2>1. log \in D /\ \A e \in D : Len(e) <= Len(log)
    BY <1>1, <1>4, LongestNode DEF DecidedLog
  <2>2. \A d \in D : Log!Prefix(d, log)
    BY <1>2, <2>1 DEF Log!Prefix
  <2>. HIDE DEF D, log
  <2>3. ASSUME NEW i \in Replicas
        PROVE  LedgerOf(i, rs[i].ex) = Own(i, rs[i].ex.last_executed_height + 1)
               /\ Log!Prefix(LedgerOf(i, rs[i].ex), log)
    <3>. DEFINE h == rs[i].ex.last_executed_height
                k == h + 1
    <3>1. PICK K \in 0 .. NumBlocks : Piped(i, rs[i].ex, K)
      BY DEF Known, PipelineHolds
    <3>2. h \in -1 .. NumBlocks - 1
      BY ReplicaTypes DEF Known, TypeOK
    <3>3. LedgerOf(i, rs[i].ex) = Own(i, k)
      BY <3>1, <3>2, LedgerIsOwn
    <3>4. k \in 0 .. NumBlocks /\ Len(Own(i, k)) = k
      BY <3>2, SizeAssumption, OwnFacts
    <3>5. log \in Seq(Cmds) /\ Len(log) \in Nat
      BY <1>1, <2>1, SeqLen
    <3>6. CASE k = 0
      <4>1. Own(i, k) = << >>
        BY <3>4, <3>6, OwnFacts
      <4>2. SubSeq(log, 1, 0) = << >>
        BY <3>5
      <4>3. Log!Prefix(<< >>, log)
        BY <3>5, <4>2 DEF Log!Prefix
      <4>. QED  BY <3>3, <4>1, <4>3
    <3>7. CASE k # 0
      <4>1. h >= 0
        BY <3>2, <3>7, SizeAssumption
      <4>2. PICK d \in rs[i].ex.decided_nodes : Height(d) >= h /\ Ancestor(d, h) = Own(i, k)
        <5>1. ExecutionOK(rs[i].ex)
          BY KnownGround
        <5>. QED  BY <3>1, <4>1, <5>1, PipedNodes
      <4>3. d \in D /\ d \in Seq(Cmds)
        BY <1>1 DEF D, AllDecided
      <4>4. Len(d) \in Nat /\ k <= Len(d) /\ SubSeq(d, 1, k) = Own(i, k)
        BY <3>2, <4>2, <4>3, SeqLen, SizeAssumption DEF Height, Ancestor
      <4>5. Len(d) <= Len(log) /\ d = SubSeq(log, 1, Len(d))
        BY <2>2, <4>3 DEF Log!Prefix
      <4>. HIDE DEF k
      <4>6. Len(d) \in 0 .. Len(log) /\ k \in 0 .. Len(d)
        BY <3>4, <3>5, <4>4, <4>5
      <4>7. SubSeq(SubSeq(log, 1, Len(d)), 1, k) = SubSeq(log, 1, k)
        BY <3>5, <4>6, SubSeqOfPrefix
      <4>8. Own(i, k) = SubSeq(log, 1, k) /\ k <= Len(log)
        BY <3>5, <4>4, <4>5, <4>6, <4>7
      <4>9. Log!Prefix(Own(i, k), log)
        BY <3>4, <4>8 DEF Log!Prefix
      <4>. QED  BY <3>3, <4>9 DEF k
    <3>. QED  BY <3>6, <3>7
  <2>. QED  BY <1>1, <2>1, <2>2, <2>3 DEF LogFollows, D, log
<1>. QED  BY <1>3, <1>4

\* The cluster implements one log that is only added to, and every node's ledger
\* is the result of a prefix of it that only grows (replica_decide,
\* try_execute_chain), for every cluster, workload, validator mode and schedule.
THEOREM ClusterImplementsLog == Spec => ImplementsLog
<1>1. Init => Log!LogInit
  <2>. SUFFICES ASSUME Init PROVE Log!LogInit
    OBVIOUS
  <2>1. \A i \in Replicas : rs[i].ex = NewExecution
    BY DEF Init, NewReplica
  <2>2. \A i \in Replicas :
           rs[i].ex.decided_nodes = {} /\ LedgerOf(i, rs[i].ex) = << >>
    BY <2>1 DEF NewExecution, LedgerOf
  <2>3. DecidedLog = << >>
    BY <2>2 DEF DecidedLog, AllDecided
  <2>. QED  BY <2>2, <2>3 DEF Log!LogInit, Ledgers
<1>2. Known /\ Agreement => LogFollows
  BY LogIsFollowed
<1>3. ASSUME Known, Known', LogFollows, LogFollows', Next
      PROVE  Log!LogNext
  <2>1. PICK i \in Replicas : StepOf(i)
    BY <1>3, NextFlows DEF Known
  <2>2. \A j \in Replicas : j # i => rs'[j] = rs[j]
    BY <2>1 DEF StepOf
  <2>3. AllDecided \subseteq AllDecided'
    BY <2>1, <2>2 DEF AllDecided, StepOf, Onward
  <2>4. DecidedLog' \in Seq(Cmds) /\ Log!Prefix(DecidedLog, DecidedLog')
    <3>1. DecidedLog' \in Seq(Cmds)
      BY <1>3 DEF LogFollows
    <3>2. CASE DecidedLog = << >>
      <4>1. SubSeq(DecidedLog', 1, 0) = << >> /\ Len(DecidedLog') \in Nat
        BY <3>1, SeqLen
      <4>. QED  BY <3>1, <3>2, <4>1 DEF Log!Prefix
    <3>3. CASE DecidedLog \in AllDecided
      BY <1>3, <2>3, <3>3 DEF LogFollows, Log!Prefix
    <3>. QED  BY <1>3, <3>1, <3>2, <3>3 DEF LogFollows
  <2>5. \A j \in Replicas :
           Ledgers[j] = LedgerOf(j, rs[j].ex) /\ Ledgers'[j] = LedgerOf(j, rs'[j].ex)
    BY DEF Ledgers
  <2>6. Log!Prefix(Ledgers'[i], DecidedLog')
    BY <1>3, <2>5 DEF LogFollows, Log!Prefix
  <2>7. Log!Prefix(Ledgers[i], Ledgers'[i])
    <3>1. /\ rs[i].ex.last_executed_height \in -1 .. NumBlocks - 1
          /\ rs'[i].ex.last_executed_height \in -1 .. NumBlocks - 1
          /\ rs[i].ex.last_executed_height <= rs'[i].ex.last_executed_height
      BY <1>3, <2>1, ReplicaTypes DEF Known, TypeOK, StepOf, Onward
    <3>2. /\ Ledgers[i] = Own(i, rs[i].ex.last_executed_height + 1)
          /\ Ledgers'[i] = Own(i, rs'[i].ex.last_executed_height + 1)
      BY <1>3, <2>5 DEF LogFollows
    <3>. QED  BY <3>1, <3>2, OwnExtends
  <2>8. \A j \in Replicas \ {i} : Ledgers'[j] = Ledgers[j]
    BY <2>2, <2>5
  <2>. QED  BY <2>4, <2>6, <2>7, <2>8 DEF Log!LogNext, Log!Advance
<1>4. UNCHANGED vars => UNCHANGED << DecidedLog, Ledgers >>
  BY DEF vars, DecidedLog, AllDecided, Ledgers, LedgerOf
<1>5. Known /\ Known' /\ LogFollows /\ LogFollows' /\ [Next]_vars
        => [Log!LogNext]_<< DecidedLog, Ledgers >>
  BY <1>3, <1>4
<1>6. Spec => []Agreement
  BY DecisionsAgree
<1>. QED  BY <1>1, <1>2, <1>5, <1>6, KnownIsInvariant, PTL
          DEF Spec, ImplementsLog, Log!LogSpec

-----------------------------------------------------------------------------
\* Timers that mostly wait are a case of timers that expire at any moment: what is
\* proved of Spec holds of the cluster under partial synchrony.
LEMMA SyncIsACase == SyncSpec => Spec
<1>1. SyncInit => Init
  BY DEF SyncInit
<1>2. [SyncNext]_syncVars => [Next]_vars
  BY DEF SyncNext, SyncStart, SyncReceive, SyncValidation, SyncStale, EarlyTimer,
         DueTimer, Next, syncVars, vars
<1>. QED  BY <1>1, <1>2, PTL DEF SyncSpec, Spec
=============================================================================
