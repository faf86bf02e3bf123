--------------------------- MODULE PipelineProofs ---------------------------
(***************************************************************************)
(* PipelineHolds is an invariant of every cluster: every node is in step   *)
(* with its own workload directory through every rule and handler.         *)
(*                                                                         *)
(* The set V that PipelineLemmas asks for is that of the nodes n - f       *)
(* replicas have validated, since two such sets of replicas have a member  *)
(* in common and that member validates only blocks of its own workload     *)
(* directory.                                                              *)
(***************************************************************************)
EXTENDS PipelineLemmas, OriginProofs, FiniteSetTheorems

-----------------------------------------------------------------------------
\* There are N replicas.
LEMMA ReplicasAreN == IsFiniteSet(Replicas) /\ Cardinality(Replicas) = N
<1>1. 0 \in Int /\ N - 1 \in Int /\ N \in Nat \ {0}
  BY SizeAssumption
<1>2. IsFiniteSet(0 .. (N - 1)) /\ Cardinality(0 .. (N - 1)) = (N - 1) - 0 + 1
  BY <1>1, FS_Interval
<1>. QED  BY <1>1, <1>2 DEF Replicas

\* Any two sets of n - f replicas have a replica in common.
LEMMA QuorumsMeet ==
    ASSUME NEW A, A \subseteq Replicas, Cardinality(A) >= Quorum,
           NEW B, B \subseteq Replicas, Cardinality(B) >= Quorum
    PROVE  \E s \in A : s \in B
<1>1. IsFiniteSet(A) /\ IsFiniteSet(B)
  BY ReplicasAreN, FS_Subset
<1>2. Cardinality(A \cup B) <= N
  BY ReplicasAreN, FS_Subset
<1>3. Cardinality(A \cup B) = Cardinality(A) + Cardinality(B) - Cardinality(A \cap B)
  BY <1>1, FS_Union
<1>4. Cardinality(A) \in Nat /\ Cardinality(B) \in Nat
  BY <1>1, FS_CardinalityType
<1>. SUFFICES ASSUME A \cap B = {} PROVE FALSE
  OBVIOUS
<1>5. Cardinality(A \cap B) = 0
  BY EmptySize
<1>6. Cardinality(A) + Cardinality(B) <= N
  BY <1>2, <1>3, <1>4, <1>5
<1>. QED  BY <1>4, <1>6, QuorumIsMajority, SizeAssumption

\* The nodes n - f replicas have validated.
ValidSet(S) == {n \in Nodes : Validated(n, S)}

\* They lie on one chain: two of them have a validator in common.
LEMMA ValidSetOnOneChain ==
    ASSUME NEW S,
           \A j \in Replicas : \E K \in 0 .. NumBlocks : S[j].ex.valid = OwnNodes(j, 1 .. K)
    PROVE  OnOneChain(ValidSet(S))
<1>. SUFFICES ASSUME NEW a \in ValidSet(S), NEW b \in ValidSet(S), Len(a) <= Len(b)
              PROVE  a = SubSeq(b, 1, Len(a))
  BY DEF OnOneChain, ValidSet
<1>1. PICK A \in SUBSET Replicas :
         Cardinality(A) >= Quorum /\ \A s \in A : a \in S[s].ex.valid
  BY DEF ValidSet, Validated
<1>2. PICK B \in SUBSET Replicas :
         Cardinality(B) >= Quorum /\ \A s \in B : b \in S[s].ex.valid
  BY DEF ValidSet, Validated
<1>3. PICK s \in A : s \in B
  BY <1>1, <1>2, QuorumsMeet
<1>4. s \in Replicas
  BY <1>1
<1>5. PICK K \in 0 .. NumBlocks : S[s].ex.valid = OwnNodes(s, 1 .. K)
  BY <1>4
<1>6. a \in OwnNodes(s, 1 .. K) /\ b \in OwnNodes(s, 1 .. K)
      /\ 1 .. K \subseteq 0 .. NumBlocks
  BY <1>1, <1>2, <1>3, <1>5, SizeAssumption
<1>7. /\ Len(a) \in 1 .. K /\ a = Own(s, Len(a))
      /\ Len(b) \in 1 .. K /\ b = Own(s, Len(b))
  BY <1>4, <1>6, OwnMember
<1>. DEFINE x == Len(a)
            y == Len(b)
<1>8. y \in 0 .. NumBlocks /\ x \in 0 .. y
  BY <1>6, <1>7, SizeAssumption
<1>9. a = Own(s, x) /\ b = Own(s, y)
  BY <1>7
<1>. HIDE DEF x, y
<1>10. SubSeq(Own(s, y), 1, x) = Own(s, x)
  BY <1>4, <1>8, OwnPrefix
<1>11. a = SubSeq(b, 1, x)
  BY <1>9, <1>10
<1>. QED  BY <1>11 DEF x

\* Decided nodes and the parents of known nodes are among them: the decide rule
\* and the highQC of a proposal come with a certificate.
LEMMA TracedGrounded ==
    ASSUME TypeOK, OriginsHold, NEW i \in Replicas, NEW r, Traced(rs, i, r)
    PROVE  Grounded(r.ex, ValidSet([rs EXCEPT ![i] = r]))
<1>. DEFINE T == [rs EXCEPT ![i] = r]
<1>1. ReplicaOK(r) /\ ReplicaKnown(r, T) /\ Grows(rs[i], r)
  BY DEF Traced, Along
<1>2. \A j \in Replicas : Grows(rs[j], T[j])
  BY <1>1, StoredOn
<1>3. T[i] = r /\ \A j \in Replicas : j # i => T[j] = rs[j]
  BY DEF TypeOK
<1>. HIDE DEF T
<1>4. \A j \in Replicas : \A p \in T[j].proposals : p \in Proposals /\ ProposalKnown(p, T)
  <2>. SUFFICES ASSUME NEW j \in Replicas, NEW p \in T[j].proposals
                PROVE  p \in Proposals /\ ProposalKnown(p, T)
    OBVIOUS
  <2>1. CASE j = i
    BY <1>1, <1>3, <2>1 DEF ReplicaKnown, ReplicaOK
  <2>2. CASE j # i
    <3>1. p \in rs[j].proposals
      BY <1>3, <2>2
    <3>2. p \in Proposals /\ ProposalKnown(p, rs)
      BY <3>1 DEF TypeOK, ReplicaOK, OriginsHold, ReplicaKnown
    <3>. QED  BY <1>2, <3>2, MessagesOn
  <2>. QED  BY <2>1, <2>2
<1>5. r.ex.decided_nodes \subseteq ValidSet(T)
  BY <1>1 DEF ReplicaKnown, DecisionKnown, ReplicaOK, ExecutionOK, ValidSet
<1>6. ASSUME NEW n \in r.ex.tree
      PROVE  Parent(n) = GENESIS_HASH \/ Parent(n) \in ValidSet(T)
  <2>1. InSomeProposal(n, T)
    BY <1>1 DEF ReplicaKnown
  <2>2. PICK j \in Replicas : \E p \in T[j].proposals : p.node = n
    BY <2>1 DEF InSomeProposal
  <2>3. PICK p \in T[j].proposals : p.node = n
    BY <2>2
  <2>4. p \in Proposals /\ ProposalKnown(p, T)
    BY <1>4
  <2>5. Parent(n) = p.justify.node /\ QcKnown(p.justify, T) /\ p.justify \in OptQCs
    BY <2>3, <2>4 DEF ProposalKnown, Proposals
  <2>6. CASE p.justify = NoQC
    BY <2>5, <2>6 DEF NoQC
  <2>7. CASE p.justify # NoQC
    BY <2>5, <2>7 DEF QcKnown, OptQCs, QCs, ValidSet
  <2>. QED  BY <2>6, <2>7
<1>. QED  BY <1>5, <1>6 DEF Grounded, T

-----------------------------------------------------------------------------
\* What no step of a node takes back.
Onward(r, new) ==
    /\ r.locked_qc.view <= new.locked_qc.view
    /\ r.prepare_qc.view <= new.prepare_qc.view
    /\ r.ex.decided_nodes \subseteq new.ex.decided_nodes
    /\ r.ex.last_executed_height <= new.ex.last_executed_height

\* r is a record node i has on the way to the end of its turn, in step with its
\* workload directory.
Flow(i, r) ==
    /\ Traced(rs, i, r) /\ Onward(rs[i], r)
    /\ \E K \in 0 .. NumBlocks : Piped(i, r.ex, K)

\* What Onward compares are integers.
LEMMA OnwardTypes ==
    ASSUME NEW r, ReplicaOK(r)
    PROVE  /\ r.locked_qc.view \in Int /\ r.prepare_qc.view \in Int
           /\ r.ex.last_executed_height \in Int
<1>1. r.locked_qc \in OptQCs /\ r.prepare_qc \in OptQCs
      /\ r.ex.last_executed_height \in -1 .. NumBlocks - 1
  BY DEF ReplicaOK, ExecutionOK
<1>. QED  BY <1>1, OptQcFields, SizeAssumption

\* One step along a turn.
LEMMA FlowOn ==
    ASSUME TypeOK, NEW i \in Replicas, NEW r, Flow(i, r),
           NEW new, Traced(rs, i, new), Onward(r, new),
           \E K \in 0 .. NumBlocks : Piped(i, new.ex, K)
    PROVE  Flow(i, new)
<1>1. ReplicaOK(rs[i]) /\ ReplicaOK(r) /\ ReplicaOK(new)
  BY DEF TypeOK, Flow, Traced, Along
<1>2. \A x \in {rs[i], r, new} :
         /\ x.locked_qc.view \in Int /\ x.prepare_qc.view \in Int
         /\ x.ex.last_executed_height \in Int
  BY <1>1, OnwardTypes
<1>3. Onward(rs[i], r)
  BY DEF Flow
<1>4. Onward(rs[i], new)
  BY <1>2, <1>3 DEF Onward
<1>. QED  BY <1>4 DEF Flow

\* A rule that leaves execution, prepareQC and lockedQC alone.
LEMMA FlowAside ==
    ASSUME TypeOK, NEW i \in Replicas, NEW r, Flow(i, r),
           NEW new, Traced(rs, i, new), new.ex = r.ex, new.prepare_qc = r.prepare_qc,
           new.locked_qc = r.locked_qc
    PROVE  Flow(i, new)
<1>1. ReplicaOK(r)
  BY DEF Flow, Traced, Along
<1>2. /\ r.locked_qc.view \in Int /\ r.prepare_qc.view \in Int
      /\ r.ex.last_executed_height \in Int
  BY <1>1, OnwardTypes
<1>3. Onward(r, new)
  BY <1>2 DEF Onward
<1>4. \E K \in 0 .. NumBlocks : Piped(i, new.ex, K)
  BY DEF Flow
<1>. QED  BY <1>3, <1>4, FlowOn

\* The chain the nodes of ex are grounded in, when a record with the same tree
\* and decisions is on the way and has validated what r has.
LEMMA FlowGround ==
    ASSUME TypeOK, OriginsHold, PipelineHolds, NEW i \in Replicas, NEW r, Flow(i, r),
           NEW new, Traced(rs, i, new), new.ex.valid = r.ex.valid,
           NEW ex, ex.tree = new.ex.tree, ex.decided_nodes = new.ex.decided_nodes
    PROVE  \E V : OnOneChain(V) /\ Grounded(ex, V)
<1>. DEFINE T == [rs EXCEPT ![i] = new]
<1>1. T[i] = new /\ \A j \in Replicas : j # i => T[j] = rs[j]
  BY DEF TypeOK
<1>2. Grounded(new.ex, ValidSet(T))
  BY TracedGrounded
<1>. HIDE DEF T
<1>3. \A j \in Replicas : \E K \in 0 .. NumBlocks : T[j].ex.valid = OwnNodes(j, 1 .. K)
  <2>1. \E K \in 0 .. NumBlocks : new.ex.valid = OwnNodes(i, 1 .. K)
    BY DEF Flow, Piped
  <2>2. \A j \in Replicas : \E K \in 0 .. NumBlocks : rs[j].ex.valid = OwnNodes(j, 1 .. K)
    BY DEF PipelineHolds, Piped
  <2>. QED  BY <1>1, <2>1, <2>2
<1>4. OnOneChain(ValidSet(T))
  BY <1>3, ValidSetOnOneChain
<1>5. Grounded(ex, ValidSet(T))
  BY <1>2 DEF Grounded
<1>. QED  BY <1>4, <1>5

-----------------------------------------------------------------------------
\* The rules that leave execution, prepareQC and lockedQC alone.
LEMMA QuietRulesFlow ==
    ASSUME TypeOK, NEW i \in Replicas, NEW r, Flow(i, r)
    PROVE  /\ \A v \in Nat : r.view < v => Flow(i, enter_new_view(r, v))
           /\ Flow(i, replica_prepare(r))
           /\ \A vote \in VoteTypes : \A phase \in {"pre_commit", "commit", "decide"} :
                 Flow(i, LeaderAggregate(r, vote, phase))
<1>1. MapOK(rs) /\ Traced(rs, i, r) /\ ReplicaOK(r)
  BY DEF TypeOK, MapOK, Flow, Traced, Along
<1>2. ASSUME NEW v \in Nat, r.view < v
      PROVE  Flow(i, enter_new_view(r, v))
  <2>. DEFINE new == enter_new_view(r, v)
  <2>1. new.ex = r.ex /\ new.prepare_qc = r.prepare_qc /\ new.locked_qc = r.locked_qc
    BY <1>1 DEF enter_new_view, SendTo, ReplicaOK, ReplicaFields
  <2>2. Traced(rs, i, new)
    BY <1>1, <1>2, EnterNewViewTraced
  <2>. HIDE DEF new
  <2>3. Flow(i, new)
    BY <2>1, <2>2, FlowAside
  <2>. QED  BY <2>3 DEF new
<1>3. Flow(i, replica_prepare(r))
  <2>. DEFINE new == replica_prepare(r)
  <2>1. new.ex = r.ex /\ new.prepare_qc = r.prepare_qc /\ new.locked_qc = r.locked_qc
    BY <1>1 DEF replica_prepare, CastVote, SendTo, ReplicaOK, ReplicaFields
  <2>2. Traced(rs, i, new)
    BY <1>1, ReplicaPrepareTraced
  <2>. HIDE DEF new
  <2>3. Flow(i, new)
    BY <2>1, <2>2, FlowAside
  <2>. QED  BY <2>3 DEF new
<1>4. ASSUME NEW vote \in VoteTypes, NEW phase \in {"pre_commit", "commit", "decide"}
      PROVE  Flow(i, LeaderAggregate(r, vote, phase))
  <2>. DEFINE new == LeaderAggregate(r, vote, phase)
  <2>1. new.ex = r.ex /\ new.prepare_qc = r.prepare_qc /\ new.locked_qc = r.locked_qc
    BY <1>1 DEF LeaderAggregate, Stage, Broadcast, ReplicaOK, ReplicaFields
  <2>2. Traced(rs, i, new)
    BY <1>1, LeaderAggregateTraced
  <2>. HIDE DEF new
  <2>3. Flow(i, new)
    BY <2>1, <2>2, FlowAside
  <2>. QED  BY <2>3 DEF new
<1>. QED  BY <1>2, <1>3, <1>4

\* The certificate replica_pre_commit stores and the one replica_commit locks are
\* of the current view, which no stored one is after.
LEMMA VoteRulesFlow ==
    ASSUME TypeOK, NEW i \in Replicas, NEW r, Flow(i, r)
    PROVE  Flow(i, replica_pre_commit(r)) /\ Flow(i, replica_commit(r))
<1>1. MapOK(rs) /\ Traced(rs, i, r) /\ ReplicaOK(r)
  BY DEF TypeOK, MapOK, Flow, Traced, Along
<1>2. /\ r.locked_qc.view \in Int /\ r.prepare_qc.view \in Int
      /\ r.ex.last_executed_height \in Int /\ r.view \in Nat
      /\ r.prepare_qc.view <= r.view /\ r.locked_qc.view <= r.view
  BY <1>1, OnwardTypes DEF ReplicaOK, Traced, ReplicaKnown
<1>3. \E K \in 0 .. NumBlocks : Piped(i, r.ex, K)
  BY DEF Flow
<1>4. Flow(i, replica_pre_commit(r))
  <2>. DEFINE qc == CHOOSE q \in Staged(r, "prepare") : TRUE
              new == replica_pre_commit(r)
  <2>1. Staged(r, "prepare") # {} => qc.view = r.view
    BY <1>1, StagedQc
  <2>. HIDE DEF qc
  <2>2. /\ new.ex = r.ex /\ new.locked_qc = r.locked_qc
        /\ \/ new.prepare_qc = r.prepare_qc
           \/ Staged(r, "prepare") # {} /\ new.prepare_qc = qc
    BY <1>1 DEF replica_pre_commit, CastVote, SendTo, ReplicaOK, ReplicaFields, qc
  <2>3. Traced(rs, i, new)
    BY <1>1, ReplicaPreCommitTraced
  <2>. HIDE DEF new
  <2>4. Onward(r, new)
    BY <1>2, <2>1, <2>2 DEF Onward
  <2>5. Flow(i, new)
    BY <1>3, <2>2, <2>3, <2>4, FlowOn
  <2>. QED  BY <2>5 DEF new
<1>5. Flow(i, replica_commit(r))
  <2>. DEFINE qc == CHOOSE q \in Staged(r, "pre_commit") : TRUE
              new == replica_commit(r)
  <2>1. Staged(r, "pre_commit") # {} => qc.view = r.view
    BY <1>1, StagedQc
  <2>. HIDE DEF qc
  <2>2. /\ new.ex = r.ex /\ new.prepare_qc = r.prepare_qc
        /\ \/ new.locked_qc = r.locked_qc
           \/ Staged(r, "pre_commit") # {} /\ new.locked_qc = qc
    BY <1>1 DEF replica_commit, CastVote, SendTo, ReplicaOK, ReplicaFields, qc
  <2>3. Traced(rs, i, new)
    BY <1>1, ReplicaCommitTraced
  <2>. HIDE DEF new
  <2>4. Onward(r, new)
    BY <1>2, <2>1, <2>2 DEF Onward
  <2>5. Flow(i, new)
    BY <1>3, <2>2, <2>3, <2>4, FlowOn
  <2>. QED  BY <2>5 DEF new
<1>. QED  BY <1>4, <1>5

\* leader_prepare and handle_proposal learn a node and try to validate it.
LEMMA LearnFlow ==
    ASSUME TypeOK, OriginsHold, PipelineHolds, NEW i \in Replicas, NEW r, Flow(i, r),
           NEW node \in Nodes, NEW new, Traced(rs, i, new),
           NEW ex, ex = [r.ex EXCEPT !.tree = @ \cup {node}],
           NEW leaf, new.ex = MaybeKickValidation(i, ex, leaf),
           new.prepare_qc = r.prepare_qc, new.locked_qc = r.locked_qc
    PROVE  Flow(i, new)
<1>1. ReplicaOK(r) /\ ExecutionOK(r.ex)
  BY DEF Flow, Traced, Along, ReplicaOK
<1>2. /\ ExecutionOK(ex) /\ ex.valid = r.ex.valid /\ ex.invalid = r.ex.invalid
      /\ ex.queue = r.ex.queue /\ ex.pending_validation = r.ex.pending_validation
      /\ ex.last_executed_height = r.ex.last_executed_height
      /\ ex.live_state = r.ex.live_state /\ ex.chained_root = r.ex.chained_root
      /\ ex.post_state_by_node = r.ex.post_state_by_node
      /\ ex.pre_root_by_node = r.ex.pre_root_by_node
      /\ ex.post_root_by_node = r.ex.post_root_by_node /\ ex.panicked = r.ex.panicked
      /\ ex.decided_nodes = r.ex.decided_nodes
  BY <1>1 DEF ExecutionOK, ExecutionFields
<1>3. SameNodes(ex, new.ex) /\ new.ex.last_executed_height = ex.last_executed_height
  <2>1. SameNodes(ex, MaybeKickValidation(i, ex, leaf))
    BY <1>2, KickSameNodes
  <2>2. DOMAIN ex = ExecutionFields
    BY <1>2 DEF ExecutionOK
  <2>3. MaybeKickValidation(i, ex, leaf).last_executed_height = ex.last_executed_height
    BY <2>2 DEF MaybeKickValidation, ExecutionFields
  <2>. QED  BY <2>1, <2>3
<1>4. PICK V : OnOneChain(V) /\ Grounded(ex, V)
  <2>1. /\ new.ex.valid = r.ex.valid
        /\ ex.tree = new.ex.tree /\ ex.decided_nodes = new.ex.decided_nodes
    BY <1>2, <1>3 DEF SameNodes
  <2>. QED  BY ONLY TypeOK, OriginsHold, PipelineHolds, i \in Replicas, Flow(i, r),
                    Traced(rs, i, new), <2>1, FlowGround
<1>5. PICK K \in 0 .. NumBlocks : Piped(i, r.ex, K)
  BY DEF Flow
<1>6. Piped(i, ex, K)
  BY <1>2, <1>5, LearnPiped
<1>7. Piped(i, new.ex, K)
  BY <1>2, <1>4, <1>6, MaybeKickPiped
<1>8. Onward(r, new)
  BY <1>1, <1>2, <1>3, OnwardTypes DEF Onward, SameNodes
<1>. QED  BY <1>7, <1>8, FlowOn

\* leader_prepare: the leaf it proposes and validates itself stays in order.
LEMMA LeaderPrepareFlow ==
    ASSUME TypeOK, OriginsHold, PipelineHolds, NEW i \in Replicas, NEW r, Flow(i, r)
    PROVE  Flow(i, leader_prepare(r))
<1>. DEFINE ms == NewViews(r)
            high == HighQc(ms)
            leaf == Append(high.node, Block(r.id, Len(high.node)))
            p == Proposal(r.view, leaf, high, r.id)
            sent == [StoreProposal(Broadcast(Learn(r, leaf), p), p)
                       EXCEPT !.broadcast = @ \cup {<< "proposal", r.view >>}]
            new == leader_prepare(r)
            ex == [r.ex EXCEPT !.tree = @ \cup {leaf}]
<1>1. MapOK(rs) /\ Traced(rs, i, r) /\ ReplicaOK(r) /\ r.id = i
  BY DEF TypeOK, MapOK, Flow, Traced, Along
<1>2. Traced(rs, i, new)
  BY <1>1, LeaderPrepareTraced
<1>3. CASE new = r
  BY <1>3
<1>4. CASE new # r
  <2>1. /\ Cardinality(Senders(ms)) >= Quorum
        /\ Len(high.node) < NumBlocks /\ new = Kick(sent, leaf)
    BY <1>4 DEF leader_prepare
  <2>2. leaf \in Nodes
    <3>1. /\ ms \subseteq NewViewMsgs /\ r.view - 1 \in Int
          /\ \A m \in ms : m.view <= r.view - 1
      BY <1>1 DEF NewViews, ReplicaOK
    <3>2. ms # {}
      BY <2>1, NoSendersNoQuorum
    <3>3. high \in OptQCs
      BY <3>1, <3>2, HighQcIsHighest
    <3>. QED  BY <1>1, <2>1, <3>3, LeafIsNode
  <2>. HIDE DEF ms, high, leaf, p
  <2>3. /\ sent.ex = ex /\ sent.id = i /\ DOMAIN sent = ReplicaFields
        /\ sent.prepare_qc = r.prepare_qc /\ sent.locked_qc = r.locked_qc
    BY <1>1 DEF StoreProposal, Broadcast, Learn, ReplicaOK, ReplicaFields
  <2>. HIDE DEF sent, ex
  <2>4. /\ new.ex = MaybeKickValidation(i, ex, leaf)
        /\ new.prepare_qc = r.prepare_qc /\ new.locked_qc = r.locked_qc
    BY <2>1, <2>3 DEF Kick, ReplicaFields
  <2>. HIDE DEF new
  <2>5. ex = [r.ex EXCEPT !.tree = @ \cup {leaf}]
    BY DEF ex
  <2>6. Flow(i, new)
    BY <1>2, <2>2, <2>4, <2>5, LearnFlow
  <2>. QED  BY <2>6 DEF new
<1>. QED  BY <1>3, <1>4

\* handle_proposal: validating a proposed leaf keeps the flow.
LEMMA HandleProposalFlow ==
    ASSUME TypeOK, EvidenceHolds, OriginsHold, PipelineHolds,
           NEW i \in Replicas, Flow(i, rs[i]),
           NEW x \in net, x.msg.kind = "Proposal"
    PROVE  Flow(i, handle_proposal(rs[i], x.msg))
<1>. DEFINE r == rs[i]
            m == x.msg
            stored == StoreProposal(Learn(r, m.node), m)
            new == handle_proposal(r, m)
            ex == [r.ex EXCEPT !.tree = @ \cup {m.node}]
<1>1. Traced(rs, i, r) /\ ReplicaOK(r) /\ r.id = i
  BY DEF Flow, Traced, Along
<1>2. Traced(rs, i, new)
  BY HandlersTraced
<1>3. m \in Proposals /\ m.node \in Nodes
  BY PacketKinds DEF TypeOK, Proposals
<1>4. CASE new = r
  BY <1>4
<1>5. CASE new # r
  <2>1. new = Kick(stored, m.node)
    BY <1>5 DEF handle_proposal
  <2>2. /\ stored.ex = ex /\ stored.id = i /\ DOMAIN stored = ReplicaFields
        /\ stored.prepare_qc = r.prepare_qc /\ stored.locked_qc = r.locked_qc
    BY <1>1 DEF StoreProposal, Learn, ReplicaOK, ReplicaFields
  <2>. HIDE DEF stored, ex, m
  <2>3. /\ new.ex = MaybeKickValidation(i, ex, m.node)
        /\ new.prepare_qc = r.prepare_qc /\ new.locked_qc = r.locked_qc
    BY <2>1, <2>2 DEF Kick, ReplicaFields
  <2>. HIDE DEF new
  <2>4. ex = [r.ex EXCEPT !.tree = @ \cup {m.node}] /\ Flow(i, r)
    BY DEF ex
  <2>. HIDE DEF r
  <2>5. Flow(i, new)
    BY <1>2, <1>3, <2>3, <2>4, LearnFlow
  <2>. QED  BY <2>5 DEF new, m, r
<1>. QED  BY <1>4, <1>5

\* A record with the execution state ex in r's place.
LEMMA ExecutedFlow ==
    ASSUME TypeOK, NEW i \in Replicas, NEW r, Flow(i, r),
           NEW new, Traced(rs, i, new),
           new.prepare_qc = r.prepare_qc, new.locked_qc = r.locked_qc,
           r.ex.decided_nodes \subseteq new.ex.decided_nodes,
           r.ex.last_executed_height <= new.ex.last_executed_height,
           NEW K \in 0 .. NumBlocks, Piped(i, new.ex, K)
    PROVE  Flow(i, new)
<1>1. ReplicaOK(r)
  BY DEF Flow, Traced, Along
<1>2. Onward(r, new)
  BY <1>1, OnwardTypes DEF Onward
<1>. QED  BY <1>2, FlowOn

\* The last two calls of try_advance.
LEMMA ExecutePassFlow ==
    ASSUME TypeOK, OriginsHold, PipelineHolds, NEW i \in Replicas, NEW r, Flow(i, r)
    PROVE  Flow(i, ExecutePass(r)) /\ Settled(i, ExecutePass(r).ex)
<1>. DEFINE ex1 == RetryPendingExecute(i, r.ex)
            ex2 == TryKickPendingValidations(i, ex1)
            new == ExecutePass(r)
<1>1. MapOK(rs) /\ Traced(rs, i, r) /\ ReplicaOK(r) /\ r.id = i /\ ExecutionOK(r.ex)
  BY DEF TypeOK, MapOK, Flow, Traced, Along, ReplicaOK
<1>2. Traced(rs, i, new)
  BY <1>1, ExecutePassTraced
<1>3. PICK V : OnOneChain(V) /\ Grounded(r.ex, V)
  BY <1>1, FlowGround
<1>4. PICK K \in 0 .. NumBlocks : Piped(i, r.ex, K)
  BY DEF Flow
<1>5. ExecutionOK(ex1) /\ SameNodes(r.ex, ex1)
  BY <1>1, RetryPendingExecuteOK, ExecuteSameNodes
<1>6. Piped(i, ex1, K) /\ r.ex.last_executed_height <= ex1.last_executed_height
  BY <1>1, <1>3, <1>4, RetryPiped
<1>0. Settled(i, ex2)
  BY <1>1, <1>3, PassSettles DEF Grounded
<1>. HIDE DEF ex1
<1>7. SameNodes(ex1, ex2)
  BY <1>1, <1>5, ExecuteSameNodes
<1>8. Grounded(ex1, V)
  BY <1>3, <1>5 DEF Grounded, SameNodes
<1>9. Piped(i, ex2, K)
  BY <1>3, <1>5, <1>6, <1>8, TryKickPiped
<1>10. ex2.last_executed_height = ex1.last_executed_height
  BY <1>5 DEF TryKickPendingValidations, MaybeKickValidation, ExecutionOK, ExecutionFields
<1>. HIDE DEF ex2
<1>11. new.ex = ex2 /\ new.prepare_qc = r.prepare_qc /\ new.locked_qc = r.locked_qc
  BY <1>1 DEF ExecutePass, ReplicaOK, ReplicaFields, ex2, ex1
<1>. HIDE DEF new
<1>12. /\ r.ex.decided_nodes \subseteq new.ex.decided_nodes
       /\ r.ex.last_executed_height <= new.ex.last_executed_height
       /\ Piped(i, new.ex, K)
  BY <1>5, <1>6, <1>7, <1>9, <1>10, <1>11 DEF SameNodes
<1>13. Flow(i, new)
  BY <1>2, <1>11, <1>12, ExecutedFlow
<1>. QED  BY <1>0, <1>11, <1>13 DEF new

\* replica_decide: deciding and executing a chain keeps the flow.
LEMMA ReplicaDecideFlow ==
    ASSUME TypeOK, OriginsHold, PipelineHolds, NEW i \in Replicas, NEW r, Flow(i, r)
    PROVE  Flow(i, replica_decide(r))
<1>. DEFINE qc == CHOOSE q \in Staged(r, "commit") : TRUE
            decided == Decided(r.ex, qc.node)
            ex == TryExecuteChain(i, decided, qc.node)
            executed == [r EXCEPT !.ex = ex, !.timeout = 1]
            new == replica_decide(r)
<1>1. MapOK(rs) /\ Traced(rs, i, r) /\ ReplicaOK(r) /\ r.id = i /\ ExecutionOK(r.ex)
  BY DEF TypeOK, MapOK, Flow, Traced, Along, ReplicaOK
<1>2. Traced(rs, i, new)
  BY <1>1, ReplicaDecideTraced
<1>3. CASE Staged(r, "commit") = {}
  BY <1>3 DEF replica_decide
<1>4. CASE Staged(r, "commit") # {}
  <2>1. qc.node \in Nodes
    BY <1>1, <1>4, StagedQc
  <2>2. new = enter_new_view(executed, r.view + 1)
    BY <1>1, <1>4 DEF replica_decide
  <2>. HIDE DEF qc
  <2>3. /\ ExecutionOK(decided) /\ decided.tree = r.ex.tree
        /\ decided.decided_nodes = r.ex.decided_nodes \cup {qc.node}
        /\ decided.valid = r.ex.valid /\ decided.invalid = r.ex.invalid
        /\ decided.queue = r.ex.queue
        /\ decided.pending_validation = r.ex.pending_validation
        /\ decided.last_executed_height = r.ex.last_executed_height
        /\ decided.live_state = r.ex.live_state /\ decided.chained_root = r.ex.chained_root
        /\ decided.post_state_by_node = r.ex.post_state_by_node
        /\ decided.pre_root_by_node = r.ex.pre_root_by_node
        /\ decided.post_root_by_node = r.ex.post_root_by_node
        /\ decided.panicked = r.ex.panicked
    BY <1>1, <2>1, DecidedOK DEF Decided, ExecutionOK, ExecutionFields
  <2>. HIDE DEF decided
  <2>4. SameNodes(decided, ex)
    BY <2>1, <2>3, ExecuteSameNodes
  <2>. HIDE DEF ex
  <2>5. executed.ex = ex /\ executed.prepare_qc = r.prepare_qc
        /\ executed.locked_qc = r.locked_qc /\ DOMAIN executed = ReplicaFields
    BY <1>1 DEF ReplicaOK, ReplicaFields
  <2>. HIDE DEF executed
  <2>6. new.ex = ex /\ new.prepare_qc = r.prepare_qc /\ new.locked_qc = r.locked_qc
    BY <2>2, <2>5 DEF enter_new_view, SendTo, ReplicaFields
  <2>. HIDE DEF new
  <2>7. /\ new.ex.valid = r.ex.valid
        /\ decided.tree = new.ex.tree /\ decided.decided_nodes = new.ex.decided_nodes
    BY <2>3, <2>4, <2>6 DEF SameNodes
  <2>8. PICK V : OnOneChain(V) /\ Grounded(decided, V)
    BY <1>2, <2>7, FlowGround
  <2>9. PICK K \in 0 .. NumBlocks : Piped(i, r.ex, K)
    BY DEF Flow
  <2>10. Piped(i, decided, K)
    BY <2>3, <2>9, LearnPiped
  <2>11. qc.node \in decided.decided_nodes
    BY <2>3
  <2>12. Piped(i, ex, K) /\ decided.last_executed_height <= ex.last_executed_height
    BY <2>3, <2>8, <2>10, <2>11, TryExecutePiped DEF ex
  <2>13. /\ r.ex.decided_nodes \subseteq new.ex.decided_nodes
         /\ r.ex.last_executed_height <= new.ex.last_executed_height
         /\ Piped(i, new.ex, K)
    BY <2>3, <2>6, <2>7, <2>12
  <2>14. Flow(i, new)
    BY <1>2, <2>6, <2>13, ExecutedFlow
  <2>. QED  BY <2>14 DEF new
<1>. QED  BY <1>3, <1>4

\* A whole try_advance pass, rule by rule.
LEMMA TryAdvanceFlow ==
    ASSUME TypeOK, OriginsHold, PipelineHolds, NEW i \in Replicas, NEW r, Flow(i, r)
    PROVE  Flow(i, try_advance(r)) /\ Settled(i, try_advance(r).ex)
<1>. DEFINE r1 == leader_prepare(r)
            r2 == replica_prepare(r1)
            r3 == leader_pre_commit(r2)
            r4 == replica_pre_commit(r3)
            r5 == leader_commit(r4)
            r6 == replica_commit(r5)
            r7 == leader_decide(r6)
            r8 == replica_decide(r7)
<1>0. try_advance(r) = ExecutePass(r8)
  BY DEF try_advance
<1>1. Flow(i, r1)
  BY LeaderPrepareFlow
<1>. HIDE DEF r1
<1>2. Flow(i, r2)
  BY <1>1, QuietRulesFlow
<1>. HIDE DEF r2
<1>3. Flow(i, r3)
  BY <1>2, QuietRulesFlow DEF leader_pre_commit, VoteTypes
<1>. HIDE DEF r3
<1>4. Flow(i, r4)
  BY <1>3, VoteRulesFlow
<1>. HIDE DEF r4
<1>5. Flow(i, r5)
  BY <1>4, QuietRulesFlow DEF leader_commit, VoteTypes
<1>. HIDE DEF r5
<1>6. Flow(i, r6)
  BY <1>5, VoteRulesFlow
<1>. HIDE DEF r6
<1>7. Flow(i, r7)
  BY <1>6, QuietRulesFlow DEF leader_decide, VoteTypes
<1>. HIDE DEF r7
<1>8. Flow(i, r8)
  BY <1>7, ReplicaDecideFlow
<1>. HIDE DEF r8
<1>. QED  BY <1>0, <1>8, ExecutePassFlow

-----------------------------------------------------------------------------
\* A turn starts where the last one ended.
LEMMA StartFlow ==
    ASSUME TypeOK, EvidenceHolds, OriginsHold, PipelineHolds, NEW i \in Replicas
    PROVE  Flow(i, rs[i])
<1>1. Traced(rs, i, rs[i]) /\ ReplicaOK(rs[i])
  BY StartTraced DEF TypeOK
<1>2. Onward(rs[i], rs[i])
  BY <1>1, OnwardTypes DEF Onward
<1>. QED  BY <1>1, <1>2 DEF Flow, PipelineHolds

\* Every handler keeps the node in step with its workload directory.
LEMMA HandlersFlow ==
    ASSUME TypeOK, EvidenceHolds, OriginsHold, PipelineHolds, NEW i \in Replicas
    PROVE  /\ rs[i].view = 0 => Flow(i, enter_new_view(rs[i], 1))
           /\ \A p \in net :
                 /\ p.msg.kind = "Proposal" => Flow(i, handle_proposal(rs[i], p.msg))
                 /\ p.msg.kind = "PhaseQc" => Flow(i, handle_phase_qc(rs[i], p.msg))
                 /\ p.msg.kind = "Vote" => Flow(i, handle_vote(rs[i], p.msg))
                 /\ p.msg.kind = "NewView" => Flow(i, handle_new_view(rs[i], p.msg))
           /\ rs[i].ex.queue # << >> => Flow(i, handle_validation(rs[i]))
           /\ \A v : Flow(i, handle_timer(rs[i], v))
<1>. DEFINE r == rs[i]
<1>1. Flow(i, r) /\ ReplicaOK(r) /\ r.id = i /\ ExecutionOK(r.ex)
  BY StartFlow DEF TypeOK, ReplicaOK
<1>2. PICK K \in 0 .. NumBlocks : Piped(i, r.ex, K)
  BY <1>1 DEF Flow
<1>3. rs[i].view = 0 => Flow(i, enter_new_view(rs[i], 1))
  BY <1>1, QuietRulesFlow
<1>4. ASSUME NEW p \in net, p.msg.kind = "Proposal"
      PROVE  Flow(i, handle_proposal(rs[i], p.msg))
  BY <1>1, <1>4, HandleProposalFlow
<1>5. ASSUME NEW p \in net, p.msg.kind = "PhaseQc"
      PROVE  Flow(i, handle_phase_qc(rs[i], p.msg))
  <2>. DEFINE m == p.msg
              q == m.justify
              new == handle_phase_qc(r, m)
              ex == Decided(r.ex, q.node)
  <2>1. Traced(rs, i, new)
    BY <1>5, HandlersTraced
  <2>2. /\ new.prepare_qc = r.prepare_qc /\ new.locked_qc = r.locked_qc
        /\ new.ex = r.ex \/ new.ex = ex
    BY <1>1 DEF handle_phase_qc, Stage, ReplicaOK, ReplicaFields
  <2>3. /\ ex.valid = r.ex.valid /\ ex.invalid = r.ex.invalid /\ ex.queue = r.ex.queue
        /\ ex.pending_validation = r.ex.pending_validation
        /\ ex.last_executed_height = r.ex.last_executed_height
        /\ ex.live_state = r.ex.live_state /\ ex.chained_root = r.ex.chained_root
        /\ ex.post_state_by_node = r.ex.post_state_by_node
        /\ ex.pre_root_by_node = r.ex.pre_root_by_node
        /\ ex.post_root_by_node = r.ex.post_root_by_node /\ ex.panicked = r.ex.panicked
        /\ r.ex.decided_nodes \subseteq ex.decided_nodes
    BY <1>1 DEF Decided, ExecutionOK, ExecutionFields
  <2>. HIDE DEF new, m, q, ex
  <2>4. Piped(i, ex, K)
    BY <1>2, <2>3, LearnPiped
  <2>5. r.ex.last_executed_height \in Int
    BY <1>1, OnwardTypes
  <2>6. /\ r.ex.decided_nodes \subseteq new.ex.decided_nodes
        /\ r.ex.last_executed_height <= new.ex.last_executed_height
        /\ Piped(i, new.ex, K)
    BY <1>2, <2>2, <2>3, <2>4, <2>5
  <2>. HIDE DEF r
  <2>7. Flow(i, new)
    BY <1>1, <2>1, <2>2, <2>6, ExecutedFlow
  <2>. QED  BY <2>7 DEF new, m, r
<1>6. ASSUME NEW p \in net, p.msg.kind = "Vote"
      PROVE  Flow(i, handle_vote(rs[i], p.msg))
  <2>. DEFINE new == handle_vote(r, p.msg)
  <2>1. Traced(rs, i, new)
    BY <1>6, HandlersTraced
  <2>2. new.ex = r.ex /\ new.prepare_qc = r.prepare_qc /\ new.locked_qc = r.locked_qc
    BY <1>1 DEF handle_vote, ReplicaOK, ReplicaFields
  <2>. HIDE DEF new, r
  <2>3. Flow(i, new)
    BY <1>1, <2>1, <2>2, FlowAside
  <2>. QED  BY <2>3 DEF new, r
<1>7. ASSUME NEW p \in net, p.msg.kind = "NewView"
      PROVE  Flow(i, handle_new_view(rs[i], p.msg))
  <2>. DEFINE new == handle_new_view(r, p.msg)
  <2>1. Traced(rs, i, new)
    BY <1>7, HandlersTraced
  <2>2. new.ex = r.ex /\ new.prepare_qc = r.prepare_qc /\ new.locked_qc = r.locked_qc
    BY <1>1 DEF handle_new_view, ReplicaOK, ReplicaFields
  <2>. HIDE DEF new, r
  <2>3. Flow(i, new)
    BY <1>1, <2>1, <2>2, FlowAside
  <2>. QED  BY <2>3 DEF new, r
<1>8. ASSUME rs[i].ex.queue # << >>
      PROVE  Flow(i, handle_validation(rs[i]))
  <2>. DEFINE new == handle_validation(r)
              ex == IngestValidation(i, r.ex)
  <2>1. Traced(rs, i, new)
    BY <1>8, HandlersTraced
  <2>2. PICK L \in 0 .. NumBlocks : Piped(i, ex, L)
    BY <1>1, <1>2, <1>8, IngestPiped
  <2>3. ex.last_executed_height = r.ex.last_executed_height
        /\ ex.decided_nodes = r.ex.decided_nodes
    BY <1>1, <1>2, <1>8, IngestPiped
  <2>. HIDE DEF ex
  <2>4. new.ex = ex /\ new.prepare_qc = r.prepare_qc /\ new.locked_qc = r.locked_qc
    BY <1>1 DEF handle_validation, ReplicaOK, ReplicaFields, ex
  <2>5. r.ex.last_executed_height \in Int
    BY <1>1, OnwardTypes
  <2>. HIDE DEF new
  <2>6. /\ r.ex.decided_nodes \subseteq new.ex.decided_nodes
        /\ r.ex.last_executed_height <= new.ex.last_executed_height
        /\ Piped(i, new.ex, L)
    BY <2>2, <2>3, <2>4, <2>5
  <2>. HIDE DEF r
  <2>7. Flow(i, new)
    BY <1>1, <2>1, <2>4, <2>6, ExecutedFlow
  <2>. QED  BY <2>7 DEF new, r
<1>9. ASSUME NEW v
      PROVE  Flow(i, handle_timer(rs[i], v))
  <2>. DEFINE new == handle_timer(r, v)
  <2>1. Traced(rs, i, new)
    BY HandlersTraced
  <2>2. new.ex = r.ex /\ new.prepare_qc = r.prepare_qc /\ new.locked_qc = r.locked_qc
    BY <1>1 DEF handle_timer, enter_new_view, SendTo, ReplicaOK, ReplicaFields
  <2>. HIDE DEF new, r
  <2>3. Flow(i, new)
    BY <1>1, <2>1, <2>2, FlowAside
  <2>. QED  BY <2>3 DEF new, r
<1>. QED  BY <1>3, <1>4, <1>5, <1>6, <1>7, <1>8, <1>9

\* What a step of node i does to the cluster.
StepOf(i) ==
    /\ rs[i].view <= rs'[i].view /\ Onward(rs[i], rs'[i])
    /\ \E K \in 0 .. NumBlocks : Piped(i, rs'[i].ex, K)
    /\ Settled(i, rs'[i].ex) /\ (Rooted(rs[i].ex) => Rooted(rs'[i].ex))
    /\ \A j \in Replicas : j # i => rs'[j] = rs[j]

\* A whole turn, with try_advance and the flush that end it, is a step of the flow.
LEMMA TurnFlows ==
    ASSUME TypeOK, OriginsHold, PipelineHolds, NEW i \in Replicas, NEW r, Flow(i, r),
           Rooted(rs[i].ex) => Rooted(r.ex), NEW received, Turn(i, r, received)
    PROVE  StepOf(i)
<1>. DEFINE done == try_advance(r)
            last == Flush(done)
<1>1. Flow(i, done) /\ Settled(i, done.ex)
  BY TryAdvanceFlow
<1>0. Rooted(rs[i].ex) => Rooted(done.ex)
  BY TryAdvanceRooted DEF Flow, Traced, Along
<1>2. rs' = [rs EXCEPT ![i] = last]
  BY DEF Turn
<1>. HIDE DEF done
<1>3. ReplicaOK(done) /\ rs[i].view <= done.view
  BY <1>1 DEF Flow, Traced, Along, Advances
<1>4. /\ last.view = done.view /\ last.prepare_qc = done.prepare_qc
      /\ last.locked_qc = done.locked_qc /\ last.ex = done.ex
  BY <1>3 DEF Flush, ReplicaOK, ReplicaFields
<1>5. rs'[i] = last /\ \A j \in Replicas : j # i => rs'[j] = rs[j]
  BY <1>2 DEF TypeOK
<1>. HIDE DEF last
<1>6. Onward(rs[i], last)
  BY <1>1, <1>4 DEF Flow, Onward
<1>7. \E K \in 0 .. NumBlocks : Piped(i, last.ex, K)
  BY <1>1, <1>4 DEF Flow
<1>. QED  BY <1>0, <1>1, <1>3, <1>4, <1>5, <1>6, <1>7 DEF StepOf

\* Every step of the cluster is a step of the flow of one replica.
LEMMA NextFlows ==
    ASSUME TypeOK, EvidenceHolds, OriginsHold, PipelineHolds, Next
    PROVE  \E i \in Replicas : StepOf(i)
<1>1. \A i \in Replicas : ReplicaOK(rs[i])
  BY DEF TypeOK
<1>2. \E i \in Replicas : \E r, received :
         Flow(i, r) /\ (Rooted(rs[i].ex) => Rooted(r.ex)) /\ Turn(i, r, received)
  BY <1>1, NextIsTurn, HandlersFlow, HandlersRooted
<1>. QED  BY <1>2, TurnFlows

\* The invariant of the pipelines survives every step.
LEMMA NextKeepsPipeline ==
    ASSUME TypeOK, EvidenceHolds, OriginsHold, PipelineHolds, [Next]_vars
    PROVE  PipelineHolds'
<1>1. CASE UNCHANGED vars
  BY <1>1 DEF vars, PipelineHolds
<1>2. CASE Next
  BY <1>2, NextFlows DEF StepOf, PipelineHolds
<1>. QED  BY <1>1, <1>2

-----------------------------------------------------------------------------
Known == TypeOK /\ EvidenceHolds /\ OriginsHold /\ PipelineHolds

\* The four invariants hold together: each step may rely on all of them.
LEMMA KnownIsInvariant == Spec => []Known
<1>1. Init => PipelineHolds
  <2>. SUFFICES ASSUME Init, NEW i \in Replicas
                PROVE  Piped(i, rs[i].ex, 0) /\ 0 \in 0 .. NumBlocks
    BY DEF PipelineHolds
  <2>. DEFINE ex == NewExecution
  <2>1. rs[i].ex = ex
    BY DEF Init, NewReplica
  <2>2. /\ ex.valid = {} /\ ex.invalid = {} /\ ex.queue = << >>
        /\ ex.pending_validation = NoPending /\ ex.last_executed_height = -1
        /\ ex.live_state = << >> /\ ex.chained_root = ZeroRoot /\ ex.panicked = FALSE
        /\ DOMAIN ex.post_state_by_node = {} /\ DOMAIN ex.pre_root_by_node = {}
        /\ DOMAIN ex.post_root_by_node = {}
    BY DEF NewExecution, EmptyMap
  <2>. HIDE DEF ex
  <2>3. /\ -1 + 1 = 0 /\ -1 + 2 = 1 /\ 1 .. 0 = {} /\ 0 \in 0 .. NumBlocks
        /\ OwnNodes(i, 1 .. 0) = {} /\ Own(i, 0) = << >>
    BY SizeAssumption, OwnFacts DEF OwnNodes
  <2>4. StatesOK(i, ex, 0) /\ RootsOK(i, ex, 0) /\ InFlight(i, ex, 0)
    BY <2>2, <2>3 DEF StatesOK, RootsOK, InFlight, AfterEach
  <2>5. Piped(i, ex, 0)
    BY <2>2, <2>3, <2>4 DEF Piped
  <2>. QED  BY <2>1, <2>3, <2>5
<1>2. Known /\ [Next]_vars => PipelineHolds'
  BY NextKeepsPipeline DEF Known
<1>. QED  BY <1>1, <1>2, OriginsAreKnown, PTL DEF Spec, Known

\* Every node works through its own workload directory in order, one validation
\* at a time, every cached state and root in step with it (maybe_kick_validation,
\* ingest_validation, try_execute_chain), in every cluster and schedule.
THEOREM PipelineIsInvariant == Spec => []PipelineHolds
<1>1. Known => PipelineHolds
  BY DEF Known
<1>. QED  BY <1>1, KnownIsInvariant, PTL
=============================================================================
