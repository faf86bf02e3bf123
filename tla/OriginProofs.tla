---------------------------- MODULE OriginProofs ----------------------------
(***************************************************************************)
(* OriginsHold is an invariant of every cluster.                           *)
(*                                                                         *)
(* As in EvidenceProofs a turn of node i is followed rule by rule:         *)
(* `Traced(S, i, r)` says that r is a record on the way from S[i] to the   *)
(* end of the turn and that everything r holds is known to the cluster     *)
(* with r in the place of S[i].                                            *)
(***************************************************************************)
EXTENDS Safety, EvidenceProofs

\* What no rule takes back.
Grows(r, new) ==
    /\ r.voted \subseteq new.voted
    /\ r.proposals \subseteq new.proposals
    /\ r.ex.valid \subseteq new.ex.valid

Traced(S, i, r) ==
    /\ Along(S, i, r)
    /\ Grows(S[i], r)
    /\ ReplicaKnown(r, [S EXCEPT ![i] = r])

-----------------------------------------------------------------------------
\* What is known stays known when replicas grow.
LEMMA KnownOn ==
    ASSUME NEW S, NEW T, \A j \in Replicas : Grows(S[j], T[j])
    PROVE  /\ \A v \in Nat : \A n : Proposed(v, n, S) => Proposed(v, n, T)
           /\ \A v : PreCommitted(v, S) => PreCommitted(v, T)
           /\ \A n : Validated(n, S) => Validated(n, T)
           /\ \A n : InSomeProposal(n, S) => InSomeProposal(n, T)
           /\ \A d : DecisionKnown(d, S) => DecisionKnown(d, T)
<1>1. \A v \in Nat : \A n : Proposed(v, n, S) => Proposed(v, n, T)
  BY LeaderIsReplica DEF Proposed, Grows
<1>2. \A j \in Replicas : PreCommits(S[j]) \subseteq PreCommits(T[j])
  BY DEF PreCommits, Grows
<1>3. \A v : PreCommitted(v, S) => PreCommitted(v, T)
  BY <1>2 DEF PreCommitted
<1>4. \A n : Validated(n, S) => Validated(n, T)
  BY DEF Validated, Grows
<1>5. \A n : InSomeProposal(n, S) => InSomeProposal(n, T)
  BY DEF InSomeProposal, Grows
<1>6. \A d : DecisionKnown(d, S) => DecisionKnown(d, T)
  BY <1>3, <1>4 DEF DecisionKnown, Grows
<1>. QED  BY <1>1, <1>3, <1>4, <1>5, <1>6

\* Messages that are known stay known.
LEMMA MessagesOn ==
    ASSUME NEW S, NEW T, \A j \in Replicas : Grows(S[j], T[j])
    PROVE  /\ \A m \in Votes : VoteKnown(m, S) => VoteKnown(m, T)
           /\ \A q \in OptQCs : QcKnown(q, S) => QcKnown(q, T)
           /\ \A p \in Proposals : ProposalKnown(p, S) => ProposalKnown(p, T)
           /\ \A p \in Packets : MessageKnown(p.msg, S) => MessageKnown(p.msg, T)
<1>1. ASSUME NEW m \in Votes, VoteKnown(m, S)
      PROVE  VoteKnown(m, T)
  <2>1. m.view \in Nat /\ m.voter \in Replicas
    BY DEF Votes
  <2>. QED  BY <1>1, <2>1, KnownOn DEF VoteKnown, Grows
<1>2. ASSUME NEW q \in OptQCs, QcKnown(q, S)
      PROVE  QcKnown(q, T)
  <2>1. q.view \in Nat
    BY OptQcFields
  <2>. QED  BY <1>2, <2>1, KnownOn DEF QcKnown
<1>3. ASSUME NEW p \in Proposals, ProposalKnown(p, S)
      PROVE  ProposalKnown(p, T)
  <2>1. leader_for(p.view) \in Replicas /\ p.justify \in OptQCs
    BY LeaderIsReplica DEF Proposals
  <2>. QED  BY <1>2, <1>3, <2>1 DEF ProposalKnown, Grows
<1>4. ASSUME NEW p \in Packets, MessageKnown(p.msg, S)
      PROVE  MessageKnown(p.msg, T)
  <2>1. p.msg.kind \in {"PhaseQc", "NewView"} => p.msg.justify \in OptQCs
    BY PacketKinds DEF PhaseQcs, NewViewMsgs, OptQCs
  <2>. QED  BY <1>1, <1>2, <1>3, <1>4, <2>1, PacketKinds DEF MessageKnown
<1>. QED  BY <1>1, <1>2, <1>3, <1>4

\* Everything a replica holds stays known.
LEMMA ReplicaKnownOn ==
    ASSUME NEW S, NEW T, \A j \in Replicas : Grows(S[j], T[j]),
           NEW r, ReplicaOK(r), ReplicaKnown(r, S)
    PROVE  ReplicaKnown(r, T)
<1>1. /\ r.votes \subseteq Votes /\ r.staged \subseteq QCs /\ r.proposals \subseteq Proposals
      /\ r.prepare_qc \in OptQCs /\ r.locked_qc \in OptQCs
      /\ r.out \subseteq Packets /\ \A m \in r.new_view_msgs : m.justify \in OptQCs
  BY DEF ReplicaOK, NewViewMsgs
<1>2. \A m \in r.votes : VoteKnown(m, T)
  BY <1>1, MessagesOn DEF ReplicaKnown
<1>3. \A q \in r.staged : QcKnown(q, T)
  BY <1>1, MessagesOn DEF ReplicaKnown, OptQCs
<1>4. QcKnown(r.prepare_qc, T) /\ QcKnown(r.locked_qc, T)
  BY <1>1, MessagesOn DEF ReplicaKnown
<1>5. \A m \in r.new_view_msgs : QcKnown(m.justify, T)
  BY <1>1, MessagesOn DEF ReplicaKnown
<1>6. \A p \in r.proposals : ProposalKnown(p, T)
  BY <1>1, MessagesOn DEF ReplicaKnown
<1>7. \A n \in r.ex.tree : InSomeProposal(n, T)
  BY KnownOn DEF ReplicaKnown
<1>8. \A d \in r.ex.decided_nodes : DecisionKnown(d, T)
  BY KnownOn DEF ReplicaKnown
<1>9. \A p \in r.out : MessageKnown(p.msg, T)
  BY <1>1, MessagesOn DEF ReplicaKnown
<1>. QED  BY <1>2, <1>3, <1>4, <1>5, <1>6, <1>7, <1>8, <1>9 DEF ReplicaKnown

-----------------------------------------------------------------------------
\* One step along a turn: only what is new in the record has to be shown known.
LEMMA StepTraced ==
    ASSUME NEW S, MapOK(S), NEW i \in Replicas, NEW r, Traced(S, i, r),
           NEW new, Along(S, i, new), Grows(r, new),
           NEW T, T = [S EXCEPT ![i] = new],
           \A m \in new.votes : m \in r.votes \/ VoteKnown(m, T),
           \A q \in new.staged : q \in r.staged \/ QcKnown(q, T),
           new.prepare_qc = r.prepare_qc \/ QcKnown(new.prepare_qc, T),
           new.locked_qc = r.locked_qc \/ QcKnown(new.locked_qc, T),
           new.locked_qc.view <= new.view,
           \A m \in new.new_view_msgs : m \in r.new_view_msgs \/ QcKnown(m.justify, T),
           OnePerView(new),
           \A p \in new.proposals : p \in r.proposals \/ ProposalKnown(p, T),
           \A n \in new.ex.tree : n \in r.ex.tree \/ InSomeProposal(n, T),
           \A d \in new.ex.decided_nodes : d \in r.ex.decided_nodes \/ DecisionKnown(d, T),
           \A p \in new.out : p \in r.out \/ MessageKnown(p.msg, T)
    PROVE  Traced(S, i, new)
<1>. DEFINE R == [S EXCEPT ![i] = r]
<1>1. \A j \in Replicas : Grows(R[j], T[j])
  <2>. SUFFICES ASSUME NEW j \in Replicas PROVE Grows(R[j], T[j])
    OBVIOUS
  <2>1. CASE j = i
    BY <2>1 DEF MapOK
  <2>2. CASE j # i
    BY <2>2 DEF MapOK, Grows
  <2>. QED  BY <2>1, <2>2
<1>2. ReplicaOK(r) /\ ReplicaKnown(r, R) /\ Grows(S[i], r)
  BY DEF Traced, Along
<1>. HIDE DEF R
<1>3. ReplicaKnown(r, T)
  BY <1>1, <1>2, ReplicaKnownOn
<1>4. ReplicaKnown(new, T)
  BY <1>3 DEF ReplicaKnown
<1>5. Grows(S[i], new)
  BY <1>2 DEF Grows
<1>. QED  BY <1>4, <1>5 DEF Traced

\* What a fact about the cluster with r in node i's place says when r has grown.
LEMMA GrownOn ==
    ASSUME NEW S, MapOK(S), NEW i \in Replicas, NEW r, NEW new, Grows(r, new)
    PROVE  LET R == [S EXCEPT ![i] = r]
               T == [S EXCEPT ![i] = new]
           IN  /\ \A j \in Replicas : Grows(R[j], T[j])
               /\ \A v \in Nat : \A n : Proposed(v, n, R) => Proposed(v, n, T)
               /\ \A v : PreCommitted(v, R) => PreCommitted(v, T)
               /\ \A n : Validated(n, R) => Validated(n, T)
               /\ \A q \in OptQCs : QcKnown(q, R) => QcKnown(q, T)
<1>. DEFINE R == [S EXCEPT ![i] = r]
            T == [S EXCEPT ![i] = new]
<1>1. \A j \in Replicas : Grows(R[j], T[j])
  <2>. SUFFICES ASSUME NEW j \in Replicas PROVE Grows(R[j], T[j])
    OBVIOUS
  <2>1. CASE j = i
    BY <2>1 DEF MapOK
  <2>2. CASE j # i
    BY <2>2 DEF MapOK, Grows
  <2>. QED  BY <2>1, <2>2
<1>. HIDE DEF R, T
<1>2. /\ \A v \in Nat : \A n : Proposed(v, n, R) => Proposed(v, n, T)
      /\ \A v : PreCommitted(v, R) => PreCommitted(v, T)
      /\ \A n : Validated(n, R) => Validated(n, T)
  BY <1>1, KnownOn
<1>3. \A q \in OptQCs : QcKnown(q, R) => QcKnown(q, T)
  BY <1>1, MessagesOn
<1>. QED  BY <1>1, <1>2, <1>3 DEF R, T

\* Execution, timers and fire-once flags of the leader trace back to nothing.
LEMMA AsideTraced ==
    ASSUME NEW S, MapOK(S), NEW i \in Replicas, NEW r, Traced(S, i, r),
           NEW new, Along(S, i, new),
           new.view = r.view, new.voted = r.voted, new.prepare_qc = r.prepare_qc,
           new.locked_qc = r.locked_qc, new.votes = r.votes, new.staged = r.staged,
           new.new_view_msgs = r.new_view_msgs, new.proposals = r.proposals,
           new.broadcast = r.broadcast, new.id = r.id, new.out = r.out,
           new.ex.tree = r.ex.tree, new.ex.decided_nodes = r.ex.decided_nodes,
           r.ex.valid \subseteq new.ex.valid
    PROVE  Traced(S, i, new)
<1>1. Grows(r, new)
  BY DEF Grows
<1>2. OnePerView(new) /\ new.locked_qc.view <= new.view
  BY DEF Traced, ReplicaKnown, OnePerView
<1>. QED  BY <1>1, <1>2, StepTraced

\* enter_new_view reports the prepareQC.
LEMMA EnterNewViewTraced ==
    ASSUME NEW S, MapOK(S), NEW i \in Replicas, NEW r, Traced(S, i, r),
           NEW v \in Nat, r.view < v
    PROVE  Traced(S, i, enter_new_view(r, v))
<1>. DEFINE new == enter_new_view(r, v)
            T == [S EXCEPT ![i] = new]
            m == NewView(r.view, r.prepare_qc, r.id)
<1>1. ReplicaOK(r) /\ r.id = i /\ r.view \in Nat /\ r.locked_qc.view \in Nat
  BY OptQcFields DEF Traced, Along, ReplicaOK
<1>2. Along(S, i, new)
  BY EnterNewViewAlong DEF Traced
<1>3. /\ new.view = v /\ new.voted = r.voted /\ new.prepare_qc = r.prepare_qc
      /\ new.locked_qc = r.locked_qc /\ new.votes = r.votes /\ new.staged = r.staged
      /\ new.proposals = r.proposals /\ new.broadcast = r.broadcast /\ new.id = r.id
      /\ new.ex = r.ex
      /\ new.new_view_msgs \subseteq r.new_view_msgs \cup {m}
      /\ new.out \subseteq r.out \cup {[to |-> leader_for(v), msg |-> m]}
  BY <1>1 DEF enter_new_view, SendTo, ReplicaOK, ReplicaFields
<1>. HIDE DEF new
<1>4. Grows(r, new)
  BY <1>3 DEF Grows
<1>5. QcKnown(r.prepare_qc, T)
  BY <1>1, <1>4, GrownOn DEF Traced, ReplicaKnown, ReplicaOK
<1>6. m.justify = r.prepare_qc /\ m.kind = "NewView"
  BY DEF NewView
<1>. HIDE DEF m, T
<1>7. MessageKnown(m, T)
  BY <1>5, <1>6 DEF MessageKnown
<1>8. OnePerView(new) /\ new.locked_qc.view <= new.view
  BY <1>1, <1>3 DEF Traced, ReplicaKnown, OnePerView
<1>9. \A p \in new.out : p \in r.out \/ MessageKnown(p.msg, T)
  BY <1>3, <1>7
<1>10. \A x \in new.new_view_msgs : x \in r.new_view_msgs \/ QcKnown(x.justify, T)
  BY <1>3, <1>5, <1>6
<1>11. Traced(S, i, new)
  BY <1>2, <1>3, <1>4, <1>8, <1>9, <1>10, StepTraced DEF T
<1>. QED  BY <1>11 DEF new

\* A vote for the node proposed in the current view, cast after a known QC was
\* stored (base).
LEMMA CastVoteTraced ==
    ASSUME NEW S, MapOK(S), NEW i \in Replicas, NEW r, Traced(S, i, r),
           NEW R, R = [S EXCEPT ![i] = r],
           NEW base, ReplicaOK(base), base.id = r.id, base.view = r.view,
           base.voted = r.voted, base.broadcast = r.broadcast, base.ex = r.ex,
           base.votes = r.votes, base.staged = r.staged, base.proposals = r.proposals,
           base.new_view_msgs = r.new_view_msgs, base.out = r.out,
           QcKnown(base.prepare_qc, R), QcKnown(base.locked_qc, R),
           base.locked_qc.view <= r.view,
           NEW type \in VoteTypes, NEW n \in Nodes,
           Along(S, i, CastVote(base, type, n)),
           Proposed(r.view, n, R),
           type = "prepare" => n \in r.ex.valid,
           type # "prepare" => Validated(n, R),
           type = "commit" => PreCommitted(r.view, R)
    PROVE  Traced(S, i, CastVote(base, type, n))
<1>. DEFINE new == CastVote(base, type, n)
            T == [S EXCEPT ![i] = new]
            m == Vote(type, r.view, n, r.id)
<1>1. ReplicaOK(r) /\ r.id = i /\ r.view \in Nat
  BY DEF Traced, Along, ReplicaOK
<1>2. /\ new.view = r.view /\ new.voted = r.voted \cup {<< type, r.view >>}
      /\ new.prepare_qc = base.prepare_qc /\ new.locked_qc = base.locked_qc
      /\ new.staged = r.staged
      /\ new.proposals = r.proposals /\ new.new_view_msgs = r.new_view_msgs
      /\ new.broadcast = r.broadcast /\ new.id = r.id /\ new.ex = r.ex
      /\ new.votes \subseteq r.votes \cup {m}
      /\ new.out \subseteq r.out \cup {[to |-> leader_for(r.view), msg |-> m]}
  BY <1>1 DEF CastVote, SendTo, ReplicaOK, ReplicaFields
<1>3. T[i] = new
  BY DEF MapOK
<1>. HIDE DEF new
<1>4. Grows(r, new)
  BY <1>2 DEF Grows
<1>5. /\ Proposed(r.view, n, T)
      /\ type # "prepare" => Validated(n, T)
      /\ type = "commit" => PreCommitted(r.view, T)
      /\ QcKnown(new.prepare_qc, T) /\ QcKnown(new.locked_qc, T)
  BY <1>1, <1>2, <1>4, GrownOn DEF ReplicaOK
<1>6. m.kind = "Vote" /\ m.msg_type = type /\ m.view = r.view /\ m.node = n /\ m.voter = i
  BY <1>1 DEF Vote
<1>. HIDE DEF m, T
<1>7. VoteKnown(m, T)
  BY <1>2, <1>3, <1>5, <1>6 DEF VoteKnown
<1>8. MessageKnown(m, T)
  BY <1>6, <1>7 DEF MessageKnown
<1>9. OnePerView(new) /\ new.locked_qc.view <= new.view
  BY <1>2 DEF Traced, ReplicaKnown, OnePerView
<1>10. \A p \in new.out : p \in r.out \/ MessageKnown(p.msg, T)
  BY <1>2, <1>8
<1>11. \A x \in new.votes : x \in r.votes \/ VoteKnown(x, T)
  BY <1>2, <1>7
<1>12. Traced(S, i, new)
  BY <1>2, <1>4, <1>5, <1>9, <1>10, <1>11, StepTraced DEF T, new
<1>. QED  BY <1>12 DEF new

\* replica_prepare votes for a stored proposal it has validated.
LEMMA ReplicaPrepareTraced ==
    ASSUME NEW S, MapOK(S), NEW i \in Replicas, NEW r, Traced(S, i, r)
    PROVE  Traced(S, i, replica_prepare(r))
<1>. DEFINE ps == {x \in r.proposals : x.view = r.view}
            p == CHOOSE x \in ps : TRUE
            marked == [r EXCEPT !.voted = @ \cup {<< "prepare", r.view >>}]
            R == [S EXCEPT ![i] = r]
<1>0. ReplicaOK(r) /\ r.id = i /\ ReplicaKnown(r, R) /\ r.view \in Nat
  BY DEF Traced, Along, ReplicaOK
<1>1. Along(S, i, replica_prepare(r))
  BY ReplicaPrepareAlong DEF Traced
<1>2. CASE replica_prepare(r) = r
  BY <1>2
<1>3. CASE replica_prepare(r) = marked
  <2>1. Along(S, i, marked)
    BY <1>1, <1>3
  <2>2. /\ marked.voted = r.voted \cup {<< "prepare", r.view >>}
        /\ marked.view = r.view /\ marked.prepare_qc = r.prepare_qc
        /\ marked.locked_qc = r.locked_qc /\ marked.votes = r.votes
        /\ marked.staged = r.staged /\ marked.new_view_msgs = r.new_view_msgs
        /\ marked.proposals = r.proposals /\ marked.out = r.out
        /\ marked.broadcast = r.broadcast /\ marked.id = r.id /\ marked.ex = r.ex
    BY <1>0 DEF ReplicaOK, ReplicaFields
  <2>. HIDE DEF marked
  <2>3. Grows(r, marked)
    BY <2>2 DEF Grows
  <2>4. OnePerView(marked) /\ marked.locked_qc.view <= marked.view
    BY <1>0, <2>2 DEF ReplicaKnown, OnePerView
  <2>. QED  BY <1>3, <2>1, <2>2, <2>3, <2>4, StepTraced
<1>4. CASE /\ replica_prepare(r) = CastVote(r, "prepare", p.node)
           /\ ps # {} /\ p.node \in r.ex.valid
  <2>1. p \in r.proposals /\ p.view = r.view
    BY <1>4
  <2>2. p.node \in Nodes
    BY <1>0, <2>1 DEF ReplicaOK, Proposals
  <2>3. ProposalKnown(p, R)
    BY <1>0, <2>1 DEF ReplicaKnown
  <2>. HIDE DEF p, ps
  <2>4. Proposed(r.view, p.node, R)
    BY <2>1, <2>3 DEF ProposalKnown, Proposed
  <2>5. QcKnown(r.prepare_qc, R) /\ QcKnown(r.locked_qc, R) /\ r.locked_qc.view <= r.view
    BY <1>0 DEF ReplicaKnown
  <2>. QED  BY <1>0, <1>1, <1>4, <2>2, <2>4, <2>5, CastVoteTraced DEF VoteTypes
<1>. QED  BY <1>2, <1>3, <1>4 DEF replica_prepare

\* replica_pre_commit votes for the node of the prepareQC it stores.
LEMMA ReplicaPreCommitTraced ==
    ASSUME NEW S, MapOK(S), NEW i \in Replicas, NEW r, Traced(S, i, r)
    PROVE  Traced(S, i, replica_pre_commit(r))
<1>. DEFINE qc == CHOOSE q \in Staged(r, "prepare") : TRUE
            stored == [r EXCEPT !.prepare_qc = qc]
            R == [S EXCEPT ![i] = r]
<1>0. ReplicaOK(r) /\ r.id = i /\ ReplicaKnown(r, R)
  BY DEF Traced, Along
<1>1. Along(S, i, replica_pre_commit(r))
  BY ReplicaPreCommitAlong DEF Traced
<1>2. CASE replica_pre_commit(r) = r
  BY <1>2
<1>3. CASE /\ replica_pre_commit(r) = CastVote(stored, "pre_commit", qc.node)
           /\ Staged(r, "prepare") # {}
  <2>1. /\ qc \in r.staged /\ qc \in QCs /\ qc \in OptQCs
        /\ qc.view = r.view /\ qc.node \in Nodes /\ qc.msg_type = "prepare"
    BY <1>0, <1>3, StagedQc
  <2>. HIDE DEF qc
  <2>2. ReplicaOK(stored)
    BY <1>0, <2>1 DEF ReplicaOK, ReplicaFields
  <2>3. /\ stored.prepare_qc = qc /\ stored.locked_qc = r.locked_qc
        /\ stored.id = r.id /\ stored.view = r.view /\ stored.voted = r.voted
        /\ stored.broadcast = r.broadcast /\ stored.ex = r.ex /\ stored.votes = r.votes
        /\ stored.staged = r.staged /\ stored.proposals = r.proposals
        /\ stored.new_view_msgs = r.new_view_msgs /\ stored.out = r.out
    BY <1>0 DEF ReplicaOK, ReplicaFields
  <2>. HIDE DEF stored
  <2>4. QcKnown(qc, R) /\ QcKnown(r.locked_qc, R) /\ r.locked_qc.view <= r.view
    BY <1>0, <2>1 DEF ReplicaKnown
  <2>5. Proposed(r.view, qc.node, R) /\ Validated(qc.node, R)
    BY <2>1, <2>4 DEF QcKnown, NoQC
  <2>. QED  BY <1>1, <1>3, <2>1, <2>2, <2>3, <2>4, <2>5, CastVoteTraced DEF VoteTypes
<1>. QED  BY <1>2, <1>3 DEF replica_pre_commit

\* replica_commit votes for the node of the precommitQC it locks on.
LEMMA ReplicaCommitTraced ==
    ASSUME NEW S, MapOK(S), NEW i \in Replicas, NEW r, Traced(S, i, r)
    PROVE  Traced(S, i, replica_commit(r))
<1>. DEFINE qc == CHOOSE q \in Staged(r, "pre_commit") : TRUE
            stored == [r EXCEPT !.locked_qc = qc]
            R == [S EXCEPT ![i] = r]
<1>0. ReplicaOK(r) /\ r.id = i /\ ReplicaKnown(r, R) /\ ReplicaBacked(r, R)
  BY DEF Traced, Along
<1>1. Along(S, i, replica_commit(r))
  BY ReplicaCommitAlong DEF Traced
<1>2. CASE replica_commit(r) = r
  BY <1>2
<1>3. CASE /\ replica_commit(r) = CastVote(stored, "commit", qc.node)
           /\ Staged(r, "pre_commit") # {}
  <2>1. /\ qc \in r.staged /\ qc \in QCs /\ qc \in OptQCs
        /\ qc.view = r.view /\ qc.node \in Nodes /\ qc.msg_type = "pre_commit"
    BY <1>0, <1>3, StagedQc
  <2>. HIDE DEF qc
  <2>2. ReplicaOK(stored)
    BY <1>0, <2>1 DEF ReplicaOK, ReplicaFields
  <2>3. /\ stored.prepare_qc = r.prepare_qc /\ stored.locked_qc = qc
        /\ stored.id = r.id /\ stored.view = r.view /\ stored.voted = r.voted
        /\ stored.broadcast = r.broadcast /\ stored.ex = r.ex /\ stored.votes = r.votes
        /\ stored.staged = r.staged /\ stored.proposals = r.proposals
        /\ stored.new_view_msgs = r.new_view_msgs /\ stored.out = r.out
    BY <1>0 DEF ReplicaOK, ReplicaFields
  <2>. HIDE DEF stored
  <2>4. QcKnown(qc, R) /\ QcKnown(r.prepare_qc, R) /\ QcBacked(qc, R)
    BY <1>0, <2>1 DEF ReplicaKnown, ReplicaBacked
  <2>5. Proposed(r.view, qc.node, R) /\ Validated(qc.node, R)
    BY <2>1, <2>4 DEF QcKnown, NoQC
  <2>6. PreCommitted(r.view, R)
    BY <2>1, <2>4 DEF QcBacked, PreCommitted, QCs
  <2>7. qc.view <= r.view
    BY <1>0, <2>1 DEF ReplicaOK
  <2>. QED  BY <1>1, <1>3, <2>1, <2>2, <2>3, <2>4, <2>5, <2>6, <2>7, CastVoteTraced
            DEF VoteTypes
<1>. QED  BY <1>2, <1>3 DEF replica_commit

-----------------------------------------------------------------------------
\* The node of a QC, or of none, is a sequence of commands.
LEMMA QcNodeIsSeq ==
    ASSUME NEW q \in OptQCs
    PROVE  q.node \in Seq(Cmds)
<1>1. CASE q.node \in Nodes
  BY <1>1 DEF Nodes
<1>2. CASE q.node = GENESIS_HASH
  BY <1>2, SeqEmpty DEF GENESIS_HASH
<1>. QED  BY <1>1, <1>2, OptQcFields

\* leader_prepare: the fire-once flag makes the leader's proposal the only one of
\* its view, and highQC is one some NEW-VIEW of the view before reported.
LEMMA LeaderPrepareTraced ==
    ASSUME NEW S, MapOK(S), NEW i \in Replicas, NEW r, Traced(S, i, r)
    PROVE  Traced(S, i, leader_prepare(r))
<1>. DEFINE ms == NewViews(r)
            high == HighQc(ms)
            leaf == Append(high.node, Block(r.id, Len(high.node)))
            p == Proposal(r.view, leaf, high, r.id)
            sent == [StoreProposal(Broadcast(Learn(r, leaf), p), p)
                       EXCEPT !.broadcast = @ \cup {<< "proposal", r.view >>}]
            new == leader_prepare(r)
            R == [S EXCEPT ![i] = r]
            T == [S EXCEPT ![i] = new]
            guard == /\ leader_for(r.view) = r.id
                     /\ << "proposal", r.view >> \notin r.broadcast
                     /\ Cardinality(Senders(ms)) >= Quorum
                     /\ high = NoQC \/ high.node \in r.ex.tree
                     /\ Len(high.node) < NumBlocks
<1>0. ReplicaOK(r) /\ r.id = i /\ r.view \in Nat /\ ReplicaKnown(r, R)
  BY DEF Traced, Along, ReplicaOK
<1>1. CASE ~guard
  BY <1>1 DEF leader_prepare
<1>2. CASE guard
  <2>1. Along(S, i, new)
    BY LeaderPrepareAlong DEF Traced
  <2>2. new = Kick(sent, leaf)
    BY <1>2 DEF leader_prepare
  <2>3. /\ ms \subseteq NewViewMsgs /\ ms \subseteq r.new_view_msgs
        /\ \A m \in ms : m.view = r.view - 1
    BY <1>0 DEF NewViews, ReplicaOK
  <2>4. ms # {}
    BY <1>2, NoSendersNoQuorum
  <2>5. high \in OptQCs /\ \E m \in ms : high = m.justify
    BY <1>0, <2>3, <2>4, HighQcIsHighest
  <2>6. PICK m \in ms : high = m.justify
    BY <2>5
  <2>7. QcKnown(high, R) /\ high.view < r.view
    <3>1. QcKnown(high, R)
      BY <1>0, <2>3, <2>6 DEF ReplicaKnown
    <3>2. high.view <= m.view /\ m.view = r.view - 1 /\ high.view \in Nat
      BY <2>3, <2>5, <2>6, OptQcFields DEF NewViewMsgs
    <3>. QED  BY <1>0, <3>1, <3>2
  <2>8. leaf \in Nodes /\ Parent(leaf) = high.node
    <3>1. high.node \in Seq(Cmds) /\ Len(high.node) \in 0 .. NumBlocks - 1
      BY <1>2, <2>5, QcNodeIsSeq, SeqLen, SizeAssumption
    <3>2. Block(r.id, Len(high.node)) \in Cmds
      BY <1>0, <3>1, BlockIsCmd
    <3>. QED  BY <1>0, <1>2, <2>5, <3>1, <3>2, LeafIsNode, ParentOfAppend
  <2>9. \A x \in r.proposals : x.view # r.view
    BY <1>0, <1>2 DEF ReplicaKnown, OnePerView
  <2>. HIDE DEF ms, high, leaf
  <2>10. /\ p.kind = "Proposal" /\ p.view = r.view /\ p.node = leaf
         /\ p.justify = high
    BY DEF Proposal
  <2>. HIDE DEF p
  <2>11. ExecutionOK(sent.ex) /\ sent.ex.tree = r.ex.tree \cup {leaf}
         /\ sent.ex.decided_nodes = r.ex.decided_nodes /\ sent.ex.valid = r.ex.valid
    BY <1>0, <2>8 DEF StoreProposal, Broadcast, Learn, ReplicaOK, ReplicaFields, ExecutionOK,
         ExecutionFields
  <2>12. /\ sent.view = r.view /\ sent.voted = r.voted /\ sent.prepare_qc = r.prepare_qc
         /\ sent.locked_qc = r.locked_qc /\ sent.votes = r.votes /\ sent.staged = r.staged
         /\ sent.new_view_msgs = r.new_view_msgs /\ sent.id = r.id
         /\ sent.broadcast = r.broadcast \cup {<< "proposal", r.view >>}
         /\ sent.proposals = r.proposals \cup {p}
         /\ DOMAIN sent = ReplicaFields
         /\ \A x \in sent.out : x \in r.out \/ x.msg = p
    BY <1>0, <2>9, <2>10 DEF StoreProposal, Broadcast, Learn, ReplicaOK, ReplicaFields
  <2>. HIDE DEF sent
  <2>13. SameNodes(sent.ex, MaybeKickValidation(sent.id, sent.ex, leaf))
    BY <2>11, KickSameNodes
  <2>14. new = [sent EXCEPT !.ex = MaybeKickValidation(sent.id, sent.ex, leaf)]
    BY <2>2, <2>12 DEF Kick, ReplicaFields
  <2>15. /\ new.view = r.view /\ new.voted = r.voted /\ new.prepare_qc = r.prepare_qc
         /\ new.locked_qc = r.locked_qc /\ new.votes = r.votes /\ new.staged = r.staged
         /\ new.new_view_msgs = r.new_view_msgs /\ new.id = r.id
         /\ new.broadcast = r.broadcast \cup {<< "proposal", r.view >>}
         /\ new.proposals = r.proposals \cup {p}
         /\ \A x \in new.out : x \in r.out \/ x.msg = p
         /\ new.ex.tree = r.ex.tree \cup {leaf}
         /\ new.ex.decided_nodes = r.ex.decided_nodes /\ new.ex.valid = r.ex.valid
    BY <2>11, <2>12, <2>13, <2>14 DEF SameNodes, ReplicaFields
  <2>16. T[i] = new
    BY DEF MapOK
  <2>. HIDE DEF new
  <2>17. Grows(r, new)
    BY <2>15 DEF Grows
  <2>18. QcKnown(high, T)
    BY <2>5, <2>7, <2>17, GrownOn
  <2>. HIDE DEF T
  <2>19. ProposalKnown(p, T) /\ InSomeProposal(leaf, T)
    BY <1>0, <1>2, <2>7, <2>8, <2>10, <2>15, <2>16, <2>18
    DEF ProposalKnown, InSomeProposal
  <2>20. MessageKnown(p, T)
    BY <2>10, <2>19 DEF MessageKnown
  <2>21. OnePerView(new)
    BY <1>0, <2>9, <2>10, <2>15 DEF OnePerView, ReplicaKnown
  <2>22. new.locked_qc.view <= new.view
    BY <1>0, <2>15 DEF ReplicaKnown
  <2>23. \A x \in new.proposals : x \in r.proposals \/ ProposalKnown(x, T)
    BY <2>15, <2>19
  <2>24. \A x \in new.out : x \in r.out \/ MessageKnown(x.msg, T)
    BY <2>15, <2>20
  <2>25. \A n \in new.ex.tree : n \in r.ex.tree \/ InSomeProposal(n, T)
    BY <2>15, <2>19
  <2>26. Traced(S, i, new)
    BY <2>1, <2>15, <2>17, <2>21, <2>22, <2>23, <2>24, <2>25, StepTraced DEF T
  <2>. QED  BY <2>26 DEF new
<1>. QED  BY <1>1, <1>2

\* form_qc: the certificate of n - f PREPARE voters who validated the node, or of
\* later votes that say n - f did.
LEMMA LeaderAggregateTraced ==
    ASSUME NEW S, MapOK(S), NEW i \in Replicas, NEW r, Traced(S, i, r),
           NEW vote \in VoteTypes, NEW phase \in {"pre_commit", "commit", "decide"}
    PROVE  Traced(S, i, LeaderAggregate(r, vote, phase))
<1>. DEFINE qc == form_qc(r, vote, r.view)
            m == PhaseQc(phase, r.view, qc, r.id)
            marked == [Broadcast(r, m) EXCEPT !.broadcast = @ \cup {<< phase, r.view >>}]
            new == LeaderAggregate(r, vote, phase)
            R == [S EXCEPT ![i] = r]
            T == [S EXCEPT ![i] = new]
            quiet == \/ leader_for(r.view) # r.id
                     \/ << phase, r.view >> \in r.broadcast
                     \/ Certified(r, vote, r.view) = {}
<1>0. ReplicaOK(r) /\ r.id = i /\ r.view \in Nat /\ ReplicaKnown(r, R)
  BY DEF Traced, Along, ReplicaOK
<1>1. CASE quiet
  BY <1>1 DEF LeaderAggregate
<1>2. CASE ~quiet
  <2>1. Along(S, i, new)
    BY LeaderAggregateAlong DEF Traced
  <2>2. new = Stage(marked, qc)
    BY <1>2 DEF LeaderAggregate
  <2>3. /\ qc \in QCs /\ qc.msg_type = vote /\ qc.view = r.view
        /\ Cardinality(qc.sigs) >= Quorum /\ qc.sigs = Voters(r, vote, r.view, qc.node)
    BY <1>0, <1>2, FormQcOK
  <2>. HIDE DEF qc
  <2>4. m.kind = "PhaseQc" /\ m.justify = qc
    BY DEF PhaseQc
  <2>. HIDE DEF m
  <2>5. /\ new.view = r.view /\ new.voted = r.voted /\ new.prepare_qc = r.prepare_qc
        /\ new.locked_qc = r.locked_qc /\ new.votes = r.votes /\ new.id = r.id
        /\ new.new_view_msgs = r.new_view_msgs /\ new.proposals = r.proposals
        /\ new.ex = r.ex /\ r.broadcast \subseteq new.broadcast
        /\ new.staged \subseteq r.staged \cup {qc}
        /\ \A x \in new.out : x \in r.out \/ x.msg = m
    BY <1>0, <2>2 DEF Stage, Broadcast, ReplicaOK, ReplicaFields
  <2>. HIDE DEF new
  <2>6. Grows(r, new)
    BY <2>5 DEF Grows
  <2>7. ASSUME NEW s \in qc.sigs
        PROVE  \E x \in r.votes : /\ x.msg_type = vote /\ x.view = r.view
                                   /\ x.node = qc.node /\ x.voter = s /\ VoteKnown(x, R)
    BY <1>0, <2>3 DEF Voters, ReplicaKnown
  <2>8. PICK s \in qc.sigs : TRUE
    <3>. SUFFICES ASSUME qc.sigs = {} PROVE FALSE
      OBVIOUS
    <3>1. Cardinality(qc.sigs) = 0
      BY EmptySize
    <3>. QED  BY <2>3, <3>1, QuorumIsMajority
  <2>9. PICK x \in r.votes : /\ x.msg_type = vote /\ x.view = r.view
                             /\ x.node = qc.node /\ VoteKnown(x, R)
    BY <2>7, <2>8
  <2>10. /\ Proposed(r.view, qc.node, R)
         /\ vote = "commit" => PreCommitted(r.view, R)
         /\ vote # "prepare" => Validated(qc.node, R)
    BY <2>9 DEF VoteKnown
  <2>11. vote = "prepare" => Validated(qc.node, R)
    <3>. SUFFICES ASSUME vote = "prepare", NEW t \in qc.sigs
                  PROVE  qc.node \in R[t].ex.valid
      BY <2>3 DEF Validated, QCs
    <3>. QED  BY <2>7 DEF VoteKnown
  <2>12. QcKnown(qc, R)
    BY <2>3, <2>10, <2>11 DEF QcKnown
  <2>13. QcKnown(qc, T)
    BY <2>3, <2>6, <2>12, GrownOn DEF OptQCs
  <2>. HIDE DEF T, R
  <2>14. MessageKnown(m, T)
    BY <2>4, <2>13 DEF MessageKnown
  <2>15. OnePerView(new) /\ new.locked_qc.view <= new.view
    <3>1. OnePerView(r) /\ r.locked_qc.view <= r.view
      BY <1>0 DEF ReplicaKnown
    <3>. QED  BY <3>1, <2>5 DEF OnePerView
  <2>16. \A q \in new.staged : q \in r.staged \/ QcKnown(q, T)
    BY <2>5, <2>13
  <2>17. \A y \in new.out : y \in r.out \/ MessageKnown(y.msg, T)
    BY <2>5, <2>14
  <2>18. Traced(S, i, new)
    BY <2>1, <2>5, <2>6, <2>15, <2>16, <2>17, StepTraced DEF T
  <2>. QED  BY <2>18 DEF new
<1>. QED  BY <1>1, <1>2

\* Execution that learns, decides and unlearns nothing.
LEMMA ExecutionTraced ==
    ASSUME NEW S, MapOK(S), NEW i \in Replicas, NEW r, Traced(S, i, r),
           NEW ex, ExecutionOK(ex), ex.tree = r.ex.tree,
           ex.decided_nodes = r.ex.decided_nodes, r.ex.valid \subseteq ex.valid
    PROVE  Traced(S, i, [r EXCEPT !.ex = ex])
<1>. DEFINE new == [r EXCEPT !.ex = ex]
<1>1. ReplicaOK(r)
  BY DEF Traced, Along
<1>2. Along(S, i, new)
  BY ExecutionAlong DEF Traced
<1>3. /\ new.view = r.view /\ new.voted = r.voted /\ new.prepare_qc = r.prepare_qc
      /\ new.locked_qc = r.locked_qc /\ new.votes = r.votes /\ new.staged = r.staged
      /\ new.new_view_msgs = r.new_view_msgs /\ new.proposals = r.proposals
      /\ new.broadcast = r.broadcast /\ new.id = r.id /\ new.out = r.out /\ new.ex = ex
  BY <1>1 DEF ReplicaOK, ReplicaFields
<1>. HIDE DEF new
<1>4. Traced(S, i, new)
  BY <1>2, <1>3, AsideTraced
<1>. QED  BY <1>4 DEF new

\* replica_decide: the node of a commitQC is a decision that is known.
LEMMA ReplicaDecideTraced ==
    ASSUME NEW S, MapOK(S), NEW i \in Replicas, NEW r, Traced(S, i, r)
    PROVE  Traced(S, i, replica_decide(r))
<1>. DEFINE qc == CHOOSE q \in Staged(r, "commit") : TRUE
            decided == Decided(r.ex, qc.node)
            ex == TryExecuteChain(r.id, decided, qc.node)
            executed == [r EXCEPT !.ex = ex, !.timeout = 1]
            R == [S EXCEPT ![i] = r]
            T == [S EXCEPT ![i] = executed]
<1>0. ReplicaOK(r) /\ r.id = i /\ ReplicaKnown(r, R)
  BY DEF Traced, Along
<1>1. CASE Staged(r, "commit") = {}
  BY <1>1 DEF replica_decide
<1>2. CASE Staged(r, "commit") # {}
  <2>1. /\ qc \in r.staged /\ qc \in QCs /\ qc.node \in Nodes
        /\ qc.view = r.view /\ qc.msg_type = "commit"
    BY <1>0, <1>2, StagedQc
  <2>2. replica_decide(r) = enter_new_view(executed, r.view + 1)
    BY <1>2 DEF replica_decide
  <2>. HIDE DEF qc
  <2>3. QcKnown(qc, R) /\ qc # NoQC
    <3>1. QcKnown(qc, R)
      BY <1>0, <2>1 DEF ReplicaKnown
    <3>2. qc # NoQC
      BY <2>1 DEF NoQC
    <3>. QED  BY <3>1, <3>2
  <2>4. /\ ExecutionOK(decided) /\ decided.tree = r.ex.tree
        /\ decided.decided_nodes = r.ex.decided_nodes \cup {qc.node}
        /\ decided.valid = r.ex.valid
    BY <1>0, <2>1, DecidedOK DEF ReplicaOK, Decided, ExecutionOK, ExecutionFields
  <2>. HIDE DEF decided
  <2>5. ExecutionOK(ex) /\ SameNodes(decided, ex)
    BY <1>0, <2>1, <2>4, TryExecuteChainOK, ExecuteSameNodes DEF ReplicaOK
  <2>. HIDE DEF ex
  <2>6. /\ executed.view = r.view /\ executed.voted = r.voted
        /\ executed.prepare_qc = r.prepare_qc /\ executed.locked_qc = r.locked_qc
        /\ executed.votes = r.votes /\ executed.staged = r.staged
        /\ executed.new_view_msgs = r.new_view_msgs
        /\ executed.proposals = r.proposals /\ executed.out = r.out
        /\ executed.broadcast = r.broadcast /\ executed.id = r.id /\ executed.ex = ex
    BY <1>0 DEF ReplicaOK, ReplicaFields
  <2>7. Along(S, i, executed)
    <3>1. Keeps(r, executed)
      BY <1>0, <2>5 DEF Keeps, ReplicaOK, ReplicaFields
    <3>. HIDE DEF executed
    <3>. QED  BY <2>6, <3>1, AsideAlong DEF Traced
  <2>. HIDE DEF executed
  <2>8. Grows(r, executed)
    BY <2>4, <2>5, <2>6 DEF Grows, SameNodes
  <2>9. DecisionKnown(qc.node, R)
    <3>1. leader_for(qc.view) \in Replicas
      BY <2>1, LeaderIsReplica DEF QCs
    <3>. QED  BY <2>1, <2>3, <3>1 DEF QcKnown, DecisionKnown, Proposed
  <2>10. DecisionKnown(qc.node, T)
    BY <2>8, <2>9, GrownOn, KnownOn
  <2>11. OnePerView(executed) /\ executed.locked_qc.view <= executed.view
    <3>1. OnePerView(r) /\ r.locked_qc.view <= r.view
      BY <1>0 DEF ReplicaKnown
    <3>. QED  BY <3>1, <2>6 DEF OnePerView
  <2>12. \A d \in executed.ex.decided_nodes : d \in r.ex.decided_nodes \/ DecisionKnown(d, T)
    BY <2>4, <2>5, <2>6, <2>10 DEF SameNodes
  <2>13. \A n \in executed.ex.tree : n \in r.ex.tree
    BY <2>4, <2>5, <2>6 DEF SameNodes
  <2>14. Traced(S, i, executed)
    BY <2>6, <2>7, <2>8, <2>11, <2>12, <2>13, StepTraced
  <2>15. r.view + 1 \in Nat /\ executed.view < r.view + 1
    BY <1>0, <2>6 DEF ReplicaOK
  <2>. QED  BY <2>2, <2>14, <2>15, EnterNewViewTraced
<1>. QED  BY <1>1, <1>2

\* The last two calls of try_advance.
LEMMA ExecutePassTraced ==
    ASSUME NEW S, MapOK(S), NEW i \in Replicas, NEW r, Traced(S, i, r)
    PROVE  Traced(S, i, ExecutePass(r))
<1>. DEFINE ex1 == RetryPendingExecute(r.id, r.ex)
            ex2 == TryKickPendingValidations(r.id, ex1)
<1>1. ExecutionOK(r.ex) /\ r.id \in Replicas
  BY DEF Traced, Along, ReplicaOK
<1>2. ExecutionOK(ex1) /\ SameNodes(r.ex, ex1)
  BY <1>1, RetryPendingExecuteOK, ExecuteSameNodes
<1>. HIDE DEF ex1
<1>3. ExecutionOK(ex2) /\ SameNodes(ex1, ex2)
  BY <1>1, <1>2, TryKickPendingValidationsOK, ExecuteSameNodes
<1>. HIDE DEF ex2
<1>4. Traced(S, i, [r EXCEPT !.ex = ex2])
  BY <1>2, <1>3, ExecutionTraced DEF SameNodes
<1>. QED  BY <1>4 DEF ExecutePass, ex1, ex2

\* A whole try_advance pass, rule by rule.
LEMMA TryAdvanceTraced ==
    ASSUME NEW S, MapOK(S), NEW i \in Replicas, NEW r, Traced(S, i, r)
    PROVE  Traced(S, i, try_advance(r))
<1>. DEFINE r1 == leader_prepare(r)
            r2 == replica_prepare(r1)
            r3 == leader_pre_commit(r2)
            r4 == replica_pre_commit(r3)
            r5 == leader_commit(r4)
            r6 == replica_commit(r5)
            r7 == leader_decide(r6)
            r8 == replica_decide(r7)
<1>0. try_advance(r) = ExecutePass(r8)
  BY DEF try_advance
<1>1. Traced(S, i, r1)
  BY LeaderPrepareTraced
<1>. HIDE DEF r1
<1>2. Traced(S, i, r2)
  BY <1>1, ReplicaPrepareTraced
<1>. HIDE DEF r2
<1>3. Traced(S, i, r3)
  BY <1>2, LeaderAggregateTraced DEF leader_pre_commit, VoteTypes
<1>. HIDE DEF r3
<1>4. Traced(S, i, r4)
  BY <1>3, ReplicaPreCommitTraced
<1>. HIDE DEF r4
<1>5. Traced(S, i, r5)
  BY <1>4, LeaderAggregateTraced DEF leader_commit, VoteTypes
<1>. HIDE DEF r5
<1>6. Traced(S, i, r6)
  BY <1>5, ReplicaCommitTraced
<1>. HIDE DEF r6
<1>7. Traced(S, i, r7)
  BY <1>6, LeaderAggregateTraced DEF leader_decide, VoteTypes
<1>. HIDE DEF r7
<1>8. Traced(S, i, r8)
  BY <1>7, ReplicaDecideTraced
<1>. HIDE DEF r8
<1>. QED  BY <1>0, <1>8, ExecutePassTraced

-----------------------------------------------------------------------------
\* A turn starts where the last one ended.
LEMMA StartTraced ==
    ASSUME TypeOK, EvidenceHolds, OriginsHold, NEW i \in Replicas
    PROVE  MapOK(rs) /\ Traced(rs, i, rs[i])
<1>1. MapOK(rs) /\ Along(rs, i, rs[i])
  BY StartAlong
<1>2. Grows(rs[i], rs[i])
  BY DEF Grows
<1>. DEFINE T == [rs EXCEPT ![i] = rs[i]]
<1>3. \A j \in Replicas : Grows(rs[j], T[j])
  BY <1>1 DEF MapOK, Grows
<1>4. ReplicaOK(rs[i]) /\ ReplicaKnown(rs[i], rs)
  BY DEF TypeOK, OriginsHold
<1>. HIDE DEF T
<1>5. ReplicaKnown(rs[i], T)
  BY <1>3, <1>4, ReplicaKnownOn
<1>. QED  BY <1>1, <1>2, <1>5 DEF Traced, T

\* What is known of the cluster stays known with node i's record grown.
LEMMA StoredOn ==
    ASSUME TypeOK, NEW i \in Replicas, NEW new, Grows(rs[i], new)
    PROVE  LET T == [rs EXCEPT ![i] = new]
           IN  /\ \A j \in Replicas : Grows(rs[j], T[j])
               /\ \A p \in Packets : MessageKnown(p.msg, rs) => MessageKnown(p.msg, T)
<1>. DEFINE T == [rs EXCEPT ![i] = new]
<1>1. \A j \in Replicas : Grows(rs[j], T[j])
  <2>. SUFFICES ASSUME NEW j \in Replicas PROVE Grows(rs[j], T[j])
    OBVIOUS
  <2>1. CASE j = i
    BY <2>1 DEF TypeOK
  <2>2. CASE j # i
    BY <2>2 DEF TypeOK, Grows
  <2>. QED  BY <2>1, <2>2
<1>. HIDE DEF T
<1>2. \A p \in Packets : MessageKnown(p.msg, rs) => MessageKnown(p.msg, T)
  BY <1>1, MessagesOn
<1>. QED  BY <1>1, <1>2 DEF T

\* Every handler leaves a record that is traced.
LEMMA HandlersTraced ==
    ASSUME TypeOK, EvidenceHolds, OriginsHold, NEW i \in Replicas
    PROVE  /\ rs[i].view = 0 => Traced(rs, i, enter_new_view(rs[i], 1))
           /\ \A p \in net :
                 /\ p.msg.kind = "Proposal" => Traced(rs, i, handle_proposal(rs[i], p.msg))
                 /\ p.msg.kind = "PhaseQc" => Traced(rs, i, handle_phase_qc(rs[i], p.msg))
                 /\ p.msg.kind = "Vote" => Traced(rs, i, handle_vote(rs[i], p.msg))
                 /\ p.msg.kind = "NewView" => Traced(rs, i, handle_new_view(rs[i], p.msg))
           /\ rs[i].ex.queue # << >> => Traced(rs, i, handle_validation(rs[i]))
           /\ \A v : Traced(rs, i, handle_timer(rs[i], v))
<1>. DEFINE r == rs[i]
<1>1. MapOK(rs) /\ Traced(rs, i, r) /\ ReplicaOK(r) /\ r.id = i
  BY StartTraced DEF TypeOK
<1>2. OnePerView(r) /\ r.locked_qc.view <= r.view
  BY DEF OriginsHold, ReplicaKnown
<1>3. rs[i].view = 0 => Traced(rs, i, enter_new_view(rs[i], 1))
  BY <1>1, EnterNewViewTraced
<1>4. ASSUME NEW p \in net, p.msg.kind = "Proposal"
      PROVE  Traced(rs, i, handle_proposal(rs[i], p.msg))
  <2>. DEFINE m == p.msg
              learnt == Learn(r, m.node)
              stored == StoreProposal(learnt, m)
              new == handle_proposal(r, m)
              T == [rs EXCEPT ![i] = new]
  <2>1. m \in Proposals /\ p \in Packets /\ MessageKnown(m, rs)
    BY <1>4, PacketKinds DEF TypeOK, OriginsHold
  <2>2. ProposalKnown(m, rs)
    BY <1>4, <2>1 DEF MessageKnown
  <2>3. Along(rs, i, new)
    BY <1>4, HandlersAlong
  <2>4. CASE new = r
    BY <1>1, <2>4
  <2>5. CASE new = Kick(stored, m.node)
    <3>1. /\ DOMAIN stored = ReplicaFields
          /\ stored.view = r.view /\ stored.voted = r.voted
          /\ stored.prepare_qc = r.prepare_qc
          /\ stored.locked_qc = r.locked_qc /\ stored.votes = r.votes
          /\ stored.staged = r.staged /\ stored.new_view_msgs = r.new_view_msgs
          /\ stored.out = r.out /\ stored.broadcast = r.broadcast /\ stored.id = r.id
          /\ stored.ex = learnt.ex
          /\ \/ stored.proposals = r.proposals
             \/ /\ stored.proposals = r.proposals \cup {m}
                /\ \A x \in r.proposals : x.view # m.view
      BY <1>1 DEF StoreProposal, Learn, ReplicaOK, ReplicaFields
    <3>2. /\ ExecutionOK(learnt.ex) /\ learnt.ex.tree = r.ex.tree \cup {m.node}
          /\ learnt.ex.decided_nodes = r.ex.decided_nodes /\ learnt.ex.valid = r.ex.valid
      BY <1>1, <2>1 DEF Learn, ReplicaOK, ReplicaFields, ExecutionOK, ExecutionFields, Proposals
    <3>. HIDE DEF learnt, stored, m
    <3>3. SameNodes(stored.ex, MaybeKickValidation(stored.id, stored.ex, m.node))
      BY <3>1, <3>2, KickSameNodes
    <3>4. new = [stored EXCEPT !.ex = MaybeKickValidation(stored.id, stored.ex, m.node)]
      BY <2>5, <3>1 DEF Kick, ReplicaFields
    <3>5. /\ new.view = r.view /\ new.voted = r.voted /\ new.prepare_qc = r.prepare_qc
          /\ new.locked_qc = r.locked_qc /\ new.votes = r.votes
          /\ new.staged = r.staged /\ new.new_view_msgs = r.new_view_msgs
          /\ new.out = r.out /\ new.broadcast = r.broadcast /\ new.id = r.id
          /\ new.ex.tree = r.ex.tree \cup {m.node}
          /\ new.ex.decided_nodes = r.ex.decided_nodes /\ new.ex.valid = r.ex.valid
          /\ \/ new.proposals = r.proposals
             \/ /\ new.proposals = r.proposals \cup {m}
                /\ \A x \in r.proposals : x.view # m.view
      BY <3>1, <3>2, <3>3, <3>4 DEF SameNodes, ReplicaFields
    <3>. HIDE DEF new
    <3>6. Grows(r, new)
      BY <3>5 DEF Grows
    <3>7. \A j \in Replicas : Grows(rs[j], T[j])
      BY <3>6, StoredOn
    <3>8. ProposalKnown(m, T)
      BY <2>1, <2>2, <3>7, MessagesOn
    <3>9. InSomeProposal(m.node, T)
      <4>1. leader_for(m.view) \in Replicas
        BY <2>1, LeaderIsReplica DEF Proposals
      <4>. QED  BY <3>8, <4>1 DEF ProposalKnown, InSomeProposal
    <3>10. OnePerView(new)
      <4>1. CASE new.proposals = r.proposals
        BY <1>2, <3>5, <4>1 DEF OnePerView
      <4>2. CASE /\ new.proposals = r.proposals \cup {m}
                 /\ \A x \in r.proposals : x.view # m.view
        <5>1. leader_for(m.view) = i => m \in r.proposals
          BY <2>2 DEF ProposalKnown
        <5>2. leader_for(m.view) # i
          BY <4>2, <5>1
        <5>. QED  BY <1>1, <1>2, <3>5, <4>2, <5>2 DEF OnePerView
      <4>. QED  BY <3>5, <4>1, <4>2
    <3>11. \A x \in new.proposals : x \in r.proposals \/ ProposalKnown(x, T)
      BY <3>5, <3>8
    <3>12. \A n \in new.ex.tree : n \in r.ex.tree \/ InSomeProposal(n, T)
      BY <3>5, <3>9
    <3>13. new.locked_qc.view <= new.view
      BY <1>2, <3>5
    <3>. HIDE DEF r, T
    <3>14. Traced(rs, i, new)
      BY <1>1, <2>3, <3>5, <3>6, <3>10, <3>11, <3>12, <3>13, StepTraced DEF T
    <3>. QED  BY <3>14 DEF new, m, r
  <2>6. new = r \/ new = Kick(stored, m.node)
    BY DEF handle_proposal
  <2>. QED  BY <2>4, <2>5, <2>6
<1>5. ASSUME NEW p \in net, p.msg.kind = "PhaseQc"
      PROVE  Traced(rs, i, handle_phase_qc(rs[i], p.msg))
  <2>. DEFINE m == p.msg
              new == handle_phase_qc(r, m)
              T == [rs EXCEPT ![i] = new]
              q == m.justify
  <2>1. m \in PhaseQcs /\ MessageKnown(m, rs)
    BY <1>5, PacketKinds DEF TypeOK, OriginsHold
  <2>2. QcKnown(q, rs) /\ q \in QCs /\ q \in OptQCs
    BY <1>5, <2>1 DEF MessageKnown, PhaseQcs, OptQCs
  <2>3. Along(rs, i, new)
    BY <1>5, HandlersAlong
  <2>4. /\ new.view = r.view /\ new.voted = r.voted /\ new.prepare_qc = r.prepare_qc
        /\ new.locked_qc = r.locked_qc /\ new.votes = r.votes
        /\ new.new_view_msgs = r.new_view_msgs /\ new.proposals = r.proposals
        /\ new.out = r.out /\ new.broadcast = r.broadcast /\ new.id = r.id
        /\ new.staged \subseteq r.staged \cup {q}
    BY <1>1 DEF handle_phase_qc, Stage, ReplicaOK, ReplicaFields
  <2>5. /\ new.ex.tree = r.ex.tree /\ new.ex.valid = r.ex.valid
        /\ \/ new.ex.decided_nodes = r.ex.decided_nodes
           \/ /\ new.ex.decided_nodes = r.ex.decided_nodes \cup {q.node}
              /\ q.msg_type = "commit"
    BY <1>1
    DEF handle_phase_qc, Stage, Decided, QcTypeOf, ReplicaOK, ReplicaFields, ExecutionOK,
        ExecutionFields
  <2>. HIDE DEF new, m, q
  <2>6. Grows(r, new)
    BY <2>4, <2>5 DEF Grows
  <2>7. \A j \in Replicas : Grows(rs[j], T[j])
    BY <2>6, StoredOn
  <2>. HIDE DEF T
  <2>8. QcKnown(q, T)
    BY <2>2, <2>7, MessagesOn
  <2>9. q.msg_type = "commit" => DecisionKnown(q.node, T)
    <3>1. q # NoQC /\ leader_for(q.view) \in Replicas
      BY <2>2, LeaderIsReplica DEF QCs, NoQC, VoteTypes
    <3>. QED  BY <2>8, <3>1 DEF QcKnown, DecisionKnown, Proposed
  <2>10. OnePerView(new) /\ new.locked_qc.view <= new.view
    BY <1>2, <2>4 DEF OnePerView
  <2>11. \A x \in new.staged : x \in r.staged \/ QcKnown(x, T)
    BY <2>4, <2>8
  <2>12. \A d \in new.ex.decided_nodes : d \in r.ex.decided_nodes \/ DecisionKnown(d, T)
    BY <2>5, <2>9
  <2>. HIDE DEF r
  <2>13. Traced(rs, i, new)
    BY <1>1, <2>3, <2>4, <2>5, <2>6, <2>10, <2>11, <2>12, StepTraced DEF T
  <2>. QED  BY <2>13 DEF new, m, r
<1>6. ASSUME NEW p \in net, p.msg.kind = "Vote"
      PROVE  Traced(rs, i, handle_vote(rs[i], p.msg))
  <2>. DEFINE m == p.msg
              new == handle_vote(r, m)
              T == [rs EXCEPT ![i] = new]
  <2>1. m \in Votes /\ VoteKnown(m, rs)
    BY <1>6, PacketKinds DEF TypeOK, OriginsHold, MessageKnown
  <2>2. Along(rs, i, new)
    BY <1>6, HandlersAlong
  <2>3. /\ new.view = r.view /\ new.voted = r.voted /\ new.prepare_qc = r.prepare_qc
        /\ new.locked_qc = r.locked_qc /\ new.staged = r.staged
        /\ new.new_view_msgs = r.new_view_msgs /\ new.proposals = r.proposals
        /\ new.out = r.out /\ new.broadcast = r.broadcast /\ new.id = r.id
        /\ new.ex = r.ex /\ new.votes \subseteq r.votes \cup {m}
    BY <1>1 DEF handle_vote, ReplicaOK, ReplicaFields
  <2>. HIDE DEF new, m
  <2>4. Grows(r, new)
    BY <2>3 DEF Grows
  <2>5. \A j \in Replicas : Grows(rs[j], T[j])
    BY <2>4, StoredOn
  <2>. HIDE DEF T
  <2>6. \A x \in new.votes : x \in r.votes \/ VoteKnown(x, T)
    BY <2>1, <2>3, <2>5, MessagesOn
  <2>7. OnePerView(new) /\ new.locked_qc.view <= new.view
    BY <1>2, <2>3 DEF OnePerView
  <2>. HIDE DEF r
  <2>8. Traced(rs, i, new)
    BY <1>1, <2>2, <2>3, <2>4, <2>6, <2>7, StepTraced DEF T
  <2>. QED  BY <2>8 DEF new, m, r
<1>7. ASSUME NEW p \in net, p.msg.kind = "NewView"
      PROVE  Traced(rs, i, handle_new_view(rs[i], p.msg))
  <2>. DEFINE m == p.msg
              new == handle_new_view(r, m)
              T == [rs EXCEPT ![i] = new]
  <2>1. QcKnown(m.justify, rs) /\ m.justify \in OptQCs
    BY <1>7, PacketKinds DEF TypeOK, OriginsHold, MessageKnown, NewViewMsgs
  <2>2. Along(rs, i, new)
    BY <1>7, HandlersAlong
  <2>3. /\ new.view = r.view /\ new.voted = r.voted /\ new.prepare_qc = r.prepare_qc
        /\ new.locked_qc = r.locked_qc /\ new.staged = r.staged
        /\ new.votes = r.votes /\ new.proposals = r.proposals
        /\ new.out = r.out /\ new.broadcast = r.broadcast /\ new.id = r.id
        /\ new.ex = r.ex /\ new.new_view_msgs \subseteq r.new_view_msgs \cup {m}
    BY <1>1 DEF handle_new_view, ReplicaOK, ReplicaFields
  <2>. HIDE DEF new, m
  <2>4. Grows(r, new)
    BY <2>3 DEF Grows
  <2>5. \A j \in Replicas : Grows(rs[j], T[j])
    BY <2>4, StoredOn
  <2>. HIDE DEF T
  <2>6. \A x \in new.new_view_msgs : x \in r.new_view_msgs \/ QcKnown(x.justify, T)
    BY <2>1, <2>3, <2>5, MessagesOn
  <2>7. OnePerView(new) /\ new.locked_qc.view <= new.view
    BY <1>2, <2>3 DEF OnePerView
  <2>. HIDE DEF r
  <2>8. Traced(rs, i, new)
    BY <1>1, <2>2, <2>3, <2>4, <2>6, <2>7, StepTraced DEF T
  <2>. QED  BY <2>8 DEF new, m, r
<1>8. ASSUME rs[i].ex.queue # << >>
      PROVE  Traced(rs, i, handle_validation(rs[i]))
  <2>. DEFINE ex == IngestValidation(r.id, r.ex)
  <2>1. ExecutionOK(ex)
    BY <1>1, <1>8, IngestValidationOK DEF ReplicaOK
  <2>2. /\ ex.tree = r.ex.tree /\ ex.decided_nodes = r.ex.decided_nodes
        /\ r.ex.valid \subseteq ex.valid
    BY <1>1 DEF IngestValidation, ReplicaOK, ExecutionOK, ExecutionFields
  <2>. HIDE DEF ex
  <2>3. Traced(rs, i, [r EXCEPT !.ex = ex])
    BY <1>1, <2>1, <2>2, ExecutionTraced
  <2>. QED  BY <2>3 DEF handle_validation, ex
<1>9. ASSUME NEW v
      PROVE  Traced(rs, i, handle_timer(rs[i], v))
  <2>. DEFINE fired == [r EXCEPT !.timers = @ \ {v}]
              doubled == [fired EXCEPT !.timeout = 2 * @]
  <2>1. Keeps(r, fired) /\ Keeps(r, doubled)
    BY <1>1 DEF Keeps, ReplicaOK, ReplicaFields
  <2>2. \A new \in {fired, doubled} :
           /\ new.view = r.view /\ new.voted = r.voted
           /\ new.prepare_qc = r.prepare_qc /\ new.locked_qc = r.locked_qc
           /\ new.votes = r.votes /\ new.staged = r.staged
           /\ new.new_view_msgs = r.new_view_msgs
           /\ new.proposals = r.proposals /\ new.out = r.out
           /\ new.broadcast = r.broadcast /\ new.id = r.id /\ new.ex = r.ex
    BY <1>1 DEF ReplicaOK, ReplicaFields
  <2>3. handle_timer(r, v) \in {fired, enter_new_view(doubled, r.view + 1)}
    BY DEF handle_timer
  <2>. HIDE DEF fired, doubled
  <2>4. Along(rs, i, fired) /\ Along(rs, i, doubled)
    BY <1>1, <2>1, <2>2, StartAlong, AsideAlong
  <2>5. Traced(rs, i, fired) /\ Traced(rs, i, doubled)
    BY <1>1, <2>2, <2>4, AsideTraced
  <2>6. r.view + 1 \in Nat /\ doubled.view < r.view + 1
    BY <1>1, <2>2 DEF ReplicaOK
  <2>7. Traced(rs, i, enter_new_view(doubled, r.view + 1))
    BY <1>1, <2>5, <2>6, EnterNewViewTraced
  <2>. QED  BY <2>3, <2>5, <2>7
<1>. QED  BY <1>3, <1>4, <1>5, <1>6, <1>7, <1>8, <1>9

\* The end of a turn: what was collected in `out` is now in flight.
LEMMA TurnKeepsOrigins ==
    ASSUME TypeOK, OriginsHold, NEW i \in Replicas, NEW r, Traced(rs, i, r),
           NEW received, Turn(i, r, received)
    PROVE  OriginsHold'
<1>. DEFINE done == try_advance(r)
            last == Flush(done)
            T == [rs EXCEPT ![i] = done]
<1>1. MapOK(rs)
  BY DEF TypeOK, MapOK
<1>2. Traced(rs, i, done)
  BY <1>1, TryAdvanceTraced
<1>3. rs' = [rs EXCEPT ![i] = last] /\ net' = (net \ received) \cup done.out
  BY DEF Turn
<1>. HIDE DEF done
<1>4. ReplicaOK(done) /\ ReplicaKnown(done, T) /\ Grows(rs[i], done)
  BY <1>2 DEF Traced, Along
<1>5. /\ last.view = done.view /\ last.voted = done.voted
      /\ last.prepare_qc = done.prepare_qc /\ last.locked_qc = done.locked_qc
      /\ last.votes = done.votes /\ last.staged = done.staged
      /\ last.new_view_msgs = done.new_view_msgs
      /\ last.proposals = done.proposals /\ last.out = {}
      /\ last.broadcast = done.broadcast /\ last.id = done.id /\ last.ex = done.ex
  BY <1>4 DEF Flush, ReplicaOK, ReplicaFields
<1>. HIDE DEF last
<1>6. Grows(done, last) /\ Grows(rs[i], last)
  BY <1>4, <1>5 DEF Grows
<1>7. \A j \in Replicas : Grows(rs[j], rs'[j])
  BY <1>3, <1>6, StoredOn
<1>8. \A j \in Replicas : Grows(T[j], rs'[j])
  BY <1>1, <1>3, <1>6, GrownOn
<1>9. rs'[i] = last /\ \A j \in Replicas : j # i => rs'[j] = rs[j]
  BY <1>1, <1>3 DEF MapOK
<1>. HIDE DEF T
<1>10. ReplicaKnown(done, rs')
  BY <1>4, <1>8, ReplicaKnownOn
<1>11. ReplicaKnown(last, rs')
  BY <1>5, <1>10 DEF ReplicaKnown, OnePerView
<1>12. \A j \in Replicas : ReplicaKnown(rs'[j], rs')
  <2>. SUFFICES ASSUME NEW j \in Replicas, j # i PROVE ReplicaKnown(rs[j], rs')
    BY <1>9, <1>11
  <2>1. ReplicaOK(rs[j]) /\ ReplicaKnown(rs[j], rs)
    BY DEF TypeOK, OriginsHold
  <2>. QED  BY <1>7, <2>1, ReplicaKnownOn
<1>13. ASSUME NEW p \in net'
       PROVE  MessageKnown(p.msg, rs')
  <2>1. CASE p \in net
    <3>1. p \in Packets /\ MessageKnown(p.msg, rs)
      BY <2>1 DEF TypeOK, OriginsHold
    <3>. QED  BY <1>7, <3>1, MessagesOn
  <2>2. CASE p \in done.out
    BY <2>2, <1>10 DEF ReplicaKnown
  <2>. QED  BY <1>3, <1>13, <2>1, <2>2
<1>. QED  BY <1>12, <1>13 DEF OriginsHold

\* Every step keeps the origins of nodes and certificates.
LEMMA NextKeepsOrigins ==
    ASSUME TypeOK, EvidenceHolds, OriginsHold, [Next]_vars
    PROVE  OriginsHold'
<1>1. CASE UNCHANGED vars
  BY <1>1 DEF vars, OriginsHold
<1>2. CASE Next
  <2>1. \E i \in Replicas : \E r, received : Traced(rs, i, r) /\ Turn(i, r, received)
    BY <1>2, NextIsTurn, HandlersTraced
  <2>. QED  BY <2>1, TurnKeepsOrigins
<1>. QED  BY <1>1, <1>2

-----------------------------------------------------------------------------
\* Every vote, certificate, proposal, tree node and decision goes back to the one
\* proposal its leader stored for the view (leader_prepare) and to validations
\* and votes of n - f replicas (form_qc), in every cluster, for every workload,
\* whatever is lost or overtaken.
THEOREM OriginsAreKnown == Spec => [](TypeOK /\ EvidenceHolds /\ OriginsHold)
<1>1. Init => OriginsHold
  <2>. SUFFICES ASSUME Init PROVE OriginsHold
    OBVIOUS
  <2>1. ASSUME NEW i \in Replicas
        PROVE  ReplicaKnown(rs[i], rs)
    <3>1. /\ rs[i].votes = {} /\ rs[i].staged = {} /\ rs[i].prepare_qc = NoQC
          /\ rs[i].locked_qc = NoQC /\ rs[i].new_view_msgs = {} /\ rs[i].view = 0
          /\ rs[i].proposals = {} /\ rs[i].out = {}
          /\ rs[i].ex.tree = {} /\ rs[i].ex.decided_nodes = {}
      BY DEF Init, NewReplica, NewExecution
    <3>2. QcKnown(NoQC, rs) /\ NoQC.view <= 0
      BY DEF QcKnown, NoQC
    <3>. QED  BY <3>1, <3>2 DEF ReplicaKnown, OnePerView
  <2>. QED  BY <2>1 DEF OriginsHold, Init
<1>2. TypeOK /\ EvidenceHolds /\ OriginsHold /\ [Next]_vars => OriginsHold'
  BY NextKeepsOrigins
<1>. QED  BY <1>1, <1>2, EvidenceIsInvariant, PTL DEF Spec
=============================================================================
