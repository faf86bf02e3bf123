--------------------------- MODULE EvidenceProofs ---------------------------
(***************************************************************************)
(* EvidenceHolds is an invariant of every cluster.                         *)
(*                                                                         *)
(* A turn of node i's event loop is followed rule by rule: `Along(S, i, r)`*)
(* says that r is a record node i has on the way from S[i] to the end of   *)
(* its turn, and that everything r holds or is about to send is backed by  *)
(* the cluster as it is with r in the place of S[i].                       *)
(***************************************************************************)
EXTENDS Evidence, HotStuffProofs

MapOK(S) == DOMAIN S = Replicas /\ \A j \in Replicas : ReplicaOK(S[j]) /\ S[j].id = j

\* What no rule undoes: views grow, PRE-COMMIT votes stay cast, and a new one is
\* never for a view the replica has left.
Advances(r, new) ==
    /\ r.view <= new.view
    /\ PreCommits(r) \subseteq PreCommits(new)
    /\ \A w \in PreCommits(new) : w \in PreCommits(r) \/ r.view <= w

Along(S, i, r) ==
    /\ ReplicaOK(r) /\ r.id = i
    /\ Advances(S[i], r)
    /\ ReplicaBacked(r, [S EXCEPT ![i] = r])

-----------------------------------------------------------------------------
\* The views of a replica's PRE-COMMIT votes are views.
LEMMA PreCommitsAreViews ==
    ASSUME NEW r, ReplicaOK(r)
    PROVE  /\ PreCommits(r) \subseteq Nat
           /\ \A w : w \in PreCommits(r) <=> << "pre_commit", w >> \in r.voted
<1>1. \A f \in r.voted : f = << f[1], f[2] >> /\ f[2] \in Nat
  BY DEF ReplicaOK
<1>. QED  BY <1>1 DEF PreCommits

\* Two replica records with the same flags have the same PRE-COMMIT votes.
LEMMA SamePreCommits ==
    ASSUME NEW r, NEW new, new.voted = r.voted
    PROVE  PreCommits(new) = PreCommits(r)
  BY DEF PreCommits

\* Advancing is transitive.
LEMMA AdvancesOn ==
    ASSUME NEW a, NEW b, NEW c, ReplicaOK(a), ReplicaOK(b), ReplicaOK(c),
           Advances(a, b), Advances(b, c)
    PROVE  Advances(a, c)
<1>1. a.view \in Nat /\ b.view \in Nat /\ c.view \in Nat
  BY DEF ReplicaOK
<1>2. PreCommits(c) \subseteq Nat
  BY PreCommitsAreViews
<1>. QED  BY <1>1, <1>2 DEF Advances

\* A QC that covers a replica's votes up to a view it has left always will.
LEMMA CoversOn ==
    ASSUME NEW r, NEW new, ReplicaOK(r), ReplicaOK(new), Advances(r, new),
           NEW q, NEW last \in Int, last < r.view, Covers(q, last, r)
    PROVE  Covers(q, last, new)
<1>1. r.view \in Nat /\ PreCommits(new) \subseteq Nat
  BY PreCommitsAreViews DEF ReplicaOK
<1>. QED  BY <1>1 DEF Covers, Advances

\* What is backed stays backed when a replica advances.
LEMMA BackedOn ==
    ASSUME NEW S, MapOK(S), NEW T, MapOK(T),
           \A j \in Replicas : Advances(S[j], T[j])
    PROVE  /\ \A m \in Votes : VoteBacked(m, S) => VoteBacked(m, T)
           /\ \A q \in QCs : QcBacked(q, S) => QcBacked(q, T)
           /\ \A m \in NewViewMsgs : NewViewBacked(m, S) => NewViewBacked(m, T)
           /\ \A p \in Proposals : ProposalBacked(p, S) => ProposalBacked(p, T)
<1>1. ASSUME NEW m \in Votes, VoteBacked(m, S)
      PROVE  VoteBacked(m, T)
  BY <1>1 DEF VoteBacked, Votes, Advances
<1>2. ASSUME NEW q \in QCs, QcBacked(q, S)
      PROVE  QcBacked(q, T)
  <2>1. q.sigs \subseteq Replicas
    BY DEF QCs
  <2>. QED  BY <1>2, <2>1 DEF QcBacked, Advances
<1>3. ASSUME NEW m \in NewViewMsgs, NewViewBacked(m, S)
      PROVE  NewViewBacked(m, T)
  <2>1. m.sender \in Replicas /\ m.view \in Nat
    BY DEF NewViewMsgs
  <2>. DEFINE s == m.sender
  <2>2. ReplicaOK(S[s]) /\ ReplicaOK(T[s]) /\ Advances(S[s], T[s])
    BY <2>1 DEF MapOK
  <2>3. m.view < S[s].view /\ Covers(m.justify, m.view, S[s])
    BY <1>3 DEF NewViewBacked
  <2>4. Covers(m.justify, m.view, T[s])
    BY <2>1, <2>2, <2>3, CoversOn
  <2>5. m.view < T[s].view
    BY <2>1, <2>2, <2>3 DEF Advances, ReplicaOK
  <2>. QED  BY <2>4, <2>5 DEF NewViewBacked
<1>4. ASSUME NEW p \in Proposals, ProposalBacked(p, S)
      PROVE  ProposalBacked(p, T)
  <2>1. PICK Q \in SUBSET Replicas :
           /\ Cardinality(Q) >= Quorum
           /\ \A s \in Q : p.view <= S[s].view /\ Covers(p.justify, p.view - 1, S[s])
    BY <1>4 DEF ProposalBacked
  <2>2. p.view \in Nat
    BY DEF Proposals
  <2>3. ASSUME NEW s \in Q
        PROVE  p.view <= T[s].view /\ Covers(p.justify, p.view - 1, T[s])
    <3>1. ReplicaOK(S[s]) /\ ReplicaOK(T[s]) /\ Advances(S[s], T[s])
      BY <2>3 DEF MapOK
    <3>2. S[s].view \in Nat /\ T[s].view \in Nat /\ S[s].view <= T[s].view
      BY <3>1 DEF Advances, ReplicaOK
    <3>3. p.view - 1 \in Int /\ p.view - 1 < S[s].view /\ p.view <= S[s].view
      BY <2>1, <2>2, <3>2
    <3>4. Covers(p.justify, p.view - 1, T[s])
      BY <2>1, <3>1, <3>3, CoversOn
    <3>. QED  BY <2>2, <3>2, <3>3, <3>4
  <2>. QED  BY <2>1, <2>3 DEF ProposalBacked
<1>. QED  BY <1>1, <1>2, <1>3, <1>4

\* A message that is backed stays so.
LEMMA MessageBackedOn ==
    ASSUME NEW S, MapOK(S), NEW T, MapOK(T),
           \A j \in Replicas : Advances(S[j], T[j]),
           NEW p \in Packets, MessageBacked(p.msg, S)
    PROVE  MessageBacked(p.msg, T)
<1>1. p.msg.kind = "PhaseQc" => p.msg.justify \in QCs
  BY PacketKinds DEF PhaseQcs
<1>. QED  BY <1>1, PacketKinds, BackedOn DEF MessageBacked

\* Everything a replica holds stays backed when others, or it, advance.
LEMMA ReplicaBackedOn ==
    ASSUME NEW S, MapOK(S), NEW T, MapOK(T),
           \A j \in Replicas : Advances(S[j], T[j]),
           NEW r, ReplicaOK(r), ReplicaBacked(r, S)
    PROVE  ReplicaBacked(r, T)
<1>1. \A m \in r.votes : VoteBacked(m, T)
  BY BackedOn DEF ReplicaBacked, ReplicaOK
<1>2. \A q \in r.staged : QcBacked(q, T)
  BY BackedOn DEF ReplicaBacked, ReplicaOK
<1>3. r.locked_qc # NoQC => r.locked_qc.msg_type = "pre_commit" /\ QcBacked(r.locked_qc, T)
  BY BackedOn DEF ReplicaBacked, ReplicaOK, OptQCs
<1>4. \A m \in r.new_view_msgs : NewViewBacked(m, T)
  BY BackedOn DEF ReplicaBacked, ReplicaOK
<1>5. \A p \in r.proposals : ProposalBacked(p, T)
  BY BackedOn DEF ReplicaBacked, ReplicaOK
<1>6. \A p \in r.out : MessageBacked(p.msg, T)
  BY MessageBackedOn DEF ReplicaBacked, ReplicaOK
<1>. QED  BY <1>1, <1>2, <1>3, <1>4, <1>5, <1>6 DEF ReplicaBacked

-----------------------------------------------------------------------------
\* One step along a turn: what the new record did not have before has to be
\* backed, the rest is.
LEMMA StepAlong ==
    ASSUME NEW S, MapOK(S), NEW i \in Replicas, NEW r, Along(S, i, r),
           NEW new, Keeps(r, new), Advances(r, new),
           NEW T, T = [S EXCEPT ![i] = new],
           \A w \in PreCommits(new) : w <= new.view /\ w <= new.prepare_qc.view,
           \A m \in new.votes : m \in r.votes \/ VoteBacked(m, T),
           \A q \in new.staged : q \in r.staged \/ QcBacked(q, T),
           \/ new.locked_qc = r.locked_qc
           \/ new.locked_qc.msg_type = "pre_commit" /\ QcBacked(new.locked_qc, T),
           \A m \in new.new_view_msgs : m \in r.new_view_msgs \/ NewViewBacked(m, T),
           \A p \in new.proposals : p \in r.proposals \/ ProposalBacked(p, T),
           \A p \in new.out : p \in r.out \/ MessageBacked(p.msg, T)
    PROVE  Along(S, i, new)
<1>. DEFINE R == [S EXCEPT ![i] = r]
<1>1. MapOK(R) /\ MapOK(T)
  BY DEF MapOK, Along, Keeps
<1>2. \A j \in Replicas : Advances(R[j], T[j])
  <2>. SUFFICES ASSUME NEW j \in Replicas PROVE Advances(R[j], T[j])
    OBVIOUS
  <2>1. CASE j = i
    BY <2>1 DEF MapOK
  <2>2. CASE j # i
    <3>1. R[j] = S[j] /\ T[j] = S[j] /\ S[j].view \in Nat
      BY <2>2 DEF MapOK, ReplicaOK
    <3>. QED  BY <3>1 DEF Advances
  <2>. QED  BY <2>1, <2>2
<1>3. ReplicaOK(r) /\ ReplicaOK(new) /\ new.id = i /\ ReplicaBacked(r, R)
  BY DEF Along, Keeps
<1>4. Advances(S[i], new)
  BY <1>3, AdvancesOn DEF Along, MapOK
<1>. HIDE DEF R
<1>5. ReplicaBacked(r, T)
  BY <1>1, <1>2, <1>3, ReplicaBackedOn
<1>6. ReplicaBacked(new, T)
  BY <1>5 DEF ReplicaBacked
<1>. QED  BY <1>3, <1>4, <1>6 DEF Along

\* Validation, execution, timers and the leader's fire-once flags have no part
\* in the evidence.
LEMMA AsideAlong ==
    ASSUME NEW S, MapOK(S), NEW i \in Replicas, NEW r, Along(S, i, r),
           NEW new, Keeps(r, new),
           new.view = r.view, new.voted = r.voted, new.prepare_qc = r.prepare_qc,
           new.locked_qc = r.locked_qc, new.votes = r.votes, new.staged = r.staged,
           new.new_view_msgs = r.new_view_msgs, new.proposals = r.proposals,
           new.out = r.out
    PROVE  Along(S, i, new)
<1>1. PreCommits(new) = PreCommits(r)
  BY SamePreCommits
<1>2. Advances(r, new)
  BY <1>1 DEF Advances, Along, ReplicaOK
<1>3. \A w \in PreCommits(new) : w <= new.view /\ w <= new.prepare_qc.view
  BY <1>1 DEF Along, ReplicaBacked
<1>. QED  BY <1>2, <1>3, StepAlong

\* enter_new_view: the NEW-VIEW it sends reports a prepareQC as new as every
\* PRE-COMMIT vote of the views left behind.
LEMMA EnterNewViewAlong ==
    ASSUME NEW S, MapOK(S), NEW i \in Replicas, NEW r, Along(S, i, r),
           NEW v \in Nat, r.view < v
    PROVE  Along(S, i, enter_new_view(r, v))
<1>. DEFINE new == enter_new_view(r, v)
            T == [S EXCEPT ![i] = new]
            m == NewView(r.view, r.prepare_qc, r.id)
<1>1. ReplicaOK(r) /\ r.id = i /\ r.view \in Nat
  BY DEF Along, ReplicaOK
<1>2. Keeps(r, new)
  BY <1>1, EnterNewViewOK
<1>3. /\ new.view = v /\ new.voted = r.voted /\ new.prepare_qc = r.prepare_qc
      /\ new.locked_qc = r.locked_qc /\ new.votes = r.votes /\ new.staged = r.staged
      /\ new.proposals = r.proposals
      /\ new.new_view_msgs \subseteq r.new_view_msgs \cup {m}
      /\ new.out \subseteq r.out \cup {[to |-> leader_for(v), msg |-> m]}
  BY <1>1 DEF enter_new_view, SendTo, ReplicaOK, ReplicaFields
<1>4. PreCommits(new) = PreCommits(r) /\ PreCommits(r) \subseteq Nat
  BY <1>1, <1>3, SamePreCommits, PreCommitsAreViews
<1>5. T[i] = new
  BY DEF MapOK
<1>. HIDE DEF new
<1>6. \A w \in PreCommits(r) : w <= r.view /\ w <= r.prepare_qc.view
  BY DEF Along, ReplicaBacked
<1>7. NewViewBacked(m, T) /\ m.kind = "NewView"
  BY <1>1, <1>3, <1>4, <1>5, <1>6 DEF NewView, NewViewBacked, Covers
<1>8. MessageBacked(m, T)
  BY <1>7 DEF MessageBacked
<1>. HIDE DEF m
<1>9. Advances(r, new)
  BY <1>1, <1>3, <1>4 DEF Advances
<1>10. \A w \in PreCommits(new) : w <= new.view /\ w <= new.prepare_qc.view
  BY <1>1, <1>3, <1>4, <1>6
<1>. HIDE DEF T
<1>11. \A p \in new.out : p \in r.out \/ MessageBacked(p.msg, T)
  BY <1>3, <1>8
<1>12. \A x \in new.new_view_msgs : x \in r.new_view_msgs \/ NewViewBacked(x, T)
  BY <1>3, <1>7
<1>13. Along(S, i, new)
  BY <1>2, <1>3, <1>9, <1>10, <1>11, <1>12, StepAlong DEF T
<1>. QED  BY <1>13 DEF new

\* A vote sets the flag it is backed by; a PRE-COMMIT vote is only cast in the
\* view of the prepareQC just stored.
LEMMA CastVoteAlong ==
    ASSUME NEW S, MapOK(S), NEW i \in Replicas, NEW r, Along(S, i, r),
           NEW type \in VoteTypes, NEW n \in Nodes,
           type = "pre_commit" => r.prepare_qc.view = r.view
    PROVE  Along(S, i, CastVote(r, type, n))
<1>. DEFINE new == CastVote(r, type, n)
            T == [S EXCEPT ![i] = new]
            m == Vote(type, r.view, n, r.id)
<1>1. ReplicaOK(r) /\ r.id = i /\ r.view \in Nat
  BY DEF Along, ReplicaOK
<1>2. Keeps(r, new)
  BY <1>1, CastVoteOK
<1>3. /\ new.view = r.view /\ new.voted = r.voted \cup {<< type, r.view >>}
      /\ new.prepare_qc = r.prepare_qc
      /\ new.locked_qc = r.locked_qc /\ new.staged = r.staged
      /\ new.proposals = r.proposals /\ new.new_view_msgs = r.new_view_msgs
      /\ new.votes \subseteq r.votes \cup {m}
      /\ new.out \subseteq r.out \cup {[to |-> leader_for(r.view), msg |-> m]}
  BY <1>1 DEF CastVote, SendTo, ReplicaOK, ReplicaFields
<1>4. T[i] = new
  BY DEF MapOK
<1>. HIDE DEF new
<1>5. /\ \A w : w \in PreCommits(new) <=> << "pre_commit", w >> \in new.voted
      /\ \A w : w \in PreCommits(r) <=> << "pre_commit", w >> \in r.voted
      /\ PreCommits(r) \subseteq Nat
  BY <1>1, <1>2, PreCommitsAreViews DEF Keeps
<1>6. \A w : w \in PreCommits(new) <=>
           w \in PreCommits(r) \/ (type = "pre_commit" /\ w = r.view)
  BY <1>3, <1>5
<1>7. \A w \in PreCommits(r) : w <= r.view /\ w <= r.prepare_qc.view
  BY DEF Along, ReplicaBacked
<1>8. VoteBacked(m, T) /\ m.kind = "Vote"
  BY <1>1, <1>4, <1>6 DEF Vote, VoteBacked
<1>9. MessageBacked(m, T)
  BY <1>8 DEF MessageBacked
<1>. HIDE DEF m
<1>10. Advances(r, new)
  BY <1>1, <1>3, <1>6 DEF Advances
<1>11. \A w \in PreCommits(new) : w <= new.view /\ w <= new.prepare_qc.view
  BY <1>1, <1>3, <1>6, <1>7
<1>. HIDE DEF T
<1>12. \A p \in new.out : p \in r.out \/ MessageBacked(p.msg, T)
  BY <1>3, <1>9
<1>13. \A x \in new.votes : x \in r.votes \/ VoteBacked(x, T)
  BY <1>3, <1>8
<1>14. Along(S, i, new)
  BY <1>2, <1>3, <1>10, <1>11, <1>12, <1>13, StepAlong DEF T
<1>. QED  BY <1>14 DEF new

\* replica_prepare casts a PREPARE vote, or only sets its flag.
LEMMA ReplicaPrepareAlong ==
    ASSUME NEW S, MapOK(S), NEW i \in Replicas, NEW r, Along(S, i, r)
    PROVE  Along(S, i, replica_prepare(r))
<1>. DEFINE ps == {x \in r.proposals : x.view = r.view}
            p == CHOOSE x \in ps : TRUE
            marked == [r EXCEPT !.voted = @ \cup {<< "prepare", r.view >>}]
<1>0. ReplicaOK(r) /\ r.id = i
  BY DEF Along
<1>1. ps # {} => p.node \in Nodes
  BY <1>0 DEF ReplicaOK, Proposals
<1>2. Along(S, i, marked)
  <2>1. Keeps(r, marked)
    BY <1>0 DEF Keeps, ReplicaOK, ReplicaFields, VoteTypes
  <2>2. marked.voted = r.voted \cup {<< "prepare", r.view >>}
    BY <1>0 DEF ReplicaOK, ReplicaFields
  <2>3. /\ marked.view = r.view /\ marked.prepare_qc = r.prepare_qc
        /\ marked.locked_qc = r.locked_qc /\ marked.votes = r.votes
        /\ marked.staged = r.staged /\ marked.new_view_msgs = r.new_view_msgs
        /\ marked.proposals = r.proposals /\ marked.out = r.out
    BY <1>0 DEF ReplicaOK, ReplicaFields
  <2>. HIDE DEF marked
  <2>4. \A w : w \in PreCommits(marked) <=> w \in PreCommits(r)
    BY <1>0, <2>1, <2>2, PreCommitsAreViews DEF Keeps
  <2>5. Advances(r, marked)
    BY <1>0, <2>3, <2>4 DEF Advances, ReplicaOK
  <2>6. \A w \in PreCommits(marked) : w <= marked.view /\ w <= marked.prepare_qc.view
    BY <2>3, <2>4 DEF Along, ReplicaBacked
  <2>. QED  BY <2>1, <2>3, <2>5, <2>6, StepAlong
<1>3. ps # {} => Along(S, i, CastVote(r, "prepare", p.node))
  BY <1>1, CastVoteAlong DEF VoteTypes
<1>. QED  BY <1>2, <1>3 DEF replica_prepare

\* replica_pre_commit stores the prepareQC of the view it then votes in.
LEMMA ReplicaPreCommitAlong ==
    ASSUME NEW S, MapOK(S), NEW i \in Replicas, NEW r, Along(S, i, r)
    PROVE  Along(S, i, replica_pre_commit(r))
<1>. DEFINE qc == CHOOSE q \in Staged(r, "prepare") : TRUE
            stored == [r EXCEPT !.prepare_qc = qc]
<1>0. ReplicaOK(r) /\ r.id = i
  BY DEF Along
<1>1. CASE Staged(r, "prepare") = {}
  BY <1>1 DEF replica_pre_commit
<1>2. CASE Staged(r, "prepare") # {}
  <2>1. qc \in OptQCs /\ qc.view = r.view /\ qc.node \in Nodes
    BY <1>0, <1>2, StagedQc
  <2>2. replica_pre_commit(r) = IF << "pre_commit", r.view >> \in r.voted THEN r
                                ELSE CastVote(stored, "pre_commit", qc.node)
    BY <1>2 DEF replica_pre_commit
  <2>. HIDE DEF qc
  <2>3. Keeps(r, stored)
    BY <1>0, <2>1 DEF Keeps, ReplicaOK, ReplicaFields
  <2>4. /\ stored.view = r.view /\ stored.prepare_qc = qc /\ stored.voted = r.voted
        /\ stored.locked_qc = r.locked_qc /\ stored.votes = r.votes
        /\ stored.staged = r.staged /\ stored.new_view_msgs = r.new_view_msgs
        /\ stored.proposals = r.proposals /\ stored.out = r.out
    BY <1>0 DEF ReplicaOK, ReplicaFields
  <2>. HIDE DEF stored
  <2>5. PreCommits(stored) = PreCommits(r)
    BY <2>4, SamePreCommits
  <2>6. Advances(r, stored)
    BY <1>0, <2>4, <2>5 DEF Advances, ReplicaOK
  <2>7. \A w \in PreCommits(stored) : w <= stored.view /\ w <= stored.prepare_qc.view
    BY <2>1, <2>4, <2>5 DEF Along, ReplicaBacked
  <2>8. Along(S, i, stored)
    BY <2>3, <2>4, <2>6, <2>7, StepAlong
  <2>9. Along(S, i, CastVote(stored, "pre_commit", qc.node))
    BY <2>1, <2>4, <2>8, CastVoteAlong DEF VoteTypes
  <2>. QED  BY <2>2, <2>9
<1>. QED  BY <1>1, <1>2

\* replica_commit locks on a staged precommitQC.
LEMMA ReplicaCommitAlong ==
    ASSUME NEW S, MapOK(S), NEW i \in Replicas, NEW r, Along(S, i, r)
    PROVE  Along(S, i, replica_commit(r))
<1>. DEFINE qc == CHOOSE q \in Staged(r, "pre_commit") : TRUE
            stored == [r EXCEPT !.locked_qc = qc]
            T == [S EXCEPT ![i] = stored]
<1>0. ReplicaOK(r) /\ r.id = i
  BY DEF Along
<1>1. CASE Staged(r, "pre_commit") = {}
  BY <1>1 DEF replica_commit
<1>2. CASE Staged(r, "pre_commit") # {}
  <2>1. /\ qc \in r.staged /\ qc \in QCs /\ qc \in OptQCs
        /\ qc.msg_type = "pre_commit" /\ qc.node \in Nodes
    BY <1>0, <1>2, StagedQc
  <2>2. replica_commit(r) = IF << "commit", r.view >> \in r.voted THEN r
                            ELSE CastVote(stored, "commit", qc.node)
    BY <1>2 DEF replica_commit
  <2>. HIDE DEF qc
  <2>3. Keeps(r, stored)
    BY <1>0, <2>1 DEF Keeps, ReplicaOK, ReplicaFields
  <2>4. /\ stored.view = r.view /\ stored.prepare_qc = r.prepare_qc
        /\ stored.voted = r.voted /\ stored.locked_qc = qc /\ stored.votes = r.votes
        /\ stored.staged = r.staged /\ stored.new_view_msgs = r.new_view_msgs
        /\ stored.proposals = r.proposals /\ stored.out = r.out
    BY <1>0 DEF ReplicaOK, ReplicaFields
  <2>5. T[i] = stored /\ \A j \in Replicas : j # i => T[j] = S[j]
    BY DEF MapOK
  <2>. HIDE DEF stored
  <2>6. PreCommits(stored) = PreCommits(r)
    BY <2>4, SamePreCommits
  <2>7. Advances(r, stored)
    BY <1>0, <2>4, <2>6 DEF Advances, ReplicaOK
  <2>8. \A w \in PreCommits(stored) : w <= stored.view /\ w <= stored.prepare_qc.view
    BY <2>4, <2>6 DEF Along, ReplicaBacked
  <2>9. QcBacked(qc, T)
    <3>1. QcBacked(qc, [S EXCEPT ![i] = r])
      BY <2>1 DEF Along, ReplicaBacked
    <3>2. qc.sigs \subseteq Replicas
      BY <2>1 DEF QCs
    <3>3. \A s \in Replicas : PreCommits(T[s]) = PreCommits([S EXCEPT ![i] = r][s])
      BY <2>5, <2>6 DEF MapOK
    <3>. HIDE DEF T
    <3>. QED  BY <3>1, <3>2, <3>3 DEF QcBacked
  <2>10. Along(S, i, stored)
    BY <2>1, <2>3, <2>4, <2>7, <2>8, <2>9, StepAlong
  <2>11. Along(S, i, CastVote(stored, "commit", qc.node))
    BY <2>1, <2>10, CastVoteAlong DEF VoteTypes
  <2>. QED  BY <2>2, <2>11
<1>. QED  BY <1>1, <1>2

\* leader_prepare: the senders of the NEW-VIEWs it counts are the n - f
\* replicas whose PRE-COMMIT votes highQC covers.
LEMMA LeaderPrepareAlong ==
    ASSUME NEW S, MapOK(S), NEW i \in Replicas, NEW r, Along(S, i, r)
    PROVE  Along(S, i, leader_prepare(r))
<1>. DEFINE ms == NewViews(r)
            high == HighQc(ms)
            leaf == Append(high.node, Block(r.id, Len(high.node)))
            p == Proposal(r.view, leaf, high, r.id)
            sent == [StoreProposal(Broadcast(Learn(r, leaf), p), p)
                       EXCEPT !.broadcast = @ \cup {<< "proposal", r.view >>}]
            new == leader_prepare(r)
            R == [S EXCEPT ![i] = r]
            T == [S EXCEPT ![i] = new]
            guard == /\ leader_for(r.view) = r.id
                     /\ << "proposal", r.view >> \notin r.broadcast
                     /\ Cardinality(Senders(ms)) >= Quorum
                     /\ high = NoQC \/ high.node \in r.ex.tree
                     /\ Len(high.node) < NumBlocks
<1>0. ReplicaOK(r) /\ r.id = i /\ r.view \in Nat
  BY DEF Along, ReplicaOK
<1>1. CASE ~guard
  BY <1>1 DEF leader_prepare
<1>2. CASE guard
  <2>1. Keeps(r, new)
    BY <1>0, LeaderPrepareOK
  <2>2. new = Kick(sent, leaf)
    BY <1>2 DEF leader_prepare
  <2>3. /\ ms \subseteq NewViewMsgs /\ ms \subseteq r.new_view_msgs
        /\ \A m \in ms : m.view = r.view - 1
    BY <1>0 DEF NewViews, ReplicaOK
  <2>4. ms # {}
    BY <1>2, NoSendersNoQuorum
  <2>5. high \in OptQCs /\ \A m \in ms : m.justify.view <= high.view
    BY <1>0, <2>3, <2>4, HighQcIsHighest
  <2>. HIDE DEF ms, high, leaf, p
  <2>6. /\ new.view = r.view /\ new.voted = r.voted /\ new.prepare_qc = r.prepare_qc
        /\ new.locked_qc = r.locked_qc /\ new.votes = r.votes /\ new.staged = r.staged
        /\ new.new_view_msgs = r.new_view_msgs
        /\ new.proposals \subseteq r.proposals \cup {p}
        /\ \A x \in new.out : x \in r.out \/ x.msg = p
    BY <1>0, <2>2 DEF Kick, StoreProposal, Broadcast, Learn, ReplicaOK, ReplicaFields
  <2>7. /\ R[i] = r /\ T[i] = new
        /\ \A j \in Replicas : j # i => R[j] = S[j] /\ T[j] = S[j]
    BY DEF MapOK
  <2>. HIDE DEF new
  <2>8. PreCommits(new) = PreCommits(r)
    BY <2>6, SamePreCommits
  <2>9. \A j \in Replicas : /\ T[j].view = R[j].view /\ R[j].view \in Nat
                            /\ PreCommits(T[j]) = PreCommits(R[j])
                            /\ PreCommits(R[j]) \subseteq Nat
    <3>1. \A j \in Replicas : ReplicaOK(R[j])
      BY <1>0, <2>7 DEF MapOK
    <3>2. \A j \in Replicas : R[j].view \in Nat /\ PreCommits(R[j]) \subseteq Nat
      BY <3>1, PreCommitsAreViews DEF ReplicaOK
    <3>3. \A j \in Replicas : T[j].view = R[j].view /\ PreCommits(T[j]) = PreCommits(R[j])
      BY <2>6, <2>7, <2>8
    <3>. QED  BY <3>2, <3>3
  <2>10. ReplicaBacked(r, R)
    BY DEF Along
  <2>. HIDE DEF R, T
  <2>11. ProposalBacked(p, T) /\ p.kind = "Proposal"
    <3>1. p.kind = "Proposal" /\ p.view = r.view /\ p.justify = high
      BY DEF p, Proposal
    <3>2. Senders(ms) \in SUBSET Replicas
      BY <2>3 DEF Senders, NewViewMsgs
    <3>3. ASSUME NEW s \in Senders(ms)
          PROVE  p.view <= T[s].view /\ Covers(p.justify, p.view - 1, T[s])
      <4>1. PICK m \in ms : m.sender = s
        BY <3>3 DEF Senders
      <4>2. NewViewBacked(m, R) /\ m.view = r.view - 1 /\ m.justify.view <= high.view
        BY <2>3, <2>5, <2>10 DEF ReplicaBacked
      <4>3. s \in Replicas /\ m.justify.view \in Nat /\ high.view \in Nat
        <5>1. m.justify \in OptQCs
          BY <2>3 DEF NewViewMsgs
        <5>. QED  BY <2>5, <3>2, <5>1, OptQcFields
      <4>4. m.view < R[s].view /\ Covers(m.justify, m.view, R[s])
        BY <4>1, <4>2 DEF NewViewBacked
      <4>5. r.view <= T[s].view
        BY <1>0, <2>9, <4>2, <4>3, <4>4
      <4>6. Covers(high, r.view - 1, T[s])
        BY <2>9, <4>2, <4>3, <4>4 DEF Covers
      <4>. QED  BY <3>1, <4>5, <4>6
    <3>4. Cardinality(Senders(ms)) >= Quorum
      BY <1>2
    <3>. QED  BY <3>1, <3>2, <3>3, <3>4 DEF ProposalBacked
  <2>12. MessageBacked(p, T)
    BY <2>11 DEF MessageBacked
  <2>13. Advances(r, new)
    BY <1>0, <2>6, <2>8 DEF Advances
  <2>14. \A w \in PreCommits(new) : w <= new.view /\ w <= new.prepare_qc.view
    BY <2>6, <2>8, <2>10 DEF ReplicaBacked
  <2>15. \A x \in new.proposals : x \in r.proposals \/ ProposalBacked(x, T)
    BY <2>6, <2>11
  <2>16. \A x \in new.out : x \in r.out \/ MessageBacked(x.msg, T)
    BY <2>6, <2>12
  <2>17. Along(S, i, new)
    BY <2>1, <2>6, <2>13, <2>14, <2>15, <2>16, StepAlong DEF T
  <2>. QED  BY <2>17 DEF new
<1>. QED  BY <1>1, <1>2

\* form_qc certifies votes that were cast.
LEMMA LeaderAggregateAlong ==
    ASSUME NEW S, MapOK(S), NEW i \in Replicas, NEW r, Along(S, i, r),
           NEW vote \in VoteTypes, NEW phase \in {"pre_commit", "commit", "decide"}
    PROVE  Along(S, i, LeaderAggregate(r, vote, phase))
<1>. DEFINE qc == form_qc(r, vote, r.view)
            m == PhaseQc(phase, r.view, qc, r.id)
            marked == [Broadcast(r, m) EXCEPT !.broadcast = @ \cup {<< phase, r.view >>}]
            new == LeaderAggregate(r, vote, phase)
            R == [S EXCEPT ![i] = r]
            T == [S EXCEPT ![i] = new]
            quiet == \/ leader_for(r.view) # r.id
                     \/ << phase, r.view >> \in r.broadcast
                     \/ Certified(r, vote, r.view) = {}
<1>0. ReplicaOK(r) /\ r.id = i /\ r.view \in Nat
  BY DEF Along, ReplicaOK
<1>1. CASE quiet
  BY <1>1 DEF LeaderAggregate
<1>2. CASE ~quiet
  <2>1. Keeps(r, new)
    BY <1>0, LeaderAggregateOK
  <2>2. new = Stage(marked, qc)
    BY <1>2 DEF LeaderAggregate
  <2>3. /\ qc \in QCs /\ qc.msg_type = vote /\ qc.view = r.view
        /\ Cardinality(qc.sigs) >= Quorum /\ qc.sigs = Voters(r, vote, r.view, qc.node)
    BY <1>0, <1>2, FormQcOK
  <2>. HIDE DEF qc
  <2>4. m.kind = "PhaseQc" /\ m.justify = qc
    BY DEF PhaseQc
  <2>. HIDE DEF m
  <2>5. /\ new.view = r.view /\ new.voted = r.voted /\ new.prepare_qc = r.prepare_qc
        /\ new.locked_qc = r.locked_qc /\ new.votes = r.votes
        /\ new.new_view_msgs = r.new_view_msgs /\ new.proposals = r.proposals
        /\ new.staged \subseteq r.staged \cup {qc}
        /\ \A x \in new.out : x \in r.out \/ x.msg = m
    BY <1>0, <2>2 DEF Stage, Broadcast, ReplicaOK, ReplicaFields
  <2>6. R[i] = r /\ T[i] = new /\ \A j \in Replicas : j # i => R[j] = S[j] /\ T[j] = S[j]
    BY DEF MapOK
  <2>. HIDE DEF new
  <2>7. PreCommits(new) = PreCommits(r)
    BY <2>5, SamePreCommits
  <2>8. ReplicaBacked(r, R)
    BY DEF Along
  <2>. HIDE DEF R, T
  <2>9. QcBacked(qc, T)
    <3>. SUFFICES ASSUME vote = "pre_commit", NEW s \in qc.sigs
                  PROVE  r.view \in PreCommits(T[s])
      BY <2>3 DEF QcBacked
    <3>1. PICK x \in r.votes : x.msg_type = vote /\ x.view = r.view /\ x.voter = s
      BY <2>3 DEF Voters
    <3>2. VoteBacked(x, R)
      BY <2>8 DEF ReplicaBacked
    <3>3. r.view \in PreCommits(R[s]) /\ s \in Replicas
      BY <2>3, <3>1, <3>2 DEF VoteBacked, QCs
    <3>. QED  BY <2>6, <2>7, <3>3
  <2>10. MessageBacked(m, T)
    BY <2>4, <2>9 DEF MessageBacked
  <2>11. Advances(r, new)
    BY <1>0, <2>5, <2>7 DEF Advances
  <2>12. \A w \in PreCommits(new) : w <= new.view /\ w <= new.prepare_qc.view
    BY <2>5, <2>7, <2>8 DEF ReplicaBacked
  <2>13. \A x \in new.staged : x \in r.staged \/ QcBacked(x, T)
    BY <2>5, <2>9
  <2>14. \A x \in new.out : x \in r.out \/ MessageBacked(x.msg, T)
    BY <2>5, <2>10
  <2>15. Along(S, i, new)
    BY <2>1, <2>5, <2>11, <2>12, <2>13, <2>14, StepAlong DEF T
  <2>. QED  BY <2>15 DEF new
<1>. QED  BY <1>1, <1>2

\* replica_decide executes and moves on to the next view.
LEMMA ReplicaDecideAlong ==
    ASSUME NEW S, MapOK(S), NEW i \in Replicas, NEW r, Along(S, i, r)
    PROVE  Along(S, i, replica_decide(r))
<1>. DEFINE qc == CHOOSE q \in Staged(r, "commit") : TRUE
            ex == TryExecuteChain(r.id, Decided(r.ex, qc.node), qc.node)
            executed == [r EXCEPT !.ex = ex, !.timeout = 1]
<1>0. ReplicaOK(r) /\ r.id = i
  BY DEF Along
<1>1. CASE Staged(r, "commit") = {}
  BY <1>1 DEF replica_decide
<1>2. CASE Staged(r, "commit") # {}
  <2>1. qc.node \in Nodes
    BY <1>0, <1>2, StagedQc
  <2>2. replica_decide(r) = enter_new_view(executed, r.view + 1)
    BY <1>2 DEF replica_decide
  <2>. HIDE DEF qc
  <2>3. ExecutionOK(ex)
    BY <1>0, <2>1, DecidedOK, TryExecuteChainOK DEF ReplicaOK
  <2>. HIDE DEF ex
  <2>4. Along(S, i, executed)
    <3>1. Keeps(r, executed)
      BY <1>0, <2>3 DEF Keeps, ReplicaOK, ReplicaFields
    <3>2. /\ executed.view = r.view /\ executed.voted = r.voted
          /\ executed.prepare_qc = r.prepare_qc /\ executed.locked_qc = r.locked_qc
          /\ executed.votes = r.votes /\ executed.staged = r.staged
          /\ executed.new_view_msgs = r.new_view_msgs
          /\ executed.proposals = r.proposals /\ executed.out = r.out
      BY <1>0 DEF ReplicaOK, ReplicaFields
    <3>. HIDE DEF executed
    <3>. QED  BY <3>1, <3>2, AsideAlong
  <2>5. executed.view = r.view /\ r.view + 1 \in Nat /\ r.view < r.view + 1
    BY <1>0 DEF ReplicaOK, ReplicaFields
  <2>. HIDE DEF executed
  <2>. QED  BY <2>2, <2>4, <2>5, EnterNewViewAlong
<1>. QED  BY <1>1, <1>2

\* Nothing but the execution state changes.
LEMMA ExecutionAlong ==
    ASSUME NEW S, MapOK(S), NEW i \in Replicas, NEW r, Along(S, i, r),
           NEW ex, ExecutionOK(ex)
    PROVE  Along(S, i, [r EXCEPT !.ex = ex])
<1>. DEFINE new == [r EXCEPT !.ex = ex]
<1>1. ReplicaOK(r)
  BY DEF Along
<1>2. Keeps(r, new)
  BY <1>1 DEF Keeps, ReplicaOK, ReplicaFields
<1>3. /\ new.view = r.view /\ new.voted = r.voted /\ new.prepare_qc = r.prepare_qc
      /\ new.locked_qc = r.locked_qc /\ new.votes = r.votes /\ new.staged = r.staged
      /\ new.new_view_msgs = r.new_view_msgs /\ new.proposals = r.proposals
      /\ new.out = r.out
  BY <1>1 DEF ReplicaOK, ReplicaFields
<1>. HIDE DEF new
<1>4. Along(S, i, new)
  BY <1>2, <1>3, AsideAlong
<1>. QED  BY <1>4 DEF new

\* The last two calls of try_advance.
LEMMA ExecutePassAlong ==
    ASSUME NEW S, MapOK(S), NEW i \in Replicas, NEW r, Along(S, i, r)
    PROVE  Along(S, i, ExecutePass(r))
<1>1. ExecutionOK(TryKickPendingValidations(r.id, RetryPendingExecute(r.id, r.ex)))
  BY RetryPendingExecuteOK, TryKickPendingValidationsOK DEF ReplicaOK, Along
<1>. QED  BY <1>1, ExecutionAlong DEF ExecutePass

\* A whole try_advance pass, rule by rule.
LEMMA TryAdvanceAlong ==
    ASSUME NEW S, MapOK(S), NEW i \in Replicas, NEW r, Along(S, i, r)
    PROVE  Along(S, i, try_advance(r))
<1>. DEFINE r1 == leader_prepare(r)
            r2 == replica_prepare(r1)
            r3 == leader_pre_commit(r2)
            r4 == replica_pre_commit(r3)
            r5 == leader_commit(r4)
            r6 == replica_commit(r5)
            r7 == leader_decide(r6)
            r8 == replica_decide(r7)
<1>0. try_advance(r) = ExecutePass(r8)
  BY DEF try_advance
<1>1. Along(S, i, r1)
  BY LeaderPrepareAlong
<1>. HIDE DEF r1
<1>2. Along(S, i, r2)
  BY <1>1, ReplicaPrepareAlong
<1>. HIDE DEF r2
<1>3. Along(S, i, r3)
  BY <1>2, LeaderAggregateAlong DEF leader_pre_commit, VoteTypes
<1>. HIDE DEF r3
<1>4. Along(S, i, r4)
  BY <1>3, ReplicaPreCommitAlong
<1>. HIDE DEF r4
<1>5. Along(S, i, r5)
  BY <1>4, LeaderAggregateAlong DEF leader_commit, VoteTypes
<1>. HIDE DEF r5
<1>6. Along(S, i, r6)
  BY <1>5, ReplicaCommitAlong
<1>. HIDE DEF r6
<1>7. Along(S, i, r7)
  BY <1>6, LeaderAggregateAlong DEF leader_decide, VoteTypes
<1>. HIDE DEF r7
<1>8. Along(S, i, r8)
  BY <1>7, ReplicaDecideAlong
<1>. HIDE DEF r8
<1>. QED  BY <1>0, <1>8, ExecutePassAlong

-----------------------------------------------------------------------------
\* A handler that stores a message stores one that is backed, which it stays
\* because the node's own view and votes are untouched.
LEMMA StoreAlong ==
    ASSUME NEW S, MapOK(S), NEW i \in Replicas, ReplicaBacked(S[i], S),
           NEW new, Keeps(S[i], new),
           new.view = S[i].view, new.voted = S[i].voted,
           new.prepare_qc = S[i].prepare_qc, new.locked_qc = S[i].locked_qc,
           \A m \in new.votes : m \in S[i].votes \/ VoteBacked(m, S),
           \A q \in new.staged : q \in S[i].staged \/ QcBacked(q, S),
           \A m \in new.new_view_msgs : m \in S[i].new_view_msgs \/ NewViewBacked(m, S),
           \A p \in new.proposals : p \in S[i].proposals \/ ProposalBacked(p, S),
           new.out = S[i].out
    PROVE  Along(S, i, new)
<1>. DEFINE T == [S EXCEPT ![i] = new]
<1>1. PreCommits(new) = PreCommits(S[i])
  BY SamePreCommits
<1>2. Advances(S[i], new)
  BY <1>1 DEF Advances, MapOK, ReplicaOK
<1>3. MapOK(T)
  BY DEF MapOK, Keeps
<1>4. \A j \in Replicas : Advances(S[j], T[j])
  <2>. SUFFICES ASSUME NEW j \in Replicas PROVE Advances(S[j], T[j])
    OBVIOUS
  <2>1. CASE j = i
    BY <1>2, <2>1 DEF MapOK
  <2>2. CASE j # i
    <3>1. T[j] = S[j] /\ S[j].view \in Nat
      BY <2>2 DEF MapOK, ReplicaOK
    <3>. QED  BY <3>1 DEF Advances
  <2>. QED  BY <2>1, <2>2
<1>5. T[i] = new /\ ReplicaOK(new) /\ new.id = i
  BY DEF MapOK, Keeps
<1>. HIDE DEF T
<1>6. ReplicaOK(S[i])
  BY DEF MapOK
<1>7. ReplicaBacked(S[i], T)
  BY <1>3, <1>4, <1>6, ReplicaBackedOn
<1>8. /\ \A m \in Votes : VoteBacked(m, S) => VoteBacked(m, T)
      /\ \A q \in QCs : QcBacked(q, S) => QcBacked(q, T)
      /\ \A m \in NewViewMsgs : NewViewBacked(m, S) => NewViewBacked(m, T)
      /\ \A p \in Proposals : ProposalBacked(p, S) => ProposalBacked(p, T)
  BY <1>3, <1>4, BackedOn
<1>9. /\ new.votes \subseteq Votes /\ new.staged \subseteq QCs
      /\ new.new_view_msgs \subseteq NewViewMsgs /\ new.proposals \subseteq Proposals
  BY <1>5 DEF ReplicaOK
<1>10. ReplicaBacked(new, T)
  BY <1>1, <1>7, <1>8, <1>9 DEF ReplicaBacked
<1>. QED  BY <1>2, <1>5, <1>10 DEF Along, T

\* The end of a turn: try_advance runs, and what is in r.out is sent.
LEMMA TurnKeepsEvidence ==
    ASSUME TypeOK, EvidenceHolds, NEW i \in Replicas, NEW r, Along(rs, i, r),
           NEW received, Turn(i, r, received)
    PROVE  EvidenceHolds'
<1>. DEFINE done == try_advance(r)
            last == Flush(done)
            T == [rs EXCEPT ![i] = done]
<1>1. MapOK(rs)
  BY DEF TypeOK, MapOK
<1>2. Along(rs, i, done)
  BY <1>1, TryAdvanceAlong
<1>3. rs' = [rs EXCEPT ![i] = last] /\ net' = (net \ received) \cup done.out
  BY DEF Turn
<1>. HIDE DEF done
<1>4. ReplicaOK(done) /\ done.id = i
  BY <1>2 DEF Along
<1>5. Keeps(done, last)
  BY <1>4 DEF Keeps, Flush, ReplicaOK, ReplicaFields
<1>6. /\ last.view = done.view /\ last.voted = done.voted
      /\ last.prepare_qc = done.prepare_qc /\ last.locked_qc = done.locked_qc
      /\ last.votes = done.votes /\ last.staged = done.staged
      /\ last.new_view_msgs = done.new_view_msgs
      /\ last.proposals = done.proposals /\ last.out = {}
  BY <1>4 DEF Flush, ReplicaOK, ReplicaFields
<1>. HIDE DEF last
<1>7. PreCommits(last) = PreCommits(done)
  BY <1>6, SamePreCommits
<1>8. Advances(done, last)
  BY <1>4, <1>6, <1>7 DEF Advances, ReplicaOK
<1>9. \A w \in PreCommits(last) : w <= last.view /\ w <= last.prepare_qc.view
  BY <1>2, <1>6, <1>7 DEF Along, ReplicaBacked
<1>10. Along(rs, i, last)
  BY <1>1, <1>2, <1>5, <1>6, <1>8, <1>9, StepAlong
<1>11. MapOK(rs') /\ MapOK(T)
  BY <1>1, <1>3, <1>4, <1>5 DEF MapOK, Keeps
<1>12. \A j \in Replicas : Advances(rs[j], rs'[j]) /\ Advances(T[j], rs'[j])
  <2>. SUFFICES ASSUME NEW j \in Replicas
                PROVE  Advances(rs[j], rs'[j]) /\ Advances(T[j], rs'[j])
    OBVIOUS
  <2>1. CASE j = i
    BY <1>1, <1>3, <1>8, <1>10, <2>1 DEF MapOK, Along
  <2>2. CASE j # i
    <3>1. T[j] = rs[j] /\ rs'[j] = rs[j] /\ rs[j].view \in Nat
      BY <1>1, <1>3, <2>2 DEF MapOK, ReplicaOK
    <3>. QED  BY <3>1 DEF Advances
  <2>. QED  BY <2>1, <2>2
<1>13. \A j \in Replicas : ReplicaBacked(rs'[j], rs')
  <2>. SUFFICES ASSUME NEW j \in Replicas PROVE ReplicaBacked(rs'[j], rs')
    OBVIOUS
  <2>1. CASE j = i
    BY <1>1, <1>3, <1>10, <2>1 DEF MapOK, Along
  <2>2. CASE j # i
    <3>1. rs'[j] = rs[j] /\ ReplicaOK(rs[j]) /\ ReplicaBacked(rs[j], rs)
      BY <1>1, <1>3, <2>2 DEF MapOK, EvidenceHolds
    <3>2. ReplicaBacked(rs[j], rs')
      BY <1>1, <1>11, <1>12, <3>1, ReplicaBackedOn
    <3>. QED  BY <3>1, <3>2
  <2>. QED  BY <2>1, <2>2
<1>14. ASSUME NEW p \in net'
       PROVE  MessageBacked(p.msg, rs')
  <2>1. CASE p \in net
    <3>1. p \in Packets /\ MessageBacked(p.msg, rs)
      BY <2>1 DEF TypeOK, EvidenceHolds
    <3>. QED  BY <1>1, <1>11, <1>12, <3>1, MessageBackedOn
  <2>2. CASE p \in done.out
    <3>1. p \in Packets /\ MessageBacked(p.msg, T)
      BY <1>2, <1>4, <2>2 DEF Along, ReplicaBacked, ReplicaOK
    <3>. QED  BY <1>11, <1>12, <3>1, MessageBackedOn
  <2>. QED  BY <1>3, <1>14, <2>1, <2>2
<1>. QED  BY <1>13, <1>14 DEF EvidenceHolds

\* A turn starts where the last one ended.
LEMMA StartAlong ==
    ASSUME TypeOK, EvidenceHolds, NEW i \in Replicas
    PROVE  MapOK(rs) /\ Along(rs, i, rs[i])
<1>1. MapOK(rs) /\ ReplicaOK(rs[i]) /\ rs[i].id = i
  BY DEF TypeOK, MapOK
<1>2. Keeps(rs[i], rs[i])
  BY <1>1 DEF Keeps
<1>3. ReplicaBacked(rs[i], rs)
  BY DEF EvidenceHolds
<1>. QED  BY <1>1, <1>2, <1>3, StoreAlong

\* Every handler leaves a record on the way to the end of its turn.
LEMMA HandlersAlong ==
    ASSUME TypeOK, EvidenceHolds, NEW i \in Replicas
    PROVE  /\ rs[i].view = 0 => Along(rs, i, enter_new_view(rs[i], 1))
           /\ \A p \in net :
                 /\ p.msg.kind = "Proposal" => Along(rs, i, handle_proposal(rs[i], p.msg))
                 /\ p.msg.kind = "PhaseQc" => Along(rs, i, handle_phase_qc(rs[i], p.msg))
                 /\ p.msg.kind = "Vote" => Along(rs, i, handle_vote(rs[i], p.msg))
                 /\ p.msg.kind = "NewView" => Along(rs, i, handle_new_view(rs[i], p.msg))
           /\ rs[i].ex.queue # << >> => Along(rs, i, handle_validation(rs[i]))
           /\ \A v : Along(rs, i, handle_timer(rs[i], v))
<1>1. MapOK(rs) /\ ReplicaBacked(rs[i], rs) /\ ReplicaOK(rs[i])
  BY DEF TypeOK, MapOK, EvidenceHolds
<1>2. rs[i].view = 0 => Along(rs, i, enter_new_view(rs[i], 1))
  BY StartAlong, EnterNewViewAlong
<1>3. ASSUME NEW p \in net, p.msg.kind = "Proposal"
      PROVE  Along(rs, i, handle_proposal(rs[i], p.msg))
  <2>. DEFINE new == handle_proposal(rs[i], p.msg)
  <2>1. p.msg \in Proposals /\ ProposalBacked(p.msg, rs)
    BY <1>3, PacketKinds DEF TypeOK, EvidenceHolds, MessageBacked
  <2>2. Keeps(rs[i], new)
    BY <1>1, <2>1, HandleProposalOK
  <2>3. /\ new.view = rs[i].view /\ new.voted = rs[i].voted
        /\ new.prepare_qc = rs[i].prepare_qc /\ new.locked_qc = rs[i].locked_qc
        /\ new.votes = rs[i].votes /\ new.staged = rs[i].staged
        /\ new.new_view_msgs = rs[i].new_view_msgs /\ new.out = rs[i].out
        /\ new.proposals \subseteq rs[i].proposals \cup {p.msg}
    BY <1>1 DEF handle_proposal, Kick, StoreProposal, Learn, ReplicaOK, ReplicaFields
  <2>. HIDE DEF new
  <2>4. Along(rs, i, new)
    BY <1>1, <2>1, <2>2, <2>3, StoreAlong
  <2>. QED  BY <2>4 DEF new
<1>4. ASSUME NEW p \in net, p.msg.kind = "PhaseQc"
      PROVE  Along(rs, i, handle_phase_qc(rs[i], p.msg))
  <2>. DEFINE new == handle_phase_qc(rs[i], p.msg)
  <2>1. p.msg \in PhaseQcs /\ QcBacked(p.msg.justify, rs)
    BY <1>4, PacketKinds DEF TypeOK, EvidenceHolds, MessageBacked
  <2>2. Keeps(rs[i], new)
    BY <1>1, <2>1, HandlePhaseQcOK
  <2>3. /\ new.view = rs[i].view /\ new.voted = rs[i].voted
        /\ new.prepare_qc = rs[i].prepare_qc /\ new.locked_qc = rs[i].locked_qc
        /\ new.votes = rs[i].votes /\ new.proposals = rs[i].proposals
        /\ new.new_view_msgs = rs[i].new_view_msgs /\ new.out = rs[i].out
        /\ new.staged \subseteq rs[i].staged \cup {p.msg.justify}
    BY <1>1 DEF handle_phase_qc, Stage, ReplicaOK, ReplicaFields
  <2>. HIDE DEF new
  <2>4. Along(rs, i, new)
    BY <1>1, <2>1, <2>2, <2>3, StoreAlong
  <2>. QED  BY <2>4 DEF new
<1>5. ASSUME NEW p \in net, p.msg.kind = "Vote"
      PROVE  Along(rs, i, handle_vote(rs[i], p.msg))
  <2>. DEFINE new == handle_vote(rs[i], p.msg)
  <2>1. p.msg \in Votes /\ VoteBacked(p.msg, rs)
    BY <1>5, PacketKinds DEF TypeOK, EvidenceHolds, MessageBacked
  <2>2. Keeps(rs[i], new)
    BY <1>1, <2>1, HandleVoteOK
  <2>3. /\ new.view = rs[i].view /\ new.voted = rs[i].voted
        /\ new.prepare_qc = rs[i].prepare_qc /\ new.locked_qc = rs[i].locked_qc
        /\ new.staged = rs[i].staged /\ new.proposals = rs[i].proposals
        /\ new.new_view_msgs = rs[i].new_view_msgs /\ new.out = rs[i].out
        /\ new.votes \subseteq rs[i].votes \cup {p.msg}
    BY <1>1 DEF handle_vote, ReplicaOK, ReplicaFields
  <2>. HIDE DEF new
  <2>4. Along(rs, i, new)
    BY <1>1, <2>1, <2>2, <2>3, StoreAlong
  <2>. QED  BY <2>4 DEF new
<1>6. ASSUME NEW p \in net, p.msg.kind = "NewView"
      PROVE  Along(rs, i, handle_new_view(rs[i], p.msg))
  <2>. DEFINE new == handle_new_view(rs[i], p.msg)
  <2>1. p.msg \in NewViewMsgs /\ NewViewBacked(p.msg, rs)
    BY <1>6, PacketKinds DEF TypeOK, EvidenceHolds, MessageBacked
  <2>2. Keeps(rs[i], new)
    BY <1>1, <2>1, HandleNewViewOK
  <2>3. /\ new.view = rs[i].view /\ new.voted = rs[i].voted
        /\ new.prepare_qc = rs[i].prepare_qc /\ new.locked_qc = rs[i].locked_qc
        /\ new.staged = rs[i].staged /\ new.proposals = rs[i].proposals
        /\ new.votes = rs[i].votes /\ new.out = rs[i].out
        /\ new.new_view_msgs \subseteq rs[i].new_view_msgs \cup {p.msg}
    BY <1>1 DEF handle_new_view, ReplicaOK, ReplicaFields
  <2>. HIDE DEF new
  <2>4. Along(rs, i, new)
    BY <1>1, <2>1, <2>2, <2>3, StoreAlong
  <2>. QED  BY <2>4 DEF new
<1>7. ASSUME rs[i].ex.queue # << >>
      PROVE  Along(rs, i, handle_validation(rs[i]))
  <2>1. ExecutionOK(IngestValidation(rs[i].id, rs[i].ex))
    BY <1>1, <1>7, IngestValidationOK DEF ReplicaOK
  <2>. QED  BY <1>1, <2>1, StartAlong, ExecutionAlong DEF handle_validation
<1>8. ASSUME NEW v
      PROVE  Along(rs, i, handle_timer(rs[i], v))
  <2>. DEFINE fired == [rs[i] EXCEPT !.timers = @ \ {v}]
              doubled == [fired EXCEPT !.timeout = 2 * @]
  <2>1. Along(rs, i, rs[i]) /\ ReplicaOK(rs[i])
    BY StartAlong DEF TypeOK
  <2>2. Keeps(rs[i], fired) /\ Keeps(rs[i], doubled)
    BY <2>1 DEF Keeps, ReplicaOK, ReplicaFields
  <2>3. \A new \in {fired, doubled} :
           /\ new.view = rs[i].view /\ new.voted = rs[i].voted
           /\ new.prepare_qc = rs[i].prepare_qc /\ new.locked_qc = rs[i].locked_qc
           /\ new.votes = rs[i].votes /\ new.staged = rs[i].staged
           /\ new.new_view_msgs = rs[i].new_view_msgs
           /\ new.proposals = rs[i].proposals /\ new.out = rs[i].out
    BY <2>1 DEF ReplicaOK, ReplicaFields
  <2>4. handle_timer(rs[i], v) \in {fired, enter_new_view(doubled, rs[i].view + 1)}
    BY DEF handle_timer
  <2>. HIDE DEF fired, doubled
  <2>5. Along(rs, i, fired) /\ Along(rs, i, doubled)
    BY <1>1, <2>1, <2>2, <2>3, AsideAlong
  <2>6. rs[i].view + 1 \in Nat /\ doubled.view < rs[i].view + 1
    BY <2>1, <2>3 DEF ReplicaOK
  <2>7. Along(rs, i, enter_new_view(doubled, rs[i].view + 1))
    BY <1>1, <2>5, <2>6, EnterNewViewAlong
  <2>. QED  BY <2>4, <2>5, <2>7
<1>. QED  BY <1>2, <1>3, <1>4, <1>5, <1>6, <1>7, <1>8

\* Every step is a turn of some node's event loop that starts with a handler.
LEMMA NextIsTurn ==
    ASSUME Next
    PROVE  \E i \in Replicas :
             \/ rs[i].view = 0 /\ Turn(i, enter_new_view(rs[i], 1), {})
             \/ \E p \in net :
                   \/ p.msg.kind = "Proposal" /\ Turn(i, handle_proposal(rs[i], p.msg), {p})
                   \/ p.msg.kind = "PhaseQc" /\ Turn(i, handle_phase_qc(rs[i], p.msg), {p})
                   \/ p.msg.kind = "Vote" /\ Turn(i, handle_vote(rs[i], p.msg), {p})
                   \/ p.msg.kind = "NewView" /\ Turn(i, handle_new_view(rs[i], p.msg), {p})
             \/ rs[i].ex.queue # << >> /\ Turn(i, handle_validation(rs[i]), {})
             \/ \E v : Turn(i, handle_timer(rs[i], v), {})
<1>1. PICK i \in Replicas :
        Start(i) \/ Receive(i) \/ ValidationDone(i) \/ NextViewTimer(i) \/ StaleTimer(i)
  BY DEF Next
<1>2. CASE Start(i)
  BY <1>2 DEF Start
<1>3. CASE Receive(i)
  BY <1>3 DEF Receive, ReceiveProposal, ReceivePhaseQc, ReceiveVote, ReceiveNewView
<1>4. CASE ValidationDone(i)
  BY <1>4 DEF ValidationDone
<1>5. CASE NextViewTimer(i)
  BY <1>5 DEF NextViewTimer
<1>6. CASE StaleTimer(i)
  BY <1>6 DEF StaleTimer
<1>. QED  BY <1>1, <1>2, <1>3, <1>4, <1>5, <1>6

\* So every step starts from, and keeps, what is backed.
LEMMA NextKeepsEvidence ==
    ASSUME TypeOK, EvidenceHolds, [Next]_vars
    PROVE  EvidenceHolds'
<1>1. CASE UNCHANGED vars
  BY <1>1 DEF vars, EvidenceHolds
<1>2. CASE Next
  <2>1. \E i \in Replicas : \E r, received : Along(rs, i, r) /\ Turn(i, r, received)
    BY <1>2, NextIsTurn, HandlersAlong
  <2>. QED  BY <2>1, TurnKeepsEvidence
<1>. QED  BY <1>1, <1>2

-----------------------------------------------------------------------------
\* Every vote, certificate, NEW-VIEW and proposal in the cluster is backed by
\* what its makers did, in every reachable state (form_qc, leader_prepare,
\* enter_new_view and all that comes between).
THEOREM EvidenceIsInvariant == Spec => [](TypeOK /\ EvidenceHolds)
<1>1. Init => TypeOK /\ EvidenceHolds
  <2>. SUFFICES ASSUME Init PROVE TypeOK /\ EvidenceHolds
    OBVIOUS
  <2>1. TypeOK
    BY NewReplicaOK DEF Init, TypeOK
  <2>2. ASSUME NEW i \in Replicas
        PROVE  ReplicaBacked(rs[i], rs)
    <3>1. /\ rs[i].voted = {} /\ rs[i].votes = {} /\ rs[i].staged = {}
          /\ rs[i].locked_qc = NoQC /\ rs[i].new_view_msgs = {}
          /\ rs[i].proposals = {} /\ rs[i].out = {}
      BY DEF Init, NewReplica
    <3>2. PreCommits(rs[i]) = {}
      BY <3>1 DEF PreCommits
    <3>. QED  BY <3>1, <3>2 DEF ReplicaBacked
  <2>. QED  BY <2>1, <2>2 DEF EvidenceHolds, Init
<1>2. (TypeOK /\ EvidenceHolds) /\ [Next]_vars => (TypeOK /\ EvidenceHolds)'
  BY NextKeepsTypes, NextKeepsEvidence
<1>. QED  BY <1>1, <1>2, PTL DEF Spec

-----------------------------------------------------------------------------
(***************************************************************************)
(* A leader that may propose has proposed                                  *)
(***************************************************************************)

\* the fire-once flag of leader_prepare is set only with a proposal stored
FlagMeansStored(r) ==
    \A v : << "proposal", v >> \in r.broadcast => \E p \in r.proposals : p.view = v

HasProposal(r) == \E p \in r.proposals : p.view = r.view

\* What leaves alone all that leader_prepare looks at.
Stays(r, new) ==
    /\ new.id = r.id /\ new.view = r.view /\ new.new_view_msgs = r.new_view_msgs
    /\ new.ex.tree = r.ex.tree /\ new.proposals = r.proposals
    /\ \A v : << "proposal", v >> \in new.broadcast => << "proposal", v >> \in r.broadcast

\* leader_prepare proposes unless it waits for something or has proposed before.
LEMMA LeaderPrepareProposes ==
    ASSUME NEW r, ReplicaOK(r), FlagMeansStored(r)
    PROVE  /\ leader_prepare(r).view = r.view
           /\ FlagMeansStored(leader_prepare(r))
           /\ MayPropose(leader_prepare(r)) => HasProposal(leader_prepare(r))
<1>. DEFINE ms == NewViews(r)
            high == HighQc(ms)
            leaf == Append(high.node, Block(r.id, Len(high.node)))
            p == Proposal(r.view, leaf, high, r.id)
            r1 == Learn(r, leaf)
            r2 == Broadcast(r1, p)
            r3 == StoreProposal(r2, p)
            r4 == [r3 EXCEPT !.broadcast = @ \cup {<< "proposal", r.view >>}]
<1>1. CASE ~(MayPropose(r) /\ << "proposal", r.view >> \notin r.broadcast)
  <2>1. leader_prepare(r) = r
    BY <1>1 DEF leader_prepare, MayPropose
  <2>2. MayPropose(r) => HasProposal(r)
    BY <1>1 DEF FlagMeansStored, HasProposal
  <2>. QED  BY <2>1, <2>2
<1>2. CASE MayPropose(r) /\ << "proposal", r.view >> \notin r.broadcast
  <2>1. leader_prepare(r) = Kick(r4, leaf)
    BY <1>2 DEF leader_prepare, MayPropose
  <2>2. p.view = r.view
    BY DEF Proposal
  <2>. HIDE DEF ms, high, leaf, p
  <2>3. /\ r1.view = r.view /\ r1.proposals = r.proposals /\ r1.broadcast = r.broadcast
        /\ DOMAIN r1 = ReplicaFields
    BY DEF Learn, ReplicaOK, ReplicaFields
  <2>. HIDE DEF r1
  <2>4. /\ r2.view = r.view /\ r2.proposals = r.proposals /\ r2.broadcast = r.broadcast
        /\ DOMAIN r2 = ReplicaFields
    BY <2>3 DEF Broadcast, ReplicaFields
  <2>. HIDE DEF r2
  <2>5. /\ r3.view = r.view /\ r.proposals \subseteq r3.proposals
        /\ \E x \in r3.proposals : x.view = r.view
        /\ r3.broadcast = r.broadcast /\ DOMAIN r3 = ReplicaFields
    BY <2>2, <2>4 DEF StoreProposal, ReplicaFields
  <2>. HIDE DEF r3
  <2>6. /\ r4.view = r.view /\ r4.proposals = r3.proposals
        /\ r4.broadcast = r.broadcast \cup {<< "proposal", r.view >>}
        /\ DOMAIN r4 = ReplicaFields
    BY <2>5 DEF ReplicaFields
  <2>. HIDE DEF r4
  <2>. DEFINE new == Kick(r4, leaf)
  <2>7. new.view = r.view /\ new.proposals = r3.proposals /\ new.broadcast = r4.broadcast
    BY <2>6 DEF Kick, ReplicaFields
  <2>. HIDE DEF new
  <2>8. HasProposal(new)
    BY <2>5, <2>7 DEF HasProposal
  <2>9. FlagMeansStored(new)
    BY <2>5, <2>6, <2>7 DEF FlagMeansStored
  <2>10. leader_prepare(r) = new
    BY <2>1 DEF new
  <2>. QED  BY <2>7, <2>8, <2>9, <2>10
<1>. QED  BY <1>1, <1>2

\* The rules that vote or form a QC leave it all alone.
LEMMA RulesStay ==
    ASSUME NEW r, ReplicaOK(r)
    PROVE  /\ Stays(r, replica_prepare(r))
           /\ Stays(r, replica_pre_commit(r))
           /\ Stays(r, replica_commit(r))
           /\ Stays(r, leader_pre_commit(r))
           /\ Stays(r, leader_commit(r))
           /\ Stays(r, leader_decide(r))
<1>1. Stays(r, replica_prepare(r))
  BY DEF replica_prepare, CastVote, SendTo, Stays, ReplicaOK, ReplicaFields
<1>2. Stays(r, replica_pre_commit(r))
  BY DEF replica_pre_commit, CastVote, SendTo, Stays, ReplicaOK, ReplicaFields
<1>3. Stays(r, replica_commit(r))
  BY DEF replica_commit, CastVote, SendTo, Stays, ReplicaOK, ReplicaFields
<1>4. ASSUME NEW vote, NEW phase, phase # "proposal"
      PROVE  Stays(r, LeaderAggregate(r, vote, phase))
  BY <1>4 DEF LeaderAggregate, Stage, Broadcast, Stays, ReplicaOK, ReplicaFields
<1>. QED  BY <1>1, <1>2, <1>3, <1>4 DEF leader_pre_commit, leader_commit, leader_decide

\* What leader_prepare has brought about stays so.
LEMMA ProposalStays ==
    ASSUME NEW r, FlagMeansStored(r), MayPropose(r) => HasProposal(r),
           NEW new, Stays(r, new)
    PROVE  FlagMeansStored(new) /\ (MayPropose(new) => HasProposal(new))
  BY DEF Stays, FlagMeansStored, HasProposal, MayPropose, NewViews

\* replica_decide proposes nothing, and if it does anything it leaves the view.
LEMMA DecideLeaves ==
    ASSUME NEW r, ReplicaOK(r)
    PROVE  /\ replica_decide(r) = r \/ replica_decide(r).view = r.view + 1
           /\ replica_decide(r).proposals = r.proposals
           /\ replica_decide(r).broadcast = r.broadcast
<1>. DEFINE qc == CHOOSE q \in Staged(r, "commit") : TRUE
            executed == [r EXCEPT !.ex = TryExecuteChain(r.id, Decided(@, qc.node), qc.node),
                                  !.timeout = 1]
<1>1. replica_decide(r) \in {r, enter_new_view(executed, r.view + 1)}
  BY DEF replica_decide
<1>. HIDE DEF qc
<1>2. /\ executed.proposals = r.proposals /\ executed.broadcast = r.broadcast
      /\ DOMAIN executed = ReplicaFields
  BY DEF ReplicaOK, ReplicaFields
<1>. HIDE DEF executed
<1>3. /\ enter_new_view(executed, r.view + 1).view = r.view + 1
      /\ enter_new_view(executed, r.view + 1).proposals = r.proposals
      /\ enter_new_view(executed, r.view + 1).broadcast = r.broadcast
  BY <1>2 DEF enter_new_view, SendTo, ReplicaFields
<1>. QED  BY <1>1, <1>3

\* A whole pass: unless it leaves the view, a leader that may propose has.
LEMMA TryAdvanceProposes ==
    ASSUME NEW r, ReplicaOK(r), FlagMeansStored(r)
    PROVE  LET done == try_advance(r)
           IN  /\ r.view <= done.view /\ FlagMeansStored(done)
               /\ done.view = r.view /\ MayPropose(done) => HasProposal(done)
<1>. DEFINE r1 == leader_prepare(r)
            r2 == replica_prepare(r1)
            r3 == leader_pre_commit(r2)
            r4 == replica_pre_commit(r3)
            r5 == leader_commit(r4)
            r6 == replica_commit(r5)
            r7 == leader_decide(r6)
            r8 == replica_decide(r7)
            r9 == ExecutePass(r8)
            Done(x) == x.view = r.view /\ FlagMeansStored(x) /\ (MayPropose(x) => HasProposal(x))
<1>0. try_advance(r) = r9
  BY DEF try_advance
<1>s. ASSUME NEW x, Done(x), NEW new, Stays(x, new) PROVE Done(new)
  <2>1. new.view = r.view
    BY <1>s DEF Stays
  <2>. QED  BY <1>s, <2>1, ProposalStays
<1>1. ReplicaOK(r1) /\ Done(r1)
  BY LeaderPrepareOK, LeaderPrepareProposes DEF Keeps
<1>. HIDE DEF r1, Done
<1>2. ReplicaOK(r2) /\ Done(r2)
  BY <1>1, ReplicaPrepareOK, RulesStay, <1>s DEF Keeps
<1>. HIDE DEF r2
<1>3. ReplicaOK(r3) /\ Done(r3)
  BY <1>2, LeaderRulesOK, RulesStay, <1>s DEF Keeps
<1>. HIDE DEF r3
<1>4. ReplicaOK(r4) /\ Done(r4)
  BY <1>3, ReplicaPreCommitOK, RulesStay, <1>s DEF Keeps
<1>. HIDE DEF r4
<1>5. ReplicaOK(r5) /\ Done(r5)
  BY <1>4, LeaderRulesOK, RulesStay, <1>s DEF Keeps
<1>. HIDE DEF r5
<1>6. ReplicaOK(r6) /\ Done(r6)
  BY <1>5, ReplicaCommitOK, RulesStay, <1>s DEF Keeps
<1>. HIDE DEF r6
<1>7. ReplicaOK(r7) /\ Done(r7)
  BY <1>6, LeaderRulesOK, RulesStay, <1>s DEF Keeps
<1>. HIDE DEF r7
<1>8. /\ ReplicaOK(r8) /\ FlagMeansStored(r8)
      /\ Done(r8) \/ r8.view = r.view + 1
  <2>1. ReplicaOK(r8)
    BY <1>7, ReplicaDecideOK DEF Keeps
  <2>2. r7.view = r.view /\ FlagMeansStored(r7)
    BY <1>7 DEF Done
  <2>3. /\ r8 = r7 \/ r8.view = r7.view + 1
        /\ r8.proposals = r7.proposals /\ r8.broadcast = r7.broadcast
    BY <1>7, DecideLeaves
  <2>4. FlagMeansStored(r8)
    BY <2>2, <2>3 DEF FlagMeansStored
  <2>. QED  BY <1>7, <2>1, <2>2, <2>3, <2>4
<1>. HIDE DEF r8
<1>9. Stays(r8, r9)
  <2>. DEFINE ex == TryKickPendingValidations(r8.id, RetryPendingExecute(r8.id, r8.ex))
  <2>1. r8.id \in Replicas /\ ExecutionOK(r8.ex)
    BY <1>8 DEF ReplicaOK
  <2>2. ex.tree = r8.ex.tree
    BY <2>1, RetryPendingExecuteOK, ExecuteSameNodes DEF SameNodes
  <2>3. r9 = [r8 EXCEPT !.ex = ex]
    BY DEF ExecutePass
  <2>. HIDE DEF ex, r9
  <2>. QED  BY <1>8, <2>2, <2>3 DEF Stays, ReplicaOK, ReplicaFields
<1>. HIDE DEF r9
<1>10. r.view \in Nat /\ r9.view = r8.view /\ FlagMeansStored(r9)
  BY <1>8, <1>9 DEF Stays, FlagMeansStored, ReplicaOK
<1>11. Done(r8) => Done(r9)
  BY <1>9, <1>s
<1>12. /\ r.view <= r9.view /\ FlagMeansStored(r9)
       /\ r9.view = r.view /\ MayPropose(r9) => HasProposal(r9)
  BY <1>8, <1>10, <1>11 DEF Done
<1>. QED  BY <1>0, <1>12

\* No handler sets the flag or drops a proposal.
LEMMA HandlersKeepFlag ==
    ASSUME NEW r, ReplicaOK(r), FlagMeansStored(r)
    PROVE  /\ \A v : /\ FlagMeansStored(enter_new_view(r, v))
                     /\ FlagMeansStored(handle_timer(r, v))
           /\ \A m : /\ FlagMeansStored(handle_proposal(r, m))
                     /\ FlagMeansStored(handle_phase_qc(r, m))
                     /\ FlagMeansStored(handle_vote(r, m))
                     /\ FlagMeansStored(handle_new_view(r, m))
           /\ FlagMeansStored(handle_validation(r))
<1>1. ASSUME NEW new, new.broadcast = r.broadcast, r.proposals \subseteq new.proposals
      PROVE  FlagMeansStored(new)
  BY <1>1 DEF FlagMeansStored
<1>2. DOMAIN r = ReplicaFields
  BY DEF ReplicaOK
<1>3. ASSUME NEW v PROVE FlagMeansStored(enter_new_view(r, v))
  <2>. DEFINE new == enter_new_view(r, v)
  <2>1. new.broadcast = r.broadcast /\ new.proposals = r.proposals
    BY <1>2 DEF enter_new_view, SendTo, ReplicaFields
  <2>. HIDE DEF new
  <2>2. FlagMeansStored(new)
    BY <1>1, <2>1
  <2>. QED  BY <2>2 DEF new
<1>4. ASSUME NEW v PROVE FlagMeansStored(handle_timer(r, v))
  <2>. DEFINE fired == [r EXCEPT !.timers = @ \ {v}]
              doubled == [fired EXCEPT !.timeout = 2 * @]
              entered == enter_new_view(doubled, r.view + 1)
  <2>1. handle_timer(r, v) \in {fired, entered}
    BY DEF handle_timer
  <2>2. /\ fired.broadcast = r.broadcast /\ fired.proposals = r.proposals
        /\ doubled.broadcast = r.broadcast /\ doubled.proposals = r.proposals
        /\ DOMAIN doubled = ReplicaFields
    BY <1>2 DEF ReplicaFields
  <2>. HIDE DEF fired, doubled
  <2>3. entered.broadcast = r.broadcast /\ entered.proposals = r.proposals
    BY <2>2 DEF enter_new_view, SendTo, ReplicaFields
  <2>. HIDE DEF entered
  <2>4. FlagMeansStored(fired) /\ FlagMeansStored(entered)
    BY <1>1, <2>2, <2>3
  <2>. QED  BY <2>1, <2>4
<1>5. ASSUME NEW m PROVE FlagMeansStored(handle_proposal(r, m))
  <2>. DEFINE new == handle_proposal(r, m)
  <2>1. new.broadcast = r.broadcast /\ r.proposals \subseteq new.proposals
    BY <1>2 DEF handle_proposal, Kick, StoreProposal, Learn, ReplicaFields
  <2>. HIDE DEF new
  <2>2. FlagMeansStored(new)
    BY <1>1, <2>1
  <2>. QED  BY <2>2 DEF new
<1>6. ASSUME NEW m PROVE FlagMeansStored(handle_phase_qc(r, m))
  <2>. DEFINE new == handle_phase_qc(r, m)
  <2>1. new.broadcast = r.broadcast /\ new.proposals = r.proposals
    BY <1>2 DEF handle_phase_qc, Stage, ReplicaFields
  <2>. HIDE DEF new
  <2>2. FlagMeansStored(new)
    BY <1>1, <2>1
  <2>. QED  BY <2>2 DEF new
<1>7. ASSUME NEW m, NEW new \in {handle_vote(r, m), handle_new_view(r, m)}
      PROVE  FlagMeansStored(new)
  <2>1. new.broadcast = r.broadcast /\ new.proposals = r.proposals
    BY <1>2, <1>7 DEF handle_vote, handle_new_view, ReplicaFields
  <2>. QED  BY <1>1, <2>1
<1>8. FlagMeansStored(handle_validation(r))
  <2>. DEFINE new == handle_validation(r)
  <2>1. new.broadcast = r.broadcast /\ new.proposals = r.proposals
    BY <1>2 DEF handle_validation, ReplicaFields
  <2>. HIDE DEF new
  <2>2. FlagMeansStored(new)
    BY <1>1, <2>1
  <2>. QED  BY <2>2 DEF new
<1>. QED  BY <1>3, <1>4, <1>5, <1>6, <1>7, <1>8

\* A step is a turn of one node, from a record that is on the way and whose flag
\* means a stored proposal.
LEMMA NextHandles ==
    ASSUME TypeOK, EvidenceHolds, \A j \in Replicas : FlagMeansStored(rs[j]), Next
    PROVE  \E i \in Replicas : \E r, received :
              Along(rs, i, r) /\ FlagMeansStored(r) /\ Turn(i, r, received)
<1>1. PICK i \in Replicas :
         \/ rs[i].view = 0 /\ Turn(i, enter_new_view(rs[i], 1), {})
         \/ \E p \in net :
               \/ p.msg.kind = "Proposal" /\ Turn(i, handle_proposal(rs[i], p.msg), {p})
               \/ p.msg.kind = "PhaseQc" /\ Turn(i, handle_phase_qc(rs[i], p.msg), {p})
               \/ p.msg.kind = "Vote" /\ Turn(i, handle_vote(rs[i], p.msg), {p})
               \/ p.msg.kind = "NewView" /\ Turn(i, handle_new_view(rs[i], p.msg), {p})
         \/ rs[i].ex.queue # << >> /\ Turn(i, handle_validation(rs[i]), {})
         \/ \E v : Turn(i, handle_timer(rs[i], v), {})
  BY NextIsTurn, Zenon
<1>2. ReplicaOK(rs[i]) /\ FlagMeansStored(rs[i])
  BY DEF TypeOK
<1>. QED  BY <1>1, <1>2, HandlersAlong, HandlersKeepFlag, Zenon

\* "Skip until we have it": whatever an event brings to a node that stays in its
\* view, the turn does not end with a proposal that could be made and was not
\* (leader_prepare), for every cluster, workload and schedule.
THEOREM LeadersCatchUp == Spec => ReadyLeaderProposes
<1>. DEFINE Flags == \A j \in Replicas : FlagMeansStored(rs[j])
            A == \A i \in Replicas :
                   rs'[i] # rs[i] /\ rs'[i].view = rs[i].view /\ MayPropose(rs'[i]) =>
                      \E p \in rs'[i].proposals : p.view = rs'[i].view
<1>1. Init => Flags
  BY DEF Init, NewReplica, FlagMeansStored
<1>2. ASSUME TypeOK, EvidenceHolds, Flags, Next
      PROVE  Flags' /\ A
  <2>1. PICK i \in Replicas : \E r, received :
           Along(rs, i, r) /\ FlagMeansStored(r) /\ Turn(i, r, received)
    BY <1>2, NextHandles
  <2>2. PICK r, received : Along(rs, i, r) /\ FlagMeansStored(r) /\ Turn(i, r, received)
    BY <2>1
  <2>. DEFINE done == try_advance(r)
              last == Flush(done)
  <2>3. /\ ReplicaOK(r) /\ rs[i].view <= r.view
        /\ rs[i].view \in Nat /\ DOMAIN rs = Replicas
    BY <1>2, <2>2 DEF Along, Advances, TypeOK, ReplicaOK
  <2>4. /\ r.view <= done.view /\ FlagMeansStored(done)
        /\ done.view = r.view /\ MayPropose(done) => HasProposal(done)
    BY <2>2, <2>3, TryAdvanceProposes
  <2>5. ReplicaOK(done) /\ rs' = [rs EXCEPT ![i] = last]
    BY <2>2, <2>3, TryAdvanceOK DEF Turn, Keeps
  <2>. HIDE DEF done
  <2>6. Stays(done, last) /\ rs'[i] = last /\ \A j \in Replicas : j # i => rs'[j] = rs[j]
    BY <2>3, <2>5 DEF Flush, Stays, ReplicaOK, ReplicaFields
  <2>. HIDE DEF last
  <2>7. FlagMeansStored(last)
    BY <2>4, <2>6 DEF FlagMeansStored, Stays
  <2>8. last.view = rs[i].view /\ MayPropose(last) => HasProposal(last)
    <3>1. last.view = done.view /\ r.view \in Nat /\ done.view \in Nat
      BY <2>3, <2>5, <2>6 DEF Stays, ReplicaOK
    <3>2. last.view = rs[i].view => done.view = r.view
      BY <2>3, <2>4, <3>1
    <3>. QED  BY <2>4, <2>6, <3>2, ProposalStays
  <2>9. Flags'
    BY <1>2, <2>6, <2>7
  <2>10. A
    BY <2>6, <2>8 DEF HasProposal
  <2>. QED  BY <2>9, <2>10
<1>3. ReadyLeaderProposes <=> [][A]_vars
  BY DEF ReadyLeaderProposes
<1>4. (UNCHANGED vars) /\ Flags => Flags'
  BY DEF vars
<1>. HIDE DEF A, Flags
<1>5. TypeOK /\ EvidenceHolds /\ Flags /\ [Next]_vars => Flags' /\ [A]_vars
  BY <1>2, <1>4
<1>. QED  BY <1>1, <1>3, <1>5, EvidenceIsInvariant, PTL DEF Spec
=============================================================================
