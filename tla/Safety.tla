------------------------------- MODULE Safety -------------------------------
(***************************************************************************)
(* Why decided nodes lie on one chain: where every vote, certificate,      *)
(* proposal, tree entry and decision comes from, stated over a map S of    *)
(* replica records as in Evidence.                                         *)
(*                                                                         *)
(* Everything is traced back to the proposals their leaders stored         *)
(* (leader_prepare), of which there is one per view.  A decided node was   *)
(* voted PRE-COMMIT by n - f replicas, so by EvidenceHolds the highQC of   *)
(* every later proposal is at least as new, and following highQCs down     *)
(* from proposal to proposal leads to the decided one.                     *)
(***************************************************************************)
EXTENDS Evidence

\* the leader of view v has proposed node n there
Proposed(v, n, S) == \E p \in S[leader_for(v)].proposals : p.view = v /\ p.node = n

\* some replica has stored a proposal of n
InSomeProposal(n, S) == \E j \in Replicas : \E p \in S[j].proposals : p.node = n

\* n - f replicas have voted PRE-COMMIT in view v
PreCommitted(v, S) ==
    \E Q \in SUBSET Replicas :
        Cardinality(Q) >= Quorum /\ \A s \in Q : v \in PreCommits(S[s])

\* n - f replicas have validated n
Validated(n, S) ==
    \E Q \in SUBSET Replicas :
        Cardinality(Q) >= Quorum /\ \A s \in Q : n \in S[s].ex.valid

\* A vote is for the node proposed in its view.  A PREPARE voter has validated
\* it, later voters have seen that n - f did, and a COMMIT voter that n - f
\* voted PRE-COMMIT.
VoteKnown(m, S) ==
    /\ Proposed(m.view, m.node, S)
    /\ m.msg_type = "prepare" => m.node \in S[m.voter].ex.valid
    /\ m.msg_type # "prepare" => Validated(m.node, S)
    /\ m.msg_type = "commit" => PreCommitted(m.view, S)

\* So is a certificate.
QcKnown(q, S) ==
    q # NoQC =>
        /\ Proposed(q.view, q.node, S)
        /\ Validated(q.node, S)
        /\ q.msg_type = "commit" => PreCommitted(q.view, S)

\* A proposal is the one its leader stored, one block on top of the node of a
\* certificate from an earlier view.
ProposalKnown(p, S) ==
    /\ p \in S[leader_for(p.view)].proposals
    /\ p.justify.view < p.view
    /\ Parent(p.node) = p.justify.node
    /\ QcKnown(p.justify, S)

\* A decided node was validated, and proposed in a view where n - f replicas
\* voted PRE-COMMIT.
DecisionKnown(d, S) ==
    /\ Validated(d, S)
    /\ \E j \in Replicas : \E p \in S[j].proposals :
          p.node = d /\ PreCommitted(p.view, S)

MessageKnown(m, S) ==
    /\ m.kind = "Vote" => VoteKnown(m, S)
    /\ m.kind \in {"PhaseQc", "NewView"} => QcKnown(m.justify, S)
    /\ m.kind = "Proposal" => ProposalKnown(m, S)

\* A replica stores one proposal per view, its own with the fire-once flag.
OnePerView(r) ==
    \A p \in r.proposals :
        /\ leader_for(p.view) = r.id => << "proposal", p.view >> \in r.broadcast
        /\ \A x \in r.proposals : x.view = p.view => x = p

\* Everything a replica has stored or is about to send.
ReplicaKnown(r, S) ==
    /\ \A m \in r.votes : VoteKnown(m, S)
    /\ \A q \in r.staged : QcKnown(q, S)
    /\ QcKnown(r.prepare_qc, S)
    /\ QcKnown(r.locked_qc, S) /\ r.locked_qc.view <= r.view
    /\ \A m \in r.new_view_msgs : QcKnown(m.justify, S)
    /\ OnePerView(r)
    /\ \A p \in r.proposals : ProposalKnown(p, S)
    /\ \A n \in r.ex.tree : InSomeProposal(n, S)
    /\ \A d \in r.ex.decided_nodes : DecisionKnown(d, S)
    /\ \A p \in r.out : MessageKnown(p.msg, S)

\* Every vote, certificate, proposal, tree node and decision anywhere goes back
\* to the one proposal of its view and to the validations and votes of n - f
\* replicas (leader_prepare, form_qc, handle_phase_qc, replica_decide).
OriginsHold ==
    /\ \A i \in Replicas : ReplicaKnown(rs[i], rs)
    /\ \A p \in net : MessageKnown(p.msg, rs)
=============================================================================
