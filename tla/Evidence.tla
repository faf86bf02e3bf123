------------------------------ MODULE Evidence ------------------------------
(***************************************************************************)
(* Why a highQC is new enough: what each message and each certificate says *)
(* about the replicas whose votes or NEW-VIEWs it was made from, stated    *)
(* over a map S of replica records.  LockedMeansStored and                 *)
(* HighQcCoversLocks are consequences; neither is inductive by itself,     *)
(* since both speak of replicas that their own votes said something about  *)
(* several views and several messages earlier.                             *)
(***************************************************************************)
EXTENDS HotStuff

\* the views in which a replica has voted PRE-COMMIT
PreCommits(r) == {f[2] : f \in {g \in r.voted : g[1] = "pre_commit"}}

\* A PRE-COMMIT vote was cast: its voter's fire-once flag is set.
VoteBacked(m, S) == m.msg_type = "pre_commit" => m.view \in PreCommits(S[m.voter])

\* A precommitQC has n - f signers, who all voted PRE-COMMIT in its view.
QcBacked(q, S) ==
    q.msg_type = "pre_commit" =>
        /\ Cardinality(q.sigs) >= Quorum
        /\ \A s \in q.sigs : q.view \in PreCommits(S[s])

\* No PRE-COMMIT vote of a view up to `last` is newer than the QC reported.
Covers(qc, last, r) == \A w \in PreCommits(r) : w <= last => w <= qc.view

\* The sender of a NEW-VIEW has left its view for good, and the prepareQC it
\* carries covers every PRE-COMMIT vote the sender ever casts up to that view.
NewViewBacked(m, S) ==
    /\ m.view < S[m.sender].view
    /\ Covers(m.justify, m.view, S[m.sender])

\* A proposal's highQC covers the earlier PRE-COMMIT votes of n - f replicas,
\* none of which can cast another.
ProposalBacked(p, S) ==
    \E Q \in SUBSET Replicas :
        /\ Cardinality(Q) >= Quorum
        /\ \A s \in Q : /\ p.view <= S[s].view
                        /\ Covers(p.justify, p.view - 1, S[s])

MessageBacked(m, S) ==
    /\ m.kind = "Vote" => VoteBacked(m, S)
    /\ m.kind = "PhaseQc" => QcBacked(m.justify, S)
    /\ m.kind = "NewView" => NewViewBacked(m, S)
    /\ m.kind = "Proposal" => ProposalBacked(m, S)

\* A replica's own PRE-COMMIT votes, and everything it has stored or is about
\* to send.
ReplicaBacked(r, S) ==
    /\ \A w \in PreCommits(r) : w <= r.view /\ w <= r.prepare_qc.view
    /\ \A m \in r.votes : VoteBacked(m, S)
    /\ \A q \in r.staged : QcBacked(q, S)
    /\ r.locked_qc # NoQC => r.locked_qc.msg_type = "pre_commit" /\ QcBacked(r.locked_qc, S)
    /\ \A m \in r.new_view_msgs : NewViewBacked(m, S)
    /\ \A p \in r.proposals : ProposalBacked(p, S)
    /\ \A p \in r.out : MessageBacked(p.msg, S)

\* Every vote, certificate, NEW-VIEW and proposal, stored or in flight, is
\* backed by what its makers really did (form_qc, leader_prepare,
\* enter_new_view), however long ago and whatever they have done since.
EvidenceHolds ==
    /\ \A i \in Replicas : ReplicaBacked(rs[i], rs)
    /\ \A p \in net : MessageBacked(p.msg, rs)
=============================================================================
