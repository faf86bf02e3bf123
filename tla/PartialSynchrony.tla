-------------------------- MODULE PartialSynchrony --------------------------
(***************************************************************************)
(* The cluster after the network has settled.  At most MaxEarly NEXTVIEW   *)
(* timers expire while messages or validations are still under way; after  *)
(* that the doubled timeout (handle_timer) is long enough, so a timer      *)
(* expires only when nothing else is left to happen, and first at a node   *)
(* whose view is behind, because its timer was armed earlier and is the    *)
(* shorter one.                                                            *)
(***************************************************************************)
EXTENDS HotStuff

CONSTANT MaxEarly          \* bound on timers that expire too early

ASSUME EarlyAssumption == MaxEarly \in Nat

VARIABLE early             \* how many have

syncVars == << rs, net, early >>

\* every node has started (wait_for_peers releases them together), and nothing
\* is in flight to, or being validated at, a node that still runs
Quiet ==
    /\ \A i \in Replicas : rs[i].view > 0
    /\ \A p \in net : ~Running(p.to)
    /\ \A i \in Replicas : Running(i) => rs[i].ex.queue = << >>

Behind(i) == \A j \in Replicas : Running(j) => rs[i].view <= rs[j].view

EarlyTimer(i) ==
    /\ early < MaxEarly
    /\ ~(Quiet /\ Behind(i))
    /\ NextViewTimer(i)
    /\ early' = early + 1

DueTimer(i) ==
    /\ Quiet /\ Behind(i)
    /\ NextViewTimer(i)
    /\ UNCHANGED early

SyncStart(i) == Start(i) /\ UNCHANGED early
SyncReceive(i) == Receive(i) /\ UNCHANGED early
SyncValidation(i) == ValidationDone(i) /\ UNCHANGED early
SyncStale(i) == StaleTimer(i) /\ UNCHANGED early

SyncInit == Init /\ early = 0

SyncNext ==
    \E i \in Replicas :
        \/ SyncStart(i) \/ SyncReceive(i) \/ SyncValidation(i) \/ SyncStale(i)
        \/ EarlyTimer(i) \/ DueTimer(i)

\* Some message, outcome or timer is due at a node that still runs.
CanStep ==
    \E i \in Replicas :
        \/ rs[i].view = 0
        \/ Running(i) /\ (
           \/ \E p \in net : p.to = i
           \/ rs[i].ex.queue # << >>
           \/ Quiet /\ Behind(i) /\ rs[i].view \in rs[i].timers)

\* Weak fairness of the whole system, with CanStep for ENABLED: the event
\* loops do not all stop while something is due.  Every behaviour up to
\* MaxView is finite, so nothing stronger is needed.
Fairness == []<>(~CanStep) \/ []<><<TRUE>>_syncVars

SyncSpec == SyncInit /\ [][SyncNext]_syncVars /\ Fairness

-----------------------------------------------------------------------------
\* nodes that run and whose workload directory is sound and held by n - f nodes
Healthy ==
    {i \in Replicas \ Crashed :
        /\ Cardinality({j \in Replicas : Workload[j] = Workload[i]}) >= Quorum
        /\ \A c \in Corrupt : c[1] # i}

ExecutedTo(i, h) == rs[i].ex.last_executed_height >= h

\* README: a view that fails is followed by one that "re-tries from the same
\* block with a new leader".  Once every message has arrived and every validation
\* is done, a leader with n - f NEW-VIEWs has broadcast a proposal
\* (leader_prepare).
QuietLeaderProposed ==
    \A i \in Replicas :
        LET r == rs[i]
        IN  (/\ Quiet /\ Running(i)
             /\ leader_for(r.view) = i
             /\ Cardinality(Senders(NewViews(r))) >= Quorum)
            => << "proposal", r.view >> \in r.broadcast

\* As long as no timer expires too early, every healthy node executes the whole
\* workload (main's loop condition), whatever leader has stopped.
AllBlocksExecuted == <>(early > 0 \/ \A i \in Healthy : ExecutedTo(i, NumBlocks - 1))

\* Every healthy node executes the first block, also when its view is lost to an
\* early timer: a later view retries it or commits a block on top of it.
FirstBlockExecuted == <>(\A i \in Healthy : ExecutedTo(i, 0))

\* A healthy node that has seen a DECIDE executes up to it, also when the DECIDE
\* arrives after the view was left or before the block is validated
\* (retry_pending_execute).
DecidedIsExecuted ==
    \A i \in Healthy : \A h \in 0 .. NumBlocks - 1 :
        (\E d \in rs[i].ex.decided_nodes : Height(d) >= h) ~> ExecutedTo(i, h)
=============================================================================
