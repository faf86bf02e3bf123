------------------------------ MODULE Pipeline ------------------------------
(***************************************************************************)
(* What validation and execution on a node amount to, and the log the      *)
(* cluster implements.                                                     *)
(*                                                                         *)
(* However proposals, outcomes and decisions interleave, a node validates  *)
(* the blocks of its own workload directory one after the other: K of them *)
(* are valid, at most the next one is under validation or was rejected,    *)
(* and a prefix of the K has been executed.                                *)
(***************************************************************************)
EXTENDS Safety

\* the first k blocks of node id's workload directory
Own(id, k) == SubSeq(Workload[id], 1, k)

OwnNodes(id, S) == {Own(id, k) : k \in S}

\* a HashMap that takes every node of the set to the state after it
AfterEach(f, nodes) == DOMAIN f = nodes /\ \A n \in nodes : f[n] = n

\* pending_validation and the worker's queue: nothing, or the next block with
\* the state its parent left
InFlight(id, ex, K) ==
    \/ ex.queue = << >> /\ ex.pending_validation = NoPending
    \/ /\ K < NumBlocks /\ ex.invalid = {}
       /\ ex.pending_validation = Own(id, K + 1)
       /\ Len(ex.queue) = 1 /\ ex.queue[1].node = Own(id, K + 1)
       /\ id \in Reexecutes => ex.queue[1].input = Own(id, K)

\* live_state and the cached post-states of a node that re-executes
StatesOK(id, ex, K) ==
    LET h == ex.last_executed_height
    IN  /\ ex.live_state = Own(id, h + 1)
        /\ AfterEach(ex.post_state_by_node, OwnNodes(id, h + 2 .. K))
        /\ DOMAIN ex.pre_root_by_node = {} /\ DOMAIN ex.post_root_by_node = {}
        /\ ex.chained_root = ZeroRoot

\* chained_root and the cached roots of a node that verifies
RootsOK(id, ex, K) ==
    LET h == ex.last_executed_height
    IN  /\ ex.live_state = << >> /\ DOMAIN ex.post_state_by_node = {}
        /\ ex.chained_root = IF h < 0 THEN ZeroRoot ELSE Own(id, h + 1)
        /\ AfterEach(ex.post_root_by_node, OwnNodes(id, h + 2 .. K))
        /\ DOMAIN ex.pre_root_by_node = OwnNodes(id, 1 .. K)
        /\ \A k \in 1 .. K : ex.pre_root_by_node[Own(id, k)] = Own(id, k - 1)

Piped(id, ex, K) ==
    LET h == ex.last_executed_height
    IN  /\ K \in 0 .. NumBlocks /\ h + 1 <= K
        /\ ex.valid = OwnNodes(id, 1 .. K)
        /\ ex.invalid # {} => K < NumBlocks /\ ex.invalid = {Own(id, K + 1)}
        /\ InFlight(id, ex, K)
        /\ IF id \in Reexecutes THEN StatesOK(id, ex, K) ELSE RootsOK(id, ex, K)
        /\ ~ex.panicked
        /\ h >= 0 => \E d \in ex.decided_nodes :
                        Height(d) >= h /\ Ancestor(d, h) = Own(id, h + 1)

\* Every node works through its own workload directory in order, with one
\* validation at a time and every cached state and root in step with what was
\* validated and executed (maybe_kick_validation, ingest_validation,
\* try_execute_chain).
PipelineHolds == \A i \in Replicas : \E K \in 0 .. NumBlocks : Piped(i, rs[i].ex, K)

-----------------------------------------------------------------------------
AllDecided == UNION {rs[i].ex.decided_nodes : i \in Replicas}

\* the longest chain anybody has decided
DecidedLog ==
    IF AllDecided = {} THEN << >>
    ELSE CHOOSE d \in AllDecided : \A e \in AllDecided : Len(e) <= Len(d)

Ledgers == [i \in Replicas |-> LedgerOf(i, rs[i].ex)]

Log == INSTANCE ReplicatedLog
         WITH Members <- Replicas, Entries <- Cmds, log <- DecidedLog, applied <- Ledgers

\* The cluster implements one log that is only added to, and every node's ledger
\* is the result of a prefix of it that only grows, whatever views, losses and
\* validation outcomes come in between (replica_decide, try_execute_chain).
ImplementsLog == Log!LogSpec
=============================================================================
