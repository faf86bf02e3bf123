--------------------------- MODULE LedgerWorkload ---------------------------
(* WorkloadDir with the state transition function of Ledger. *)
EXTENDS WorkloadDir, Ledger

ASSUME LedgerUsed ==
    /\ Genesis = generate_initial_state
    /\ \A p \in Plans : \A b \in Blocks :
          apply_block(p.state[b], p.txs[b]) = ApplyBlock(p.state[b], p.txs[b])

ASSUME TxsAssumption == \A p \in Plans : \A b \in Blocks : p.txs[b] \in Seq(Txs)

\* No balance wraps, none is lost or made up: the ledger of the generator and the
\* one run-workload rebuilds always hold the initial supply (apply_block).
SupplyConserved ==
    \A s \in {state, rstate} :
        DOMAIN s = Accounts /\ Supply(s) = NumAccounts * InitialBalance

\* The Merkle root tells the ledger states of a workload apart, padded as it is when
\* the number of accounts is not a power of two (compute_state_root).
RootsTellApart ==
    LET states == {plan.state[b] : b \in 0 .. NumBlocks} \cup {state, rstate}
    IN  \A s, t \in states : StateRoot(s) = StateRoot(t) => s = t
=============================================================================
