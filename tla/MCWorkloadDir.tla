--------------------------- MODULE MCWorkloadDir ---------------------------
(* LedgerWorkload for TLC: every choice of one transaction per block. *)
EXTENDS LedgerWorkload

CONSTANT Draws            \* the third draw of generate_txs, which fixes the amount

AllTxs ==
    {GenerateTx(d1, d2, d3) : d1, d2 \in 0 .. NumAccounts - 1, d3 \in Draws}

\* the states a choice of one transaction per block leads through
After(t) ==
    LET s[b \in 0 .. NumBlocks] ==
            IF b = 0 THEN generate_initial_state ELSE ApplyBlock(s[b - 1], t[b - 1]).state
    IN  s
AllPlans ==
    {[txs |-> t, state |-> After(t)] : t \in [Blocks -> {<< x >> : x \in AllTxs}]}
=============================================================================
