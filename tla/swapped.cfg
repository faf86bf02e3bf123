SPECIFICATION DirSpec
CONSTANTS
    W = 4
    NumAccounts = 3
    InitialBalance = 3
    Draws = {0, 3}
    NumBlocks = 2
    MaxStarts = 1
    MaxDamage = 1
    Genesis <- generate_initial_state
    apply_block <- ApplyBlock
    compute_state_root <- StateRoot
    hash_transactions <- TxHash
    Plans <- AllPlans
INVARIANTS
    LoadCatchesSwaps
CHECK_DEADLOCK FALSE
