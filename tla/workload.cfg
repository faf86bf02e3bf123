SPECIFICATION DirSpec
CONSTANTS
    W = 4
    NumAccounts = 3
    InitialBalance = 3
    Draws = {0, 3}
    NumBlocks = 2
    MaxStarts = 2
    MaxDamage = 1
    Genesis <- generate_initial_state
    apply_block <- ApplyBlock
    compute_state_root <- StateRoot
    hash_transactions <- TxHash
    Plans <- AllPlans
INVARIANTS
    FinishedReplays
    AcceptedIsIntact
    SupplyConserved
    RootsTellApart
CHECK_DEADLOCK FALSE
