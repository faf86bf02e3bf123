SPECIFICATION SyncSpec
CONSTANTS
    N = 3
    NumBlocks = 1
    MaxView = 3
    MaxEarly = 1
    Cmds <- MCCmds
    Workload <- SameWorkload
    Reexecutes <- AllReexecute
    Corrupt <- Nobody
    Crashed <- Nobody
INVARIANTS
    QuietLeaderProposed
CHECK_DEADLOCK FALSE
