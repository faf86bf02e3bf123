SPECIFICATION Spec
CONSTANTS
    N = 3
    NumBlocks = 2
    MaxView = 2
    Cmds <- MCCmds
    Workload <- SameWorkload
    Reexecutes <- AllReexecute
    Corrupt <- Nobody
    Crashed <- Nobody
INVARIANTS
    TryAdvanceIdempotent
CHECK_DEADLOCK FALSE
