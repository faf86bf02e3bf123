SPECIFICATION Spec
CONSTANTS
    N = 2
    NumBlocks = 2
    MaxView = 2
    Cmds <- MCCmds
    Workload <- SameWorkload
    Reexecutes <- Nobody
    Corrupt <- Nobody
    Crashed <- Nobody
INVARIANTS
    ValidatedParentIsEnough
CHECK_DEADLOCK FALSE
