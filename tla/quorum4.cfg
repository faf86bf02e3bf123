SPECIFICATION Spec
CONSTANTS
    N = 4
    NumBlocks = 1
    MaxView = 1
    Cmds <- MCCmds
    Workload <- SameWorkload
    Reexecutes <- AllReexecute
    Corrupt <- LastCorrupt
    Crashed <- Nobody
INVARIANTS
    LockedMeansStored
    DecidedWasValidated
    SafeNodeNeverBlocks
CHECK_DEADLOCK FALSE
