SPECIFICATION SyncSpec
CONSTANTS
    N = 4
    NumBlocks = 2
    MaxView = 7
    MaxEarly = 1
    Cmds <- MCCmds
    Workload <- SameWorkload
    Reexecutes <- AllReexecute
    Corrupt <- Nobody
    Crashed <- OnlyFirst
PROPERTIES
    FirstBlockExecuted
    DecidedIsExecuted
    AllBlocksExecuted
CHECK_DEADLOCK FALSE
