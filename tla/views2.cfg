SPECIFICATION Spec
CONSTANTS
    N = 2
    NumBlocks = 3
    MaxView = 4
    Cmds <- MCCmds
    Workload <- SameWorkload
    Reexecutes <- OnlyFirst
    Corrupt <- Nobody
    Crashed <- Nobody
INVARIANTS
    TypeOK
    SingleInFlight
    StateMatchesLog
    NoChainBreak
    PipelineHolds
    TimerArmed
PROPERTIES
    NothingGoesBack
CHECK_DEADLOCK FALSE
