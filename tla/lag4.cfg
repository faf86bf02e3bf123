SPECIFICATION SyncSpec
CONSTANTS
    N = 4
    NumBlocks = 2
    MaxView = 2
    MaxEarly = 0
    Cmds <- MCCmds
    Workload <- SameWorkload
    Reexecutes <- AllReexecute
    Corrupt <- Nobody
    Crashed <- Nobody
INVARIANTS
    StateMatchesLog
    InputIsParentState
    ValidatedParentIsEnough
    DecidedNeverWaits
    SafeNodeNeverBlocks
PROPERTIES
    ReadyLeaderProposes
ACTION_CONSTRAINT OneLags
CHECK_DEADLOCK FALSE
