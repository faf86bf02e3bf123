SPECIFICATION SyncSpec
CONSTANTS
    N = 4
    NumBlocks = 2
    MaxView = 4
    MaxEarly = 2
    Cmds <- MCCmds
    Workload <- OddSecond
    Reexecutes <- AllReexecute
    Corrupt <- Nobody
    Crashed <- Nobody
INVARIANTS
    LockedMeansStored
    HighQcCoversLocks
    EvidenceHolds
    OriginsHold
    Agreement
    OneLeafToKick
    DecidedWasValidated
    DecidedIsWorkload
PROPERTIES
    ImplementsLog
ACTION_CONSTRAINT NobodyIsFree
CHECK_DEADLOCK FALSE
