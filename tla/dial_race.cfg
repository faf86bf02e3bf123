SPECIFICATION TransportSpec
CONSTANTS
    N = 2
    MayExit = {}
    MaxCuts = 0
INVARIANTS
    WriterPerPeer
CHECK_DEADLOCK FALSE
