SPECIFICATION TransportSpec
CONSTANTS
    N = 2
    MayExit = {0}
    MaxCuts = 2
INVARIANTS
    KeysBeforeStart
    WriterIsLive
    LinkOrCrossed
    QuietLinksAgree
PROPERTIES
    LinksAgree
CHECK_DEADLOCK FALSE
