SPECIFICATION FullRoomSpec
CONSTANTS
    Workers = {w1, w2, w3}
    Main = main
    Peers = {p1, p2, p3}
    Fds = {f1, f2, f3}
    Signals = {}
    None = None
    MaxSend = 3
    Window = 2
    MallocMayFail = FALSE
INVARIANTS SameOrder NoGap
PROPERTY BroadcastEnds
CHECK_DEADLOCK FALSE
