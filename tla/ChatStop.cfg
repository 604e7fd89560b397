SPECIFICATION FairSpec
CONSTANTS
    Workers = {w1, w2}
    Main = main
    Peers = {p1}
    Fds = {f1}
    Signals = {SIGINT, SIGTERM}
    None = None
    MaxSend = 1
    Window = 1
    MallocMayFail = TRUE
INVARIANTS ClosedWakes JoinEmptiesList
PROPERTIES JoinEnds SignalClosesQueue
CHECK_DEADLOCK FALSE
