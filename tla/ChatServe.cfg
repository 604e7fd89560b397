SPECIFICATION Spec
CONSTANTS
    Workers = {w1, w2}
    Main = main
    Peers = {p1, p2}
    Fds = {f1, f2}
    Signals = {SIGINT}
    None = None
    MaxSend = 1
    Window = 1
    MallocMayFail = FALSE
SYMMETRY Symmetry
INVARIANTS TypeOK SoleOwner ListedIsServed NoLostWakeup NoLeak
PROPERTY ImplementsPool
CHECK_DEADLOCK FALSE
