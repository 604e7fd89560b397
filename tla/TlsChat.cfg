SPECIFICATION Spec
CONSTANTS
    Peers = {p1, p2}
    Slow = {p2}
    Lines = {"data", "bye"}
    MaxLines = 2
    BufLines = 1
    MaxFd = 2
    None = None
INVARIANTS ListedIsOpen NothingStranded
PROPERTY SignalEnds
CHECK_DEADLOCK FALSE
