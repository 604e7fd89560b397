SPECIFICATION Spec
CONSTANTS
    Peers = {c1, c2, c3, c4, b1, b2, b3}
    Clients = {c1, c2, c3, c4}
    Late = {c3, c4}
    Slow = {}
    Lines = {data}
    MaxLines = 2
    BufLines = 1
    MaxFd = 6
    BackendCount = 2
    DownSets = {{}, {1}}
    None = None
INVARIANTS PairsIntact Isolation Balanced RefusalsBounded
SYMMETRY Symmetry
CHECK_DEADLOCK FALSE
