SPECIFICATION Spec
CONSTANTS
    Peers = {c1, c2, b1, b2}
    Clients = {c1, c2}
    Slow = {}
    Lines = {data}
    MaxLines = 2
    BufLines = 1
    MaxFd = 2
    BackendCount = 1
    DownSets = {{}}
    None = None
PROPERTY LivePairKept
CHECK_DEADLOCK FALSE
