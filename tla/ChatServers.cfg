SPECIFICATION Spec
CONSTANTS
    Peers = {p1, p2, p3}
    Slow = {}
    Lines <- AllLines
    MaxLines = 3
    BufLines = 2
    MaxFd = 2
    MaxClients = 1
    MaxCommands = 2
    None = None
    Words = {"", "kernel", "net"}
    LongWords = {"kernel-long"}
    Prefix = "kernel"
    Empty = ""
INVARIANTS TableIsOpen EdgeSeen EntryIsOwn
PROPERTIES TextStaysInRoom PrivateToNamed
SYMMETRY Symmetry
CHECK_DEADLOCK FALSE
