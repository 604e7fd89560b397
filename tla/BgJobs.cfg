SPECIFICATION FairSpec
CONSTANTS
    Pids = {p1, p2, p3}
    NoPid = NoPid
    MaxJobs = 2
INVARIANTS ZombieSignalled RunningIsListed
PROPERTY ChildrenReaped
CHECK_DEADLOCK FALSE
