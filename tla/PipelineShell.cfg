SPECIFICATION Spec
CONSTANTS
    Pids = {p1, p2}
    Shell = shell
    NoPid = NoPid
    MaxJobs = 2
    MaxCmds = 2
INVARIANTS PromptHasTty GroupComplete ChangeSignalled
PROPERTY ReaderDrains
CHECK_DEADLOCK FALSE
