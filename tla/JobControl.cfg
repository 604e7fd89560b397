SPECIFICATION Spec
CONSTANTS
    Pids = {p1, p2}
    Shell = shell
    NoPid = NoPid
    MaxJobs = 3
INVARIANTS TypeOK PromptHasTty DoneIsDead ChangeSignalled
CHECK_DEADLOCK FALSE
