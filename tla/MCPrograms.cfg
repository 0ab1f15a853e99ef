CONSTANTS
    Threads = {t1, t2}
    NoThread = NoThread
    Procs = {p1}
    Parser = TRUE
    MaxTurns = 3
    Jobs <- TwoJobs
    Merges <- TwoMerges
    Touches <- TheirLines
    Leaves <- LeftBehind
    Retries = 3
    MaxFaults = 1
    usage_job = usage_job
    sheet_job = sheet_job
    roles_pr = roles_pr
    usage_pr = usage_pr
SPECIFICATION ProgramsSpec
INVARIANTS
    ThreadsAreSound
    PushIsSafe
PROPERTIES
    Promised
    DeadEndsAreForever
    ProgramsEnd
\* scripts and batches end
CHECK_DEADLOCK FALSE
