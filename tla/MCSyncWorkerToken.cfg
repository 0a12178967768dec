SPECIFICATION FairSpec
CONSTANTS
    Workers = {w1, w2}
    Runs = {r1}
    SftpRuns = {}
    Events = {e1}
    BadEvents = {}
    Files = {f1}
    MaxAttempts = 8
    ClaimLimit = 2
    DrainLimit = 1
    FileLimit = 1
    Presents = "workerId"
    Slow = FALSE
    MaxFaults = 0
CHECK_DEADLOCK FALSE
PROPERTY
    RunsEnd
