SPECIFICATION FairSpec
CONSTANTS
    Workers = {w1, w2}
    Runs = {r1, s1}
    SftpRuns = {s1}
    Events = {e1}
    BadEvents = {}
    Files = {f1}
    MaxAttempts = 2
    ClaimLimit = 2
    DrainLimit = 1
    FileLimit = 1
    Presents = "lockToken"
    Slow = FALSE
    MaxFaults = 1
CHECK_DEADLOCK FALSE
PROPERTY
    RunsEnd
