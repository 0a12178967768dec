SPECIFICATION Spec
CONSTANTS
    Workers = {w1, w2}
    Runs = {r1, s1}
    SftpRuns = {s1}
    Events = {e1, e2}
    BadEvents = {e2}
    Files = {f1}
    MaxAttempts = 2
    ClaimLimit = 1
    DrainLimit = 1
    FileLimit = 1
    Presents = "lockToken"
    Slow = TRUE
    MaxFaults = 1
SYMMETRY Interchangeable
CHECK_DEADLOCK FALSE
INVARIANTS
    TypeOK
    LoadsAreSound
    WorkIsSettled
