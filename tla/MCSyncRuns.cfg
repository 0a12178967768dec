SPECIFICATION Spec
CONSTANTS
    Connections = {c1}
    PullTriggers = {"manual", "webhook"}
    Keys = {k1}
    SourceObjects = {o1}
    RunIds = {0, 1}
    MaxAttempts = 2
    Limits = {1, 2}
    LeaseTimes = {1, 3}
    DefaultLease = 2
    RetryDelays = {1}
    PatchStatuses = {"active", "disabled"}
    MaxTime = 4
CHECK_DEADLOCK FALSE
INVARIANTS
    TypeOK
    RunsAreSound
PROPERTIES
    LocksAreSound
    ReportsAreKept
    ImplementsQueue
