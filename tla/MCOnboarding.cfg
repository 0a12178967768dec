SPECIFICATION Spec
CONSTANTS
    Sessions = {s1, s2}
    NTasks = 3
    MaxSaves = 1
    MaxFaults = 1
CONSTRAINTS
    UntilClobbered
    FirstDraft
SYMMETRY Interchangeable
INVARIANTS
    TypeOK
    CompletionIsRecorded
    CaseIsTrue
CHECK_DEADLOCK FALSE
PROPERTY NothingIsTakenBack
