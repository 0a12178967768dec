SPECIFICATION Spec
CONSTANTS
    s1 = s1
    s2 = s2
    Sessions = {s1, s2}
    NSteps = 2
    MaxAttempts = 2
    Validations = {"estimated", "validated"}
    MaxRevisions = 2
    MaxCommits = 4
SYMMETRY Symmetry
INVARIANTS
    TypeOK
    NoCircularWait
    RecordsAreSound
PROPERTY
    CommittedIsKept
CHECK_DEADLOCK FALSE
