SPECIFICATION AttemptFairSpec
CONSTANTS
    MaxTurns = 3
    Calls <- EveryKind
    MaxCalls = 3
    MaxLines = 4
INVARIANTS
    AttemptTypeOK
    OutcomeIsTrue
    AttemptIsContained
PROPERTY
    AttemptEnds
CHECK_DEADLOCK FALSE
